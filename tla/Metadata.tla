------------------------------ MODULE Metadata ------------------------------
(***************************************************************************)
(* Building and reading a note's metadata (metadata.rs): a Vec that nostrdb *)
(* fills through a cursor, and the iterator and entry_at over the result.  *)
(*                                                                         *)
(* Sizes are in units of 16 bytes, the size of an entry and of the header. *)
(* The Vec's length and C's cursor both advance with every entry, but only *)
(* the cursor begins behind the header.  A Vec of capacity 0 has no room   *)
(* for a header: the result of ndb_note_meta_builder_init, which would say *)
(* so, is dropped, and the builder goes on without.                        *)
(***************************************************************************)
EXTENDS Integers, Sequences, FiniteSets, Functions

CONSTANTS
    Types,       \* entry types
    Known,       \* those that have a variant of their own
    Capacities,  \* arguments of with_capacity
    Slack,       \* bound: how much more than asked a Vec may allocate
    MaxEntries,  \* bound: entries that are added
    CountBound,  \* the entry count is a u16: 2^16
    NoIndex      \* entry_at returned no entry

ASSUME MetadataAssumption ==
    /\ Capacities \subseteq Nat
    /\ Slack \in Nat /\ MaxEntries \in Nat /\ CountBound \in Nat \ {0}
    /\ NoIndex \notin Nat

VARIABLES
    asked,       \* what with_capacity was given
    cap, len,    \* the Vec
    pos, end,    \* C's cursor: how much is filled, and where it ends
    count,       \* the header's entry count
    added,       \* history: the types of the entries added
    status,      \* none, building, built, panicked (add_entry), overflowed
                 \* (entry_at) or undefined (built without a header)
    meta,        \* the entries in the built buffer
    iterIndex,   \* NoteMetadataEntryIter::index
    seen,        \* what the iterator has returned
    read         \* the index entry_at read last

metaVars ==
    <<asked, cap, len, pos, end, count, added, status, meta, iterIndex, seen, read>>

MetaInit ==
    /\ asked = 0 /\ cap = 0 /\ len = 0 /\ pos = 0 /\ end = 0
    /\ count = 0 /\ added = <<>>
    /\ status = "none"
    /\ meta = <<>> /\ iterIndex = 0 /\ seen = <<>> /\ read = NoIndex

-----------------------------------------------------------------------------
(* NoteMetadataBuilder                                                     *)

\* ndb_note_meta_builder_init had room for the header.
HasHeader == asked > 0

\* with_capacity.  A Vec asked for nothing allocates nothing.  Where C's cursor
\* stands that had no room for a header is not to be seen from here.
WithCapacity(n) ==
    /\ status = "none"
    /\ status' = "building"
    /\ asked' = n
    /\ cap' \in IF n = 0 THEN {0} ELSE n..(n + Slack)
    /\ pos' \in IF n = 0 THEN {0, 1} ELSE {1}
    /\ end' = n
    /\ UNCHANGED <<len, count, added, meta, iterIndex, seen, read>>

\* remaining < 16: the Vec is short of room for an entry.
IsShort == cap - len < 1

\* Mutant: the cursor may pass its end.
FitsLate(e) == pos <= e

\* ndb_note_meta_add_entry finds room before the cursor's end.
Fits(e) == pos + 1 <= e

\* In u16, where there is a header to count in.
CountUp ==
    IF ~HasHeader THEN count
    ELSE IF count + 1 = CountBound THEN 0 ELSE count + 1

\* reserve(16) and ndb_note_meta_builder_resized, if short of room; a null from
\* ndb_note_meta_add_entry panics with "out of memory?".
AddEntry(t) ==
    /\ status = "building" /\ Len(added) < MaxEntries
    /\ cap' \in IF IsShort THEN (len + 1)..(len + 1 + Slack) ELSE {cap}
    /\ end' = IF IsShort THEN cap' ELSE end
    /\ IF Fits(end')
       THEN /\ pos' = pos + 1 /\ len' = len + 1
            /\ count' = CountUp
            /\ added' = Append(added, t)
            /\ UNCHANGED status
       ELSE status' = "panicked" /\ UNCHANGED <<pos, len, count, added>>
    /\ UNCHANGED <<asked, meta, iterIndex, seen, read>>

\* ndb_note_meta_build leaves the entries that count counts in some order; the
\* Vec gets the length that the count in the header implies.
BuildMetadata ==
    /\ status = "building" /\ HasHeader
    /\ status' = "built"
    /\ \E from \in Injection(1..count, DOMAIN added) :
        meta' = [i \in 1..count |-> added[from[i]]]
    /\ len' = count + 1
    /\ UNCHANGED <<asked, cap, pos, end, count, added, iterIndex, seen, read>>

\* Without a header, the bytes of an entry or of no allocation are read as one:
\* the Vec gets any length, and nothing is defined from there on.
BuildUndefined ==
    /\ status = "building" /\ ~HasHeader
    /\ status' = "undefined"
    /\ count' \in 0..(CountBound - 1)
    /\ len' = count' + 1
    /\ UNCHANGED <<asked, cap, pos, end, added, meta, iterIndex, seen, read>>

-----------------------------------------------------------------------------
(* NoteMetadata                                                            *)

Variant(t) == IF t \in Known THEN t ELSE "Unknown"

\* Mutant: the last entry counts as past the end.
DoneEarly == iterIndex + 1 >= count

Done == iterIndex >= count

\* Mutant: compares with the count instead of the last index.
IsPastEndLate(i) == i > count

\* index > count() - 1, in u16.
IsPastEnd(i) == i > (IF count = 0 THEN CountBound - 1 ELSE count - 1)

\* NoteMetadataEntryIter::next; its call of entry_at has its check passed.
IterNext ==
    /\ status = "built" /\ ~Done
    /\ seen' = Append(seen, Variant(meta[iterIndex + 1]))
    /\ iterIndex' = iterIndex + 1
    /\ UNCHANGED <<asked, cap, len, pos, end, count, added, status, meta, read>>

\* In builds that check arithmetic, count() - 1 panics without entries.
EntryAt(i) ==
    /\ status = "built"
    /\ \/ read' = (IF IsPastEnd(i) THEN NoIndex ELSE i) /\ UNCHANGED status
       \/ count = 0 /\ status' = "overflowed" /\ UNCHANGED read
    /\ UNCHANGED <<asked, cap, len, pos, end, count, added, meta, iterIndex, seen>>

MetaNext ==
    \/ \E n \in Capacities : WithCapacity(n)
    \/ \E t \in Types : AddEntry(t)
    \/ BuildMetadata
    \/ BuildUndefined
    \/ IterNext
    \/ \E i \in 0..(CountBound - 1) : EntryAt(i)

MetaSpec == MetaInit /\ [][MetaNext]_metaVars

-----------------------------------------------------------------------------
(* Properties                                                              *)

\* Every variable keeps to its type, the count to its 16 bits.
MetaTypeOK ==
    /\ asked \in Capacities \cup {0}
    /\ cap \in Nat /\ len \in Nat /\ pos \in Nat /\ end \in Nat
    /\ count \in 0..(CountBound - 1)
    /\ added \in Seq(Types)
    /\ status \in {"none", "building", "built", "panicked", "overflowed", "undefined"}
    /\ meta \in Seq(Types)
    /\ Len(meta) = IF status \in {"built", "overflowed"} THEN count ELSE 0
    /\ iterIndex \in 0..Len(meta)
    /\ seen \in Seq(Known \cup {"Unknown"}) /\ Len(seen) = iterIndex
    /\ read \in Nat \cup {NoIndex}

\* Whatever a builder is given as its capacity, and however often its Vec moves:
\* the header, the memcpy of every entry and the final set_len stay inside what
\* is allocated, although the Vec's length does not know of the header.  What
\* is undefined is excepted: the length of a Vec built without a header.
WithinBuffer ==
    /\ HasHeader \/ added # <<>> => pos <= end
    /\ end <= cap
    /\ status # "undefined" => len <= cap

\* "This may reallocate the internal buffer if more space is needed" (add_entry,
\* metadata.rs 450), and a capacity is "in number of entries" (477): no entry
\* panics.  But the header takes the room of one, and the check for a short Vec
\* forgets it.
AddEntryNeverPanics == status # "panicked"

\* entry_at returns entries of the metadata only, unless there are none: then
\* count() - 1 is the largest u16 and any index is read.
EntryAtInBounds == read # NoIndex => read < count \/ count = 0

Count(seq, v) == Cardinality({i \in DOMAIN seq : seq[i] = v})

\* for entry in metadata: every entry added comes back, as the variant of its
\* type, as often as it was added; the count has not wrapped when the capacity
\* is that of a u16 at most.
IterationComplete ==
    status = "built" /\ Done /\ asked <= CountBound =>
        \A v \in Known \cup {"Unknown"} :
            Count(seen, v) = Count([i \in DOMAIN added |-> Variant(added[i])], v)

-----------------------------------------------------------------------------
(* Inductive invariants, for the proofs                                    *)

\* What a capacity holds: a builder that has its header never finds the Vec
\* short, takes one entry less than it was made for and panics at the next.
HoldsOneLess ==
    HasHeader =>
        /\ end = asked
        /\ status # "none" => Len(added) < asked
        /\ status = "panicked" => Len(added) = asked - 1

\* The cursor is where the Vec's length is, or one header ahead of it, and no
\* count exceeds the entries it counts.
BuilderInv ==
    /\ status = "none" => asked = 0 /\ len = 0
    /\ pos \in {Len(added), Len(added) + 1}
    /\ HasHeader => pos = Len(added) + 1
    /\ HasHeader \/ added # <<>> => pos <= end
    /\ end <= cap
    /\ status \in {"none", "building", "panicked"} => len = Len(added)
    /\ status \in {"built", "overflowed"} => HasHeader
    /\ status # "undefined" => count <= Len(added) /\ len <= cap
    /\ HoldsOneLess

\* As long as the count has not wrapped it counts every entry; the built buffer
\* has as many of them as it counts, each once, and the iterator has returned
\* the variants of a prefix.
IterInv ==
    /\ HasHeader /\ Len(added) < CountBound => count = Len(added)
    /\ status \in {"built", "overflowed"} =>
        \E from \in Injection(1..count, DOMAIN added) :
            meta = [i \in 1..count |-> added[from[i]]]
    /\ \A i \in 1..iterIndex : seen[i] = Variant(meta[i])
=============================================================================
