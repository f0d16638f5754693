------------------------------- MODULE Notes -------------------------------
(***************************************************************************)
(* Notes and what points into them (note.rs, tags.rs, ndb_str.rs, relay.rs *)
(* and block.rs).                                                          *)
(*                                                                         *)
(* An owned Note is a malloc'd block that its Drop frees; its clone is a   *)
(* copy.  Tags, iterators, tags and strings carry a clone of the note, and *)
(* a raw pointer: into the block of the clone, or into that of the handle  *)
(* they were made from.  A NoteBuilder's buffer becomes the block of the   *)
(* note it builds.  Notes of a transaction and those lent to a custom      *)
(* filter are clones of one pointer, and lifetimes keep what they point to.*)
(* The database cursor of NoteRelays, and the slot of a BlockIter in which  *)
(* nostrdb puts one block after the other, are blocks as well.              *)
(*                                                                         *)
(* No handle allocates more than one block: a block is named by it.        *)
(***************************************************************************)
EXTENDS Naturals, FiniteSets

CONSTANTS
    Handles,   \* Rust values, made one after the other and moved to nobody
    Lent,      \* memory of a transaction, or of a filter's caller
    None       \* no block

ASSUME NotesAssumption == Lent \notin Handles /\ None \notin Handles /\ None # Lent

VARIABLES
    kind,      \* what each handle is
    live,      \* the handles not dropped
    own,       \* own[h]: the block of its Note, its cursor, or its slot
    mem,       \* mem[h]: the block its pointer leads to
    sources,   \* history: the handles it came from, one from another
    frees,     \* how often each block was freed
    building   \* the fields of the builder in use, and what was asked of it

vars == <<kind, live, own, mem, sources, frees, building>>

NewBuilding ==
    [setAt |-> TRUE, key |-> "none",                       \* options
     sig |-> "zero", at |-> "zero", pubkey |-> "zero",     \* in the buffer
     signing |-> "none", dated |-> FALSE]                  \* history

Init ==
    /\ kind = [h \in Handles |-> "none"]
    /\ live = {}
    /\ own = [h \in Handles |-> None] /\ mem = [h \in Handles |-> None]
    /\ sources = [h \in Handles |-> {}]
    /\ frees = [h \in Handles |-> 0]
    /\ building = NewBuilding

-----------------------------------------------------------------------------
\* A new handle g of kind k, with its Note's block and the one it points into.
Make(g, k, block, points, from) ==
    /\ kind[g] = "none"
    /\ kind' = [kind EXCEPT ![g] = k]
    /\ own' = [own EXCEPT ![g] = block]
    /\ mem' = [mem EXCEPT ![g] = points]
    /\ sources' = [sources EXCEPT ![g] = IF from = None THEN {} ELSE sources[from] \cup {from}]

\* Mutant: a clone of an owned note is the same pointer.
CloneOfShallow(h, g) == own[h]

\* Note::clone, the block that the Note of a new handle g gets.
CloneOf(h, g) == IF own[h] = Lent THEN Lent ELSE g

\* A pointer that may be followed.
Intact(block) == block \in {Lent} \cup {h \in Handles : frees[h] = 0}

\* from_json and its like; or a note of a transaction, or lent to a filter.
NewNote(g) ==
    /\ live' = live \cup {g}
    /\ \/ Make(g, "note", g, g, None)
       \/ Make(g, "note", Lent, Lent, None)
    /\ UNCHANGED <<frees, building>>

\* derive(Clone) copies the pointer; a Note points to its own block.
Clone(h, g) ==
    /\ h \in live /\ kind[h] \in {"note", "tags", "iter", "tag"}
    /\ live' = live \cup {g}
    /\ LET block == CloneOf(h, g)
       IN  Make(g, kind[h], block, IF kind[h] = "note" THEN block ELSE mem[h], h)
    /\ UNCHANGED <<frees, building>>

\* Note::tags.
TagsOf(h, g) ==
    /\ h \in live /\ kind[h] = "note"
    /\ live' = live \cup {g}
    /\ Make(g, "tags", CloneOf(h, g), own[h], h)
    /\ UNCHANGED <<frees, building>>

\* Mutant: the iteration starts on the note that is passed, then cloned.
IterStartSource(h, g) == own[h]

\* TagsIter::new starts the iteration on its own note.
IterStart(h, g) == CloneOf(h, g)

Iter(h, g) ==
    /\ h \in live /\ kind[h] = "tags"
    /\ live' = live \cup {g}
    /\ Make(g, "iter", CloneOf(h, g), IterStart(h, g), h)
    /\ UNCHANGED <<frees, building>>

\* Mutant: free is called once for the note and once for its clone.
FreeTwice(h) == [frees EXCEPT ![h] = @ + 2]

Free(h) == [frees EXCEPT ![h] = @ + 1]

\* Mutant: the Tags are forgotten.
IntoIterForgetting(h, g) ==
    /\ h \in live /\ kind[h] = "tags"
    /\ live' = (live \ {h}) \cup {g}
    /\ Make(g, "iter", CloneOf(h, g), IterStart(h, g), h)
    /\ UNCHANGED <<frees, building>>

\* Tags::into_iter clones the note as well, and drops the Tags.
IntoIter(h, g) ==
    /\ h \in live /\ kind[h] = "tags"
    /\ live' = (live \ {h}) \cup {g}
    /\ Make(g, "iter", CloneOf(h, g), IterStart(h, g), h)
    /\ frees' = IF own[h] = Lent THEN frees ELSE Free(own[h])
    /\ UNCHANGED building

\* TagsIter::next and tag: C finds the tag in the block it iterates over.
NextTag(h, g) ==
    /\ h \in live /\ kind[h] = "iter" /\ Intact(mem[h])
    /\ live' = live \cup {g}
    /\ Make(g, "tag", CloneOf(h, g), mem[h], h)
    /\ UNCHANGED <<frees, building>>

\* ndb_tag_str: a short string is in the tag, another in the note it is given.
StrOf(h) == {mem[h], own[h]}

\* Tag::get; a TagIter is a Tag and an index.
GetStr(h, g) ==
    /\ h \in live /\ kind[h] = "tag" /\ Intact(mem[h])
    /\ live' = live \cup {g}
    /\ \E block \in StrOf(h) : Make(g, "str", CloneOf(h, g), block, h)
    /\ UNCHANGED <<frees, building>>

\* Note::relays: only the note of a transaction has a key, and a cursor is
\* opened for it; any other is Empty.
Relays(h, g) ==
    /\ h \in live /\ kind[h] = "note"
    /\ live' = live \cup {g}
    /\ \/ own[h] = Lent /\ Make(g, "relays", g, Lent, h)
       \/ Make(g, "relays", None, Lent, h)
    /\ UNCHANGED <<frees, building>>

\* Blocks::iter keeps a pointer to the note's content, and no note.  The Blocks
\* are lent by the transaction.
BlockIter(h, g) ==
    /\ h \in live /\ kind[h] = "note"
    /\ live' = live \cup {g}
    /\ Make(g, "blockIter", g, own[h], h)
    /\ UNCHANGED <<frees, building>>

\* BlockIter::next: a Block is a pointer to the iterator's slot.
NextBlock(h, g) ==
    /\ h \in live /\ kind[h] = "blockIter" /\ Intact(mem[h])
    /\ live' = live \cup {g}
    /\ Make(g, "block", None, own[h], h)
    /\ UNCHANGED <<frees, building>>

\* What as_mention of a Block refers to, and what as_str does: the slot, and the
\* content that the slot's block is a part of.
InBlock(h) == {mem[h]} \cup {mem[i] : i \in {s \in sources[h] : own[s] = mem[h]}}

\* The references of Note::content, id and so on, of Tag::get_str, whose NdbStr
\* is a temporary, of NdbStr::variant, Block and NoteRelays::next: they hold
\* no note.
Borrow(h, g) ==
    /\ h \in live /\ Intact(mem[h])
    /\ live' = live \cup {g}
    /\ \/ /\ kind[h] \in {"note", "str"} \/ (kind[h] = "relays" /\ own[h] # None)
          /\ Make(g, "ref", None, mem[h], h)
       \/ kind[h] = "tag" /\ \E block \in StrOf(h) : Make(g, "ref", None, block, h)
       \/ kind[h] = "block" /\ \E block \in InBlock(h) : Make(g, "ref", None, block, h)
    /\ UNCHANGED <<frees, building>>

\* A handle is dropped and with it its Note, cursor or slot; NoteBuilder has no
\* Drop.
Drop(h) ==
    /\ h \in live
    /\ live' = live \ {h}
    /\ frees' = IF own[h] \in {Lent, None} THEN frees ELSE Free(own[h])
    /\ building' = IF kind[h] = "builder" THEN NewBuilding ELSE building
    /\ UNCHANGED <<kind, own, mem, sources>>

-----------------------------------------------------------------------------
(* NoteBuilder                                                             *)

InUse(b) == b \in live /\ kind[b] = "builder"

\* with_bufsize.  Bound: one builder at a time, they share nothing.
NewBuilder(g) ==
    /\ ~\E b \in Handles : InUse(b)
    /\ live' = live \cup {g}
    /\ Make(g, "builder", None, g, None)
    /\ UNCHANGED <<frees, building>>

\* Bound: the fields are set while nothing else is live; they touch nothing else.
Call(b, fields) ==
    /\ InUse(b) /\ live = {b}
    /\ building' = fields
    /\ UNCHANGED <<kind, live, own, mem, sources, frees>>

\* Mutant: the key stays.
SigKeepingKey(b) ==
    Call(b, [building EXCEPT !.sig = "given", !.signing = "sig"])

Sig(b) ==
    Call(b, [building EXCEPT !.key = "none", !.sig = "given", !.signing = "sig"])

\* k is a valid secret key, "good", or none, "bad".
Sign(b, k) == Call(b, [building EXCEPT !.key = k, !.signing = "sign"])

CreatedAt(b) ==
    Call(b, [building EXCEPT !.setAt = FALSE, !.at = "given", !.dated = TRUE])

Pubkey(b) == Call(b, [building EXCEPT !.pubkey = "given"])

\* options replaces what created_at and sign had set.
Options(b, setAt, k) ==
    Call(b, [building EXCEPT !.setAt = setAt, !.key = k, !.dated = FALSE,
                             !.signing = IF k = "none" THEN "none" ELSE "sign"])

\* What build writes to the buffer before ndb_builder_finalize, which signs
\* with a key that is good: create_keypair fails on any other.
Prepared ==
    [building EXCEPT !.at = IF building.setAt THEN "now" ELSE @,
                     !.pubkey = IF building.key = "good" THEN "ofKey" ELSE @]

Signature == IF building.key = "good" THEN "signed" ELSE building.sig

\* build: realloc shrinks the buffer in place or moves it.  The builder is not
\* used again (its chains of methods end with build).
Build(b, g) ==
    /\ InUse(b)
    /\ live' = (live \ {b}) \cup {g}
    /\ \/ Make(g, "note", b, b, b) /\ UNCHANGED frees
       \/ Make(g, "note", g, g, b) /\ frees' = Free(b)
    /\ building' = NewBuilding

\* The clock is before 1970; or the note does not fit, or realloc fails.
BuildFails(b) == Call(b, building) \/ Call(b, Prepared)

Next ==
    \/ \E g \in Handles : NewNote(g) \/ NewBuilder(g)
    \/ \E h, g \in Handles :
        \/ Clone(h, g)
        \/ TagsOf(h, g)
        \/ Iter(h, g)
        \/ IntoIter(h, g)
        \/ NextTag(h, g)
        \/ GetStr(h, g)
        \/ Relays(h, g)
        \/ BlockIter(h, g)
        \/ NextBlock(h, g)
        \/ Borrow(h, g)
        \/ Build(h, g)
    \/ \E h \in Handles :
        \/ Drop(h)
        \/ Sig(h)
        \/ \E k \in {"good", "bad"} : Sign(h, k)
        \/ CreatedAt(h)
        \/ Pubkey(h)
        \/ \E setAt \in BOOLEAN, k \in {"none", "good", "bad"} : Options(h, setAt, k)
        \/ BuildFails(h)

Spec == Init /\ [][Next]_vars

-----------------------------------------------------------------------------
(* Properties                                                              *)

Kinds ==
    {"note", "tags", "iter", "tag", "str", "relays", "blockIter", "block", "ref", "builder"}

\* Every variable keeps to its type.
NotesTypeOK ==
    /\ kind \in [Handles -> Kinds \cup {"none"}]
    /\ live \subseteq {h \in Handles : kind[h] # "none"}
    /\ own \in [Handles -> Handles \cup {Lent, None}]
    /\ mem \in [Handles -> Handles \cup {Lent, None}]
    /\ sources \in [Handles -> SUBSET Handles]
    /\ frees \in [Handles -> {0, 1}]
    /\ building \in [setAt : BOOLEAN, key : {"none", "good", "bad"},
                     sig : {"zero", "given"}, at : {"zero", "given", "now"},
                     pubkey : {"zero", "given", "ofKey"},
                     signing : {"none", "sig", "sign"}, dated : BOOLEAN]

\* "will be free'd when [Drop]ped": the block of a live owned note has not been
\* freed, and no other handle is going to free it.  So it is with cursors.
OwnersAreAlone ==
    \A h \in live : own[h] \notin {Lent, None} =>
        /\ frees[own[h]] = 0
        /\ \A g \in live : own[g] = own[h] => g = h

\* Whatever is cloned, iterated and dropped: a handle whose pointer dangles is
\* one that points into the block of a handle it came from, now dropped.  Notes
\* never do, nor TagsIters but clones of others: a for loop over note.tags()
\* may drop the Tags and the note, one over blocks.iter(&note) may not.
DanglesOnlyBehindSource ==
    \A h \in live : ~Intact(mem[h]) =>
        /\ \E s \in sources[h] \ live : own[s] = mem[h]
        /\ kind[h] # "note"
        /\ kind[h] = "iter" => \E s \in sources[h] : kind[s] = "iter"

\* Every block that was allocated is freed or has a live note that will free it,
\* but for the buffer of a builder that built no note.
NothingLeaks ==
    \A h \in Handles : (own[h] = h \/ kind[h] = "builder") /\ frees[h] = 0 =>
        \/ \E g \in live : own[g] = h
        \/ kind[h] = "builder" /\ \A g \in Handles : h \notin sources[g]

\* The last of sig and sign decides on the signature, created_at on the date,
\* unless options come after them; a good key's note has its pubkey.
BuildsAsAsked ==
    \A b \in Handles : InUse(b) =>
        /\ building.signing = "sig" => Signature = "given"
        /\ building.signing = "sign" =>
            \/ Signature = "signed" /\ Prepared.pubkey = "ofKey"
            \/ building.key = "bad" /\ Prepared.pubkey = building.pubkey
        /\ building.dated => Prepared.at = "given"

-----------------------------------------------------------------------------
(* Inductive invariants, for the proofs                                    *)

\* What a handle that was made may point to, and what is known of its block.
GraphInv ==
    /\ OwnersAreAlone
    /\ NothingLeaks
    /\ \A h \in Handles : kind[h] = "none" =>
        /\ own[h] = None /\ sources[h] = {} /\ frees[h] = 0
        /\ \A g \in Handles : h \notin sources[g] /\ own[g] # h
    /\ \A h \in Handles : \A s \in sources[h] : sources[s] \subseteq sources[h]
    /\ \A h \in Handles \ live : own[h] \in Handles => frees[own[h]] = 1
    /\ \A h \in Handles : kind[h] \notin {"none", "builder"} =>
        /\ mem[h] \in {own[h], Lent} \cup {own[s] : s \in sources[h]} /\ mem[h] # None
        /\ kind[h] \notin {"ref", "relays", "block"} => own[h] # None
        /\ kind[h] = "note" => mem[h] = own[h]
        /\ kind[h] = "iter" => mem[h] = own[h] \/ \E s \in sources[h] : kind[s] = "iter"
    /\ \A b \in Handles : kind[b] = "builder" =>
        /\ own[b] = None /\ mem[b] = b
        /\ b \in live => frees[b] = 0 /\ \A g \in Handles : own[g] # b /\ b \notin sources[g]

\* What a builder was asked last is in its fields.
AskedInv ==
    /\ building.signing = "sig" => building.key = "none" /\ building.sig = "given"
    /\ building.signing = "sign" => building.key \in {"good", "bad"}
    /\ building.dated => ~building.setAt /\ building.at = "given"
=============================================================================
