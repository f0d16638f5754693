------------------------------- MODULE Nip10 -------------------------------
(***************************************************************************)
(* NIP-10 threading (util/nip10.rs): NoteReply::new scans a note's tags    *)
(* for its root, the note it replies to and a mention; to_owned keeps only *)
(* their indices, and NoteReplyBuf::borrow looks the tags up again later,  *)
(* in whatever note it is given.                                           *)
(*                                                                         *)
(* Of a tag: how many strings it has, whether the first is "e", the second *)
(* if it is an id, the third if it is a string, and the marker in the      *)
(* fourth.  Tags are numbered from 0; nostrdb counts them in a u16, so     *)
(* that the casts of an index to u16 lose nothing.                         *)
(***************************************************************************)
EXTENDS Integers, Sequences

CONSTANTS
    Ids,      \* ids of notes
    Notes,    \* the tags of the notes that are scanned
    Others,   \* the tags of other notes that borrow may be given
    NoRef     \* Option::None, where a reference or its id is missing

Markers == {"root", "reply", "mention"}

\* A string that is not there, or is none of these, is NoRef or "none".
Tag ==
    {t \in [count : Nat, e : BOOLEAN, id : Ids \cup {NoRef},
            relay : {"url", "empty", "none"}, marker : Markers \cup {"none"}] :
        /\ t.count < 1 => ~t.e
        /\ t.count < 2 => t.id = NoRef
        /\ t.count < 3 => t.relay = "none"
        /\ t.count < 4 => t.marker = "none"}

NoteIdRef ==
    [index : Nat, id : Ids, relay : {"url", "empty", "none"},
     marker : Markers \cup {"none"}]

NoteIdRefBuf == [index : Nat, marker : Markers \cup {"none"}]

ASSUME Nip10Assumption ==
    /\ NoRef \notin Ids \cup NoteIdRef \cup NoteIdRefBuf
    /\ Notes \subseteq Seq(Tag) /\ Others \subseteq Seq(Tag)

VARIABLES
    tags,      \* the tags that are scanned
    index,     \* how many the loop is past
    found,     \* found[k]: the locals root, reply and mention
    first, anyMarker,
    pc,        \* scan, parsed, lookup, back or panicked
    note,      \* the tags that borrow is given
    buf,       \* NoteReplyBuf
    back       \* the locals of borrow

scanVars == <<tags, index, found, first, anyMarker, pc, note, buf, back>>

Nothing == [k \in Markers |-> NoRef]

ScanInit ==
    /\ tags \in Notes
    /\ index = 0 /\ found = Nothing
    /\ first = TRUE /\ anyMarker = FALSE
    /\ pc = "scan"
    /\ note = <<>> /\ buf = Nothing /\ back = Nothing

-----------------------------------------------------------------------------
(* NoteReply::new                                                          *)

\* tag_to_noteid_ref is Ok.
IsNoteRef(tag) == tag.count >= 2 /\ tag.e /\ tag.id # NoRef

\* What it returns; an empty relay is none.
Ref(tag, i) ==
    [index |-> i, id |-> tag.id,
     relay |-> IF tag.relay = "empty" THEN "none" ELSE tag.relay,
     marker |-> tag.marker]

\* Mutant: the else before the reply is missing.
TakesBoth(tag, k) ==
    IF tag.marker # "none" THEN k = tag.marker
    ELSE /\ ~anyMarker
         /\ \/ k = "root" /\ first
            \/ k = "reply" /\ found["reply"] = NoRef

\* The loop takes the tag for k: its marker says so, else its position.
Takes(tag, k) ==
    IF tag.marker # "none" THEN k = tag.marker
    ELSE /\ ~anyMarker
         /\ \/ k = "root" /\ first
            \/ k = "reply" /\ ~first /\ found["reply"] = NoRef

\* Mutant: the mention is not waited for.
AllFoundSoon == found["root"] # NoRef /\ found["reply"] # NoRef

AllFound == \A k \in Markers : found[k] # NoRef

Scan ==
    /\ pc = "scan" /\ index < Len(tags) /\ ~AllFound
    /\ LET tag == tags[index + 1]
       IN  IF IsNoteRef(tag)
           THEN /\ found' = [k \in Markers |->
                               IF Takes(tag, k) THEN Ref(tag, index) ELSE found[k]]
                /\ anyMarker' = (anyMarker \/ tag.marker # "none")
                /\ first' = (first /\ (tag.marker # "none" \/ anyMarker))
           ELSE UNCHANGED <<found, anyMarker, first>>
    /\ index' = index + 1
    /\ UNCHANGED <<tags, pc, note, buf, back>>

ScanEnds ==
    /\ pc = "scan"
    /\ index = Len(tags) \/ AllFound
    /\ pc' = "parsed"
    /\ UNCHANGED <<tags, index, found, first, anyMarker, note, buf, back>>

-----------------------------------------------------------------------------
(* The accessors of NoteReply                                              *)

Root == found["root"]

\* reply(): the root when there is no reply.
Reply == IF found["reply"] # NoRef THEN found["reply"] ELSE Root

IsReplyToRoot ==
    /\ Root # NoRef
    /\ found["reply"] = NoRef \/ Root.id = found["reply"].id

-----------------------------------------------------------------------------
(* to_owned and borrow                                                     *)

ToOwned(refs) ==
    [k \in Markers |->
        IF refs[k] = NoRef THEN NoRef
        ELSE [index |-> refs[k].index, marker |-> refs[k].marker]]

\* borrow is given the same note, or another by mistake.
BorrowReply(tagsGiven) ==
    /\ pc = "parsed"
    /\ pc' = "lookup"
    /\ buf' = ToOwned(found)
    /\ note' = tagsGiven
    /\ index' = 0
    /\ UNCHANGED <<tags, found, first, anyMarker, back>>

\* The filter lets everything pass but short tags whose first string, which is
\* read past the end of a tag without strings, is not "e".
LookedAt(tag) ==
    IF tag.count >= 2 THEN {TRUE}
    ELSE IF tag.count = 1 THEN {tag.e} ELSE BOOLEAN

\* The first in the chain of ifs whose stored index is this one.
Wanted(k) ==
    /\ buf[k] # NoRef /\ buf[k].index = index
    /\ \A h \in Markers :
        (h = "root" /\ k # "root") \/ (h = "reply" /\ k = "mention")
            => buf[h] = NoRef \/ buf[h].index # index

\* What is read as the tag's second string: past the end, anything.
IdRead(tag) == IF tag.count >= 2 THEN {tag.id} ELSE Ids \cup {NoRef}

\* Mutant: the stored marker is replaced by the name of the field.
FoundAgainAs(tag, id, k) ==
    [index |-> index, id |-> id, relay |-> tag.relay, marker |-> k]

\* tag_to_note_id_ref keeps an empty relay.
FoundAgain(tag, id, k) ==
    [index |-> index, id |-> id, relay |-> tag.relay, marker |-> buf[k].marker]

\* One tag of borrow's loop; expect("expected id at index, do you have the
\* correct note?") panics.
Lookup ==
    /\ pc = "lookup" /\ index < Len(note)
    /\ LET tag == note[index + 1]
       IN  \E looks \in LookedAt(tag), id \in IdRead(tag) :
            IF looks /\ \E k \in Markers : Wanted(k)
            THEN /\ pc' = IF id = NoRef THEN "panicked" ELSE pc
                 /\ back' = [k \in Markers |->
                                IF Wanted(k) /\ id # NoRef
                                THEN FoundAgain(tag, id, k) ELSE back[k]]
            ELSE UNCHANGED <<pc, back>>
    /\ index' = index + 1
    /\ UNCHANGED <<tags, found, first, anyMarker, note, buf>>

LookupEnds ==
    /\ pc = "lookup" /\ index = Len(note)
    /\ pc' = "back"
    /\ UNCHANGED <<tags, index, found, first, anyMarker, note, buf, back>>

ScanNext ==
    \/ Scan
    \/ ScanEnds
    \/ \E tagsGiven \in {tags} \cup Others : BorrowReply(tagsGiven)
    \/ Lookup
    \/ LookupEnds

ScanSpec == ScanInit /\ [][ScanNext]_scanVars
-----------------------------------------------------------------------------
(* What the scan should find, by the tags alone                            *)

Refs == {i \in 0..(Len(tags) - 1) : IsNoteRef(tags[i + 1])}

\* Among the first n tags: those marked k, and the unmarked ones that come
\* before every marked one.
MarkedIn(n, k) == {i \in Refs : i < n /\ tags[i + 1].marker = k}

UnmarkedIn(n) ==
    {i \in Refs : i < n /\ \A j \in Refs : j <= i => tags[j + 1].marker = "none"}

\* r is the reference for role k among the first n tags: the last one marked k;
\* without one, the first unmarked one for the root and the second for the reply.
IsRoleIn(n, k, r) ==
    \/ \E i \in MarkedIn(n, k) :
        r = Ref(tags[i + 1], i) /\ \A j \in MarkedIn(n, k) : j <= i
    \/ /\ MarkedIn(n, k) = {} /\ k = "root"
       /\ \E i \in UnmarkedIn(n) :
            r = Ref(tags[i + 1], i) /\ \A j \in UnmarkedIn(n) : i <= j
    \/ /\ MarkedIn(n, k) = {} /\ k = "reply"
       /\ \E h, i \in UnmarkedIn(n) :
            /\ h < i /\ \A j \in UnmarkedIn(n) : j = h \/ i <= j
            /\ r = Ref(tags[i + 1], i)
    \/ /\ MarkedIn(n, k) = {} /\ r = NoRef
       /\ k = "root" => UnmarkedIn(n) = {}
       /\ k = "reply" => \A h, i \in UnmarkedIn(n) : h = i

-----------------------------------------------------------------------------
(* Properties                                                              *)

\* Every variable keeps to its type.
Nip10TypeOK ==
    /\ tags \in Notes
    /\ index \in Nat
    /\ found \in [Markers -> {r \in NoteIdRef : r.relay # "empty"} \cup {NoRef}]
    /\ back \in [Markers -> NoteIdRef \cup {NoRef}]
    /\ first \in BOOLEAN /\ anyMarker \in BOOLEAN
    /\ pc \in {"scan", "parsed", "lookup", "back", "panicked"}
    /\ note \in {<<>>, tags} \cup Others
    /\ buf \in [Markers -> NoteIdRefBuf \cup {NoRef}]

\* The scan keeps, after every tag, the last reference of each marker, and
\* positions count for unmarked tags in front of all markers only.
RolesSoFar == pc = "scan" => \A k \in Markers : IsRoleIn(index, k, found[k])

\* is_reply_to_root holds exactly when reply() and root() name one note.
AccessorsAgree == IsReplyToRoot <=> Root # NoRef /\ Reply.id = Root.id

\* NoteReply::new: what it answers are the roles among the tags up to the one
\* that completes all three (or all of them), and later tags have no say; the
\* accessors agree on them.
RolesAreRight ==
    /\ AccessorsAgree
    /\ pc # "scan" =>
        \E n \in 0..Len(tags) :
            /\ \A k \in Markers : IsRoleIn(n, k, found[k])
            /\ n = Len(tags) \/ NoRef \notin {found[k] : k \in Markers}
            /\ \A m \in 0..(n - 1) : \E k \in Markers : IsRoleIn(m, k, NoRef)

\* borrow can tell the references apart: no tag has two roles.
OneRolePerTag ==
    \A h, k \in Markers :
        h # k /\ found[h] # NoRef /\ found[k] # NoRef => found[h].index # found[k].index

\* "Owned version of NoteReply, stores tag indices": with the tags it was made
\* from, borrow gives back the references (an absent relay as the empty one
\* the tag may have), whatever it reads past the end of a tag without strings.
RoundTrip ==
    note = tags =>
        /\ pc # "panicked"
        /\ pc = "back" =>
            \A k \in Markers :
                IF found[k] = NoRef THEN back[k] = NoRef
                ELSE back[k] = [found[k] EXCEPT !.relay = tags[found[k].index + 1].relay]
=============================================================================
