------------------------------ MODULE MCNotes ------------------------------
(* What is read from a note and its like: the notes themselves with the      *)
(* values that point into them, NIP-10 replies, and metadata.  They share no *)
(* state: a behaviour is one of a single part, while the others have not     *)
(* begun.                                                                    *)
EXTENDS Notes, Nip10, Metadata, TLC

-----------------------------------------------------------------------------
(* Handles are interchangeable: nothing orders them.                         *)

Symmetry == Permutations(Handles)

\* All handles but the last to be made come from one note or builder.
OneOrigin == Cardinality({h \in Handles : kind[h] # "none" /\ sources[h] = {}}) <= 1

-----------------------------------------------------------------------------
(* Up to MaxTags tags out of: one that is no "e" tag, one too short, one      *)
(* without strings, and "e" tags of two notes with every marker.  The relay   *)
(* follows the marker and the id: no control depends on it.                   *)

CONSTANTS a, b, MaxTags

T(strings, e, id, relay, marker) ==
    [count |-> strings, e |-> e, id |-> id, relay |-> relay, marker |-> marker]

MCTags ==
    {T(0, FALSE, NoRef, "none", "none"), T(1, TRUE, NoRef, "none", "none"),
     T(2, FALSE, a, "none", "none"), T(3, TRUE, b, "empty", "none"),
     T(4, TRUE, b, "empty", "reply")}
    \cup {T(4, TRUE, a, "url", m) : m \in Markers}

MCIds == {a, b}
MCTagLists == UNION {[1..n -> MCTags] : n \in 0..MaxTags}
MCOthers == {<<>>, <<T(2, FALSE, b, "none", "none"), T(1, TRUE, NoRef, "none", "none"),
                     T(0, FALSE, NoRef, "none", "none")>>}

-----------------------------------------------------------------------------
NoNotes == \A h \in Handles : kind[h] = "none"
NoReply == tags = <<>> /\ pc = "scan"
NoMetadata == status = "none"

MCInit == Init /\ ScanInit /\ MetaInit

MCNext ==
    \/ NoReply /\ NoMetadata /\ Next /\ UNCHANGED <<scanVars, metaVars>>
    \/ NoNotes /\ NoMetadata /\ ScanNext /\ UNCHANGED <<vars, metaVars>>
    \/ NoNotes /\ NoReply /\ MetaNext /\ UNCHANGED <<vars, scanVars>>

MCSpec == MCInit /\ [][MCNext]_<<vars, scanVars, metaVars>>
=============================================================================
