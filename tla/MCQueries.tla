----------------------------- MODULE MCQueries -----------------------------
(* Notes are interchangeable: nothing orders them but the database.        *)
EXTENDS Queries

NoteSymmetry == Permutations(Notes)
=============================================================================
