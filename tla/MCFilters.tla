----------------------------- MODULE MCFilters -----------------------------
(* Filters, by their fields and by the memory they own.  The two share no     *)
(* state: a behaviour is one of a single part, while the other has not begun. *)
EXTENDS Filters, FilterMemory

NoFields == phase = "builder" /\ fields = <<>> /\ open = <<>> /\ cap = DefaultCap
NoHandles == \A h \in Handles : kind[h] = "none"

MCInit == FieldInit /\ Init

MCNext ==
    \/ NoHandles /\ FieldNext /\ UNCHANGED vars
    \/ NoFields /\ Next /\ UNCHANGED fieldVars

MCSpec == MCInit /\ [][MCNext]_<<fieldVars, vars>>
=============================================================================
