------------------------------ MODULE Filters ------------------------------
(***************************************************************************)
(* FilterBuilder and Filter (filter.rs): the fields of a filter while it   *)
(* is built, by the low-level calls that return an Err or by the chained   *)
(* methods that unwrap it, and what since_mut, until_mut and limit_mut do  *)
(* to a built filter, in place or through Filter::copy_from.  What it      *)
(* means for memory is FilterMemory.                                       *)
(*                                                                         *)
(* Of the C builder, Rust sees that it starts a field when none is open    *)
(* and, tags excepted, none of the type exists; and that it takes elements *)
(* that suit the field, all of one kind, while the buffer has room.        *)
(***************************************************************************)
EXTENDS Naturals, Sequences, SequencesExt

CONSTANTS
    Ids, Strs, Ints,   \* elements, by kind
    Closure,           \* the element of a custom field
    Types,             \* field types in use
    Caps,              \* capacities given to new_with_capacity, in elements
    DefaultCap,        \* the capacity of Filter::new
    MaxFields          \* bound: fields of a filter

ASSUME FiltersAssumption ==
    /\ Types \subseteq {"ids", "authors", "kinds", "since", "until", "limit",
                       "search", "relays", "tags", "custom"}
    /\ Caps \subseteq Nat /\ DefaultCap \in Nat /\ MaxFields \in Nat

VARIABLES
    phase,   \* builder, filter or panicked
    fields,  \* the finished fields
    open,    \* the field being filled, <<>> or <<field>>
    cap,     \* capacity of the builder
    asked    \* history: the value last given to a method for since, until, limit

fieldVars == <<phase, fields, open, cap, asked>>

Single == {"since", "until", "limit"}

Elements == Ids \cup Strs \cup Ints \cup {Closure}

\* FieldElemType of an element.
ElemType(e) ==
    CASE e \in Ids -> "id" [] e \in Strs -> "str" [] e \in Ints -> "int"
      [] OTHER -> "custom"

Suits(type) ==
    CASE type \in {"ids", "authors"} -> Ids
      [] type \in {"kinds"} \cup Single -> Ints
      [] type \in {"search", "relays"} -> Strs
      [] type = "tags" -> Ids \cup Strs
      [] type = "custom" -> {Closure}

Field(type, elems) == [type |-> type, elems |-> elems]

\* How many elements the first n fields have; and all of them.
UsedBy(fs) ==
    LET sum[n \in 0..Len(fs)] ==
            IF n = 0 THEN 0 ELSE sum[n - 1] + Len(fs[n].elems)
    IN  sum

Used(fs) == UsedBy(fs)[Len(fs)]

FieldInit ==
    /\ phase = "builder"
    /\ fields = <<>> /\ open = <<>>
    /\ cap \in Caps
    /\ asked = [ty \in Single |-> <<>>]

Panic ==
    /\ phase' = "panicked"
    /\ UNCHANGED <<fields, open, cap, asked>>

-----------------------------------------------------------------------------
(* The low-level calls                                                     *)

HasField(fs, type) == \E i \in DOMAIN fs : fs[i].type = type

\* Mutant: any field may be started again.
CanStartAgain(fs, type) == TRUE

CanStart(fs, type) == type = "tags" \/ ~HasField(fs, type)

OneKind(elems) ==
    \A i, j \in DOMAIN elems : ElemType(elems[i]) = ElemType(elems[j])

\* start_field and its siblings; otherwise Err(FieldAlreadyStarted).
StartField(type) ==
    /\ phase = "builder" /\ open = <<>> /\ Len(fields) < MaxFields
    /\ CanStart(fields, type)
    /\ open' = <<Field(type, <<>>)>>
    /\ UNCHANGED <<phase, fields, cap, asked>>

\* add_id_element, add_str_element, add_int_element, add_custom_filter_element;
\* otherwise Err(FieldAlreadyExists).
AddElement(e) ==
    /\ phase = "builder" /\ open # <<>>
    /\ e \in Suits(open[1].type)
    /\ OneKind(Append(open[1].elems, e))
    /\ open[1].type \in {"search", "custom"} => open[1].elems = <<>>
    /\ Used(fields) + Len(open[1].elems) < cap
    /\ open' = <<[open[1] EXCEPT !.elems = Append(@, e)]>>
    /\ UNCHANGED <<phase, fields, cap, asked>>

EndField ==
    /\ phase = "builder" /\ open # <<>>
    /\ fields' = Append(fields, open[1])
    /\ open' = <<>>
    /\ UNCHANGED <<phase, cap, asked>>

-----------------------------------------------------------------------------
(* The chained methods: start, add and end, each unwrapped                 *)

Fits(fs, elems, room) == OneKind(elems) /\ Used(fs) + Len(elems) <= room

\* ids, authors, kinds, tags, relays, search, custom.
Method(type, elems) ==
    /\ phase = "builder" /\ Len(fields) < MaxFields
    /\ IF open = <<>> /\ CanStart(fields, type) /\ Fits(fields, elems, cap)
       THEN /\ fields' = Append(fields, Field(type, elems))
            /\ UNCHANGED <<phase, open, cap, asked>>
       ELSE Panic

\* Mutant: the mutable iterator does not tell the types apart.
SlotsAny(fs, type) ==
    {i \in DOMAIN fs : fs[i].type \in Single /\ Len(fs[i].elems) = 1}

\* What MutFilterIter yields for since, until or limit: fields with exactly
\* one number.
Slots(fs, type) == {i \in DOMAIN fs : fs[i].type = type /\ Len(fs[i].elems) = 1}

Overwrite(fs, type, v) ==
    [fs EXCEPT ![Min(Slots(fs, type))].elems = <<v>>]

\* Mutant: a new field is started whatever there is.
PutNew(fs, busy, type, v, room) ==
    IF ~busy /\ CanStart(fs, type) /\ Fits(fs, <<v>>, room)
    THEN <<Append(fs, Field(type, <<v>>))>>
    ELSE <<>>

\* FilterBuilder::since, until, limit on a builder with fields fs: overwrite
\* the number that is there, or make the field; <<>> is a panic.
Put(fs, busy, type, v, room) ==
    IF Slots(fs, type) # {} THEN <<Overwrite(fs, type, v)>>
    ELSE IF ~busy /\ CanStart(fs, type) /\ Fits(fs, <<v>>, room)
    THEN <<Append(fs, Field(type, <<v>>))>>
    ELSE <<>>

Outcome(r, type, v) ==
    IF r = <<>> THEN Panic
    ELSE /\ fields' = r[1]
         /\ asked' = [asked EXCEPT ![type] = <<v>>]
         /\ UNCHANGED <<phase, open, cap>>

SetInBuilder(type, v) ==
    /\ phase = "builder" /\ Len(fields) < MaxFields
    /\ Outcome(Put(fields, open # <<>>, type, v, cap), type, v)

\* A field that was not ended is not part of the filter.
BuildFilter ==
    /\ phase = "builder"
    /\ phase' = "filter"
    /\ open' = <<>>
    /\ UNCHANGED <<fields, cap, asked>>

-----------------------------------------------------------------------------
(* Filter::since_mut, until_mut, limit_mut                                 *)

\* FilterField::new expects an element of search, since, until and limit.
Readable(f) == f.type \in Single \cup {"search"} => f.elems # <<>>

\* FilterStrElements::get asserts that the elements are ids.
StrElementsRead(f) ==
    f.type = "relays" => \A i \in DOMAIN f.elems : ElemType(f.elems[i]) = "id"

First(elems) == IF elems = <<>> THEN <<>> ELSE <<elems[1]>>

\* FilterField::new: of these fields only the first element is read.
Copied(f) ==
    IF f.type \in Single \cup {"search"} THEN Field(f.type, First(f.elems)) ELSE f

\* What a loop over the fields copies, after n of them, when its match has no
\* arm for the types in omitted.
Copies(fs, omitted) ==
    LET copies[n \in 0..Len(fs)] ==
            IF n = 0 THEN <<>>
            ELSE IF fs[n].type \in omitted THEN copies[n - 1]
            ELSE Append(copies[n - 1], Copied(fs[n]))
    IN  copies

\* Mutant: the match has no arm for tags.
CopyFromNoTags(fs) == Copies(fs, {"custom", "tags"})[Len(fs)]

\* Filter::copy_from: all but the custom fields, in order.
CopyFrom(fs) == Copies(fs, {"custom"})[Len(fs)]

CopyPanics(fs) ==
    \/ \E i \in DOMAIN fs : ~Readable(fs[i]) \/ ~StrElementsRead(fs[i])
    \/ Used(CopyFrom(fs)) > DefaultCap

SetInFilter(type, v) ==
    /\ phase = "filter" /\ Len(fields) < MaxFields
    /\ IF Slots(fields, type) # {}
       THEN Outcome(<<Overwrite(fields, type, v)>>, type, v)
       ELSE IF CopyPanics(fields) THEN Panic
       ELSE Outcome(Put(CopyFrom(fields), FALSE, type, v, DefaultCap), type, v)

-----------------------------------------------------------------------------
LowLevel ==
    \/ \E type \in Types : StartField(type)
    \/ \E e \in Elements : AddElement(e)
    \/ EndField

\* A chained method takes up to two elements; search and custom take one.
Chained ==
    \/ \E type \in Types \ Single : \E elems \in BoundedSeq(Suits(type), 2) :
        /\ type \in {"search", "custom"} => Len(elems) = 1
        /\ Method(type, elems)
    \/ \E type \in Types \cap Single, v \in Ints : SetInBuilder(type, v)

FieldNext ==
    \/ LowLevel
    \/ Chained
    \/ BuildFilter
    \/ \E type \in Types \cap Single, v \in Ints : SetInFilter(type, v)

FieldSpec == FieldInit /\ [][FieldNext]_fieldVars

-----------------------------------------------------------------------------
(* Properties                                                              *)

\* Every variable keeps to its type: a field holds elements that suit it, all
\* of one kind, and only tags occur twice.
FilterTypeOK ==
    /\ phase \in {"builder", "filter", "panicked"}
    /\ cap \in Caps
    /\ \A i \in DOMAIN fields :
        /\ \A j \in DOMAIN fields[i].elems : fields[i].elems[j] \in Suits(fields[i].type)
        /\ OneKind(fields[i].elems)
        /\ \A k \in DOMAIN fields :
            fields[i].type = fields[k].type => i = k \/ fields[i].type = "tags"
    /\ Len(open) <= 1
    /\ phase = "filter" => open = <<>>

\* Filter::since, until, limit: the first field of the type, as FilterIter
\* reads it.
Get(fs, type) ==
    LET at == {i \in DOMAIN fs : fs[i].type = type}
    IN  IF at = {} THEN <<>> ELSE First(fs[Min(at)].elems)

\* "filter_quick_since_mut_works", "filter_since_mut_works" (filter.rs tests):
\* since, until and limit read back what was last set, however it was set: a
\* new field, in place, in the builder, in the filter or in a copy of it.
GettersAgree ==
    phase # "panicked" =>
        \A type \in Single : asked[type] # <<>> => Get(fields, type) = asked[type]

\* The fields FilterIter yields that are neither of the type nor custom.
ReadOthers(fs, type) == Copies(fs, {type, "custom"})[Len(fs)]

\* Setting one field of a built filter leaves what is read of all others as it
\* was, order included, whether the filter was changed in place or copied.
\* Custom fields are the exception: copy_from does not copy them ("TODO").
SettersKeepTheRest ==
    [][phase = "filter" /\ phase' = "filter" =>
        \E type \in Types \cap Single :
            ReadOthers(fields', type) = ReadOthers(fields, type)]_fieldVars

\* The setters of a filter whose fields can be read and fit the buffer of
\* Filter::new do not panic, however the builder made those fields; relays
\* cannot be read (see RelayAssertHolds).
SettersNeverPanic ==
    [][/\ phase = "filter"
       /\ \A i \in DOMAIN fields : Readable(fields[i]) /\ StrElementsRead(fields[i])
       /\ Used(fields) < DefaultCap
       => phase' # "panicked"]_fieldVars

\* "assert!(self.elemtype() == FieldElemType::Id)" (FilterStrElements::get):
\* no setter panics on a filter for the elements of its relays.
RelayAssertHolds ==
    [][phase = "filter" /\ phase' = "panicked" =>
        \A i \in DOMAIN fields : StrElementsRead(fields[i])]_fieldVars
=============================================================================
