---------------------------- MODULE FilterMemory ----------------------------
(***************************************************************************)
(* Who owns what of a filter (filter.rs): the C buffers behind every       *)
(* FilterBuilder and Filter, and the boxed closure of a custom field,      *)
(* which C elements point to and which an Arc of the raw pointer is meant  *)
(* to keep alive.  A Filter is neither Send nor Sync: all of this happens  *)
(* on one thread, but for the closures of subscribed filters, which        *)
(* nostrdb's ingesters call for as long as the subscription lives.         *)
(***************************************************************************)
EXTENDS Naturals, FiniteSets

CONSTANTS
    Handles,       \* builders and filters the program may make
    Boxes,         \* closures it may box
    NoBox          \* custom_ctx = None

ASSUME FilterMemoryAssumption ==
    /\ NoBox \notin Boxes
    /\ Handles \cap Boxes = {}
    /\ IsFiniteSet(Handles)

VARIABLES
    kind,      \* none, builder, built, filter or gone
    buf,       \* the buffers of a handle, named after the handle they were made for
    ctx,       \* custom_ctx: the box it frees, or NoBox
    arc,       \* which Arc of it; an Arc is named after the filter it was made for
    calls,     \* the boxes the C elements of a handle point to
    made,      \* boxes made so far
    bufFrees,  \* how often buffers were freed
    boxFrees,  \* how often a box was
    lost,      \* handles and boxes nobody is left to free
    subCalls   \* the boxes the filters of live subscriptions point to

vars == <<kind, buf, ctx, arc, calls, made, bufFrees, boxFrees, lost, subCalls>>

Init ==
    /\ kind = [h \in Handles |-> "none"]
    /\ buf = [h \in Handles |-> h]
    /\ ctx = [h \in Handles |-> NoBox]
    /\ arc = [h \in Handles |-> h]
    /\ calls = [h \in Handles |-> {}]
    /\ made = {}
    /\ bufFrees = [h \in Handles |-> 0]
    /\ boxFrees = [c \in Boxes |-> 0]
    /\ lost = {}
    /\ subCalls = {}

\* Filter::new and its siblings: ndb_filter_init allocates.
NewBuilder(h) ==
    /\ kind[h] = "none"
    /\ kind' = [kind EXCEPT ![h] = "builder"]
    /\ UNCHANGED <<buf, ctx, arc, calls, made, bufFrees, boxFrees, lost, subCalls>>

\* add_custom_filter_element: custom_ctx is set before nostrdb accepts the
\* element, and whether it does or not.  A box it replaces is lost.
AddCustom(h, c) ==
    /\ kind[h] = "builder"
    /\ c \notin made
    /\ made' = made \cup {c}
    /\ ctx' = [ctx EXCEPT ![h] = c]
    /\ calls' = [calls EXCEPT ![h] = IF @ = {} THEN {c} ELSE @]
    /\ lost' = lost \cup ({ctx[h]} \ {NoBox})
    /\ UNCHANGED <<kind, buf, arc, bufFrees, boxFrees, subCalls>>

\* Mutant: the filter is made without custom_ctx, as in from_json.
BuildForgetting(h, g) ==
    /\ kind[g] = "none"
    /\ kind' = [kind EXCEPT ![h] = "built", ![g] = "filter"]
    /\ buf' = [buf EXCEPT ![g] = buf[h]]
    /\ calls' = [calls EXCEPT ![g] = calls[h]]
    /\ UNCHANGED <<ctx, arc, made, bufFrees, boxFrees, lost, subCalls>>

\* build: the filter takes over the buffers and gets an Arc of its own.
BuildFrom(h, g) ==
    /\ kind[g] = "none"
    /\ kind' = [kind EXCEPT ![h] = "built", ![g] = "filter"]
    /\ buf' = [buf EXCEPT ![g] = buf[h]]
    /\ ctx' = [ctx EXCEPT ![g] = ctx[h]]
    /\ calls' = [calls EXCEPT ![g] = calls[h]]
    /\ UNCHANGED <<arc, made, bufFrees, boxFrees, lost, subCalls>>

\* Bound: once.  build takes &mut self, and a second call would make a second
\* Arc of the same raw pointer and share the buffers: each filter would free both.
Build(h, g) == kind[h] = "builder" /\ BuildFrom(h, g)

\* Drop for FilterBuilder frees nothing: what was not built is lost.  So it is
\* when from_json_with_bufsize returns its error.
DropBuilder(h) ==
    /\ kind[h] \in {"builder", "built"}
    /\ kind' = [kind EXCEPT ![h] = "gone"]
    /\ lost' = IF kind[h] = "built" THEN lost
               ELSE lost \cup {buf[h]} \cup ({ctx[h]} \ {NoBox})
    /\ UNCHANGED <<buf, ctx, arc, calls, made, bufFrees, boxFrees, subCalls>>

\* Mutant: the raw pointer is cloned, not the Arc.
CloneFresh(g, h) ==
    /\ kind[g] = "filter" /\ kind[h] = "none"
    /\ kind' = [kind EXCEPT ![h] = "filter"]
    /\ ctx' = [ctx EXCEPT ![h] = ctx[g]]
    /\ calls' = [calls EXCEPT ![h] = calls[g]]
    /\ UNCHANGED <<buf, arc, made, bufFrees, boxFrees, lost, subCalls>>

\* Mutant: the struct is copied, ndb_filter_clone not called.
CloneShallow(g, h) ==
    /\ kind[g] = "filter" /\ kind[h] = "none"
    /\ kind' = [kind EXCEPT ![h] = "filter"]
    /\ buf' = [buf EXCEPT ![h] = buf[g]]
    /\ ctx' = [ctx EXCEPT ![h] = ctx[g]]
    /\ arc' = [arc EXCEPT ![h] = arc[g]]
    /\ calls' = [calls EXCEPT ![h] = calls[g]]
    /\ UNCHANGED <<made, bufFrees, boxFrees, lost, subCalls>>

\* Clone for Filter: ndb_filter_clone allocates buffers of their own, the Arc
\* is shared.
Clone(g, h) ==
    /\ kind[g] = "filter" /\ kind[h] = "none"
    /\ kind' = [kind EXCEPT ![h] = "filter"]
    /\ ctx' = [ctx EXCEPT ![h] = ctx[g]]
    /\ arc' = [arc EXCEPT ![h] = arc[g]]
    /\ calls' = [calls EXCEPT ![h] = calls[g]]
    /\ UNCHANGED <<buf, made, bufFrees, boxFrees, lost, subCalls>>

StrongCount(g) == Cardinality({h \in Handles : kind[h] = "filter" /\ arc[h] = arc[g]})

\* Mutant: the box is left to the other clones even when there is none.
FreeNever(g) ==
    /\ bufFrees' = [bufFrees EXCEPT ![buf[g]] = @ + 1]
    /\ boxFrees' = [c \in Boxes |->
            boxFrees[c] + (IF c = ctx[g] /\ StrongCount(g) > 1 THEN 1 ELSE 0)]

\* Drop for Filter: the buffers go, and with the last Arc the box.
Free(g) ==
    /\ bufFrees' = [bufFrees EXCEPT ![buf[g]] = @ + 1]
    /\ boxFrees' = [c \in Boxes |->
            boxFrees[c] + (IF c = ctx[g] /\ StrongCount(g) = 1 THEN 1 ELSE 0)]

DropFilter(g) ==
    /\ kind[g] = "filter"
    /\ Free(g)
    /\ kind' = [kind EXCEPT ![g] = "gone"]
    /\ UNCHANGED <<buf, ctx, arc, calls, made, lost, subCalls>>

\* since_mut, until_mut and limit_mut without such a field: the result is a
\* copy without custom fields, and the filter is dropped.
SetByCopy(g, h) ==
    /\ kind[g] = "filter" /\ kind[h] = "none"
    /\ Free(g)
    /\ kind' = [kind EXCEPT ![g] = "gone", ![h] = "filter"]
    /\ UNCHANGED <<buf, ctx, arc, calls, made, lost, subCalls>>

\* Ndb::subscribe: nostrdb keeps copies of the filters, the pointers to
\* closures included.
Subscribe(g) ==
    /\ kind[g] = "filter"
    /\ calls[g] # {}
    /\ subCalls' = subCalls \cup calls[g]
    /\ UNCHANGED <<kind, buf, ctx, arc, calls, made, bufFrees, boxFrees, lost>>

Unsubscribe(c) ==
    /\ c \in subCalls
    /\ subCalls' = subCalls \ {c}
    /\ UNCHANGED <<kind, buf, ctx, arc, calls, made, bufFrees, boxFrees, lost>>

Next ==
    \/ \E h \in Handles : NewBuilder(h) \/ DropBuilder(h) \/ DropFilter(h) \/ Subscribe(h)
    \/ \E h \in Handles, c \in Boxes : AddCustom(h, c)
    \/ \E g, h \in Handles : Build(g, h) \/ Clone(g, h) \/ SetByCopy(g, h)
    \/ \E c \in Boxes : Unsubscribe(c)

\* Builders are built at most once, as all chains of methods do.
Spec == Init /\ [][Next]_vars

-----------------------------------------------------------------------------
\* Every variable keeps to its type, what C elements point to was made, and
\* who has C elements that call a closure has one to free.
MemoryTypeOK ==
    /\ kind \in [Handles -> {"none", "builder", "built", "filter", "gone"}]
    /\ buf \in [Handles -> Handles] /\ arc \in [Handles -> Handles]
    /\ ctx \in [Handles -> Boxes \cup {NoBox}]
    /\ calls \in [Handles -> SUBSET made] /\ subCalls \subseteq made
    /\ made \subseteq Boxes /\ lost \subseteq Handles \cup Boxes
    /\ bufFrees \in [Handles -> Nat] /\ boxFrees \in [Boxes -> Nat]
    /\ \A h \in Handles : calls[h] # {} => ctx[h] \in Boxes

\* As long as builders are built once: through any sequence of builds, clones,
\* setters and drops, no buffer and no closure is freed twice.
NoDoubleFree ==
    /\ \A h \in Handles : bufFrees[h] <= 1
    /\ \A c \in Boxes : boxFrees[c] <= 1

\* A filter that is still there can be used: its buffers and the closure its
\* custom field calls have not been freed by the drop of another.
LiveFiltersIntact ==
    \A g \in Handles : kind[g] = "filter" =>
        /\ bufFrees[buf[g]] = 0
        /\ \A c \in calls[g] : boxFrees[c] = 0

\* No closure leaks but those of builders that were dropped unbuilt or given a
\* second closure: every other one has been freed or has a filter or builder
\* left that is to free it.
ClosuresAccountedFor ==
    \A c \in made :
        \/ boxFrees[c] > 0
        \/ c \in lost
        \/ \E h \in Handles : kind[h] \in {"builder", "filter"} /\ ctx[h] = c

\* The handles whose drop frees something.
Live == {h \in Handles : kind[h] \in {"builder", "filter"}}

\* Inductive, for the proofs: who owns a buffer.  A handle not yet made has
\* the buffers it would be given; no two owners have the same ones.
BufferInv ==
    LET owners == {h \in Handles : kind[h] \in {"none", "builder", "filter"}}
    IN  /\ \A h \in Handles : kind[h] = "none" =>
            buf[h] = h /\ arc[h] = h /\ ctx[h] = NoBox /\ calls[h] = {}
        /\ \A g, h \in owners : buf[g] = buf[h] => g = h
        /\ \A h \in owners : bufFrees[buf[h]] = 0
        /\ \A h \in Handles : bufFrees[h] <= 1

\* Inductive, for the proofs: who owns a closure.  Those with the same closure
\* are filters with the same Arc, and the other way round; what they call is
\* theirs to free or nobody's.
BoxInv ==
    /\ \A h \in Handles : ctx[h] \in made \cup {NoBox}
    /\ \A g, h \in Live : ctx[g] = ctx[h] /\ ctx[g] # NoBox /\ g # h =>
            kind[g] = "filter" /\ kind[h] = "filter" /\ arc[g] = arc[h]
    /\ \A g, h \in Live : kind[g] = "filter" /\ kind[h] = "filter" /\ arc[g] = arc[h]
            => ctx[g] = ctx[h]
    /\ \A h \in Handles : kind[h] = "filter" => kind[arc[h]] # "none"
    /\ \A h \in Live : ctx[h] # NoBox => boxFrees[ctx[h]] = 0
    /\ \A h \in Live : \A c \in calls[h] : c = ctx[h] \/ c \in lost
    /\ \A c \in Boxes : boxFrees[c] <= 1
    /\ \A c \in Boxes \ made : boxFrees[c] = 0
    /\ \A c \in Boxes \cap lost :
            c \in made /\ boxFrees[c] = 0 /\ \A h \in Live : ctx[h] # c

-----------------------------------------------------------------------------
(* A comment of filter.rs that the code does not keep                      *)

\* "Convert the raw pointer back into a reference to our closure" (the
\* trampoline): the closure a subscription's filter calls is still there.
TrampolineFindsClosure == \A c \in subCalls : boxFrees[c] = 0
=============================================================================
