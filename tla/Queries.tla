------------------------------ MODULE Queries ------------------------------
(***************************************************************************)
(* Transactions and the reads they carry (transaction.rs and ndb.rs):      *)
(* fold and try_fold with the FFI visitors behind them, the count, all,    *)
(* any and find_map built on them, query, the cursor of search_profile,    *)
(* and the lookups by id and by key.  A read passes its transaction to     *)
(* nostrdb, which evaluates it on the snapshot taken when the transaction  *)
(* began, while the writer goes on storing notes.  Reads of different      *)
(* threads interleave visit by visit.                                      *)
(*                                                                         *)
(* A filter list is the set of notes it matches, a closure the set of      *)
(* notes it is true of (for find_map: has a value for, the note itself);   *)
(* a search result is a note whose key pointer may be null.                *)
(***************************************************************************)
EXTENDS Naturals, Sequences, SequencesExt

CONSTANTS
    Threads,   \* threads that read
    Notes,     \* notes that may be stored
    Ops,       \* the reads they do, of count, all, any, find_map, search, query, get
    Limits     \* values of limit and max_results

ASSUME LimitsAssumption == Limits \subseteq Nat

VARIABLES
    db,        \* the stored notes in query order
    txn,       \* txn[t]: the snapshot of t's transaction, <<>> or <<snapshot>>
    call,      \* call[t]: the read in progress, <<>> or <<call>>
    accum,     \* accum[t]: AggCtx::accum, an Option; or the results of a search
    pos,       \* pos[t]: how many results nostrdb has handed over
    stopped,   \* stopped[t]: did the visitor answer NDB_VISITOR_STOP?
    cursor,    \* cursor[t]: is the search cursor open?
    answer     \* answer[t]: what the last read returned, if Ok: <<>> or <<Ok>>

vars == <<db, txn, call, accum, pos, stopped, cursor, answer>>

Visits == {"count", "all", "any", "find_map"}

Init ==
    /\ db = <<>>
    /\ txn = [t \in Threads |-> <<>>]
    /\ call = [t \in Threads |-> <<>>]
    /\ accum = [t \in Threads |-> <<>>]
    /\ pos = [t \in Threads |-> 0]
    /\ stopped = [t \in Threads |-> FALSE]
    /\ cursor = [t \in Threads |-> FALSE]
    /\ answer = [t \in Threads |-> <<>>]

-----------------------------------------------------------------------------
(* Transactions                                                            *)

Store(n) ==
    /\ n \notin ToSet(db)
    /\ db' = <<n>> \o db
    /\ UNCHANGED <<txn, call, accum, pos, stopped, cursor, answer>>

\* A second transaction of the thread would be Err(TransactionFailed).
BeginTxn(t) ==
    /\ txn[t] = <<>>
    /\ txn' = [txn EXCEPT ![t] = <<db>>]
    /\ UNCHANGED <<db, call, accum, pos, stopped, cursor, answer>>

\* Reads borrow the transaction: it ends between them.
EndTxn(t) ==
    /\ txn[t] # <<>> /\ call[t] = <<>>
    /\ txn' = [txn EXCEPT ![t] = <<>>]
    /\ answer' = [answer EXCEPT ![t] = <<>>]
    /\ UNCHANGED <<db, call, accum, pos, stopped, cursor>>

\* Kept(s, S)[n]: those of the first n elements of s that are in S, in order.
Kept(s, S) ==
    LET kept[n \in 0..Len(s)] ==
            IF n = 0 THEN <<>>
            ELSE IF s[n] \in S THEN Append(kept[n - 1], s[n]) ELSE kept[n - 1]
    IN  kept

\* The notes of a snapshot that a call matches, in query order.
Matching(s, c) == Kept(s, c.match)[Len(s)]

\* Mutant: a read that ignores its transaction.
FoundNow(t) == Matching(db, call[t][1])

\* What nostrdb hands over in the call of t.
Found(t) == Matching(txn[t][1], call[t][1])

Return(t, result) ==
    /\ answer' = [answer EXCEPT ![t] = <<[of |-> call[t][1], ok |-> result, at |-> pos[t]]>>]
    /\ call' = [call EXCEPT ![t] = <<>>]
    /\ accum' = [accum EXCEPT ![t] = <<>>]
    /\ pos' = [pos EXCEPT ![t] = 0]
    /\ stopped' = [stopped EXCEPT ![t] = FALSE]
    /\ UNCHANGED <<db, txn>>

-----------------------------------------------------------------------------
(* fold, try_fold and what is built on them                                *)

Start(op) ==
    CASE op = "count" -> 0
      [] op = "all" -> TRUE
      [] op = "any" -> FALSE
      [] op = "find_map" -> <<>>

Continue(a) == [stop |-> FALSE, acc |-> a]
Break(a) == [stop |-> TRUE, acc |-> a]

\* Mutant: all goes on after a note that fails, as a fold without Break would.
FoldNoBreak(c, a, n) ==
    CASE c.op = "count" -> Continue(a + 1)
      [] c.op = "all" -> Continue(a /\ n \in c.sat)
      [] c.op = "any" -> IF n \in c.sat THEN Break(TRUE) ELSE Continue(FALSE)
      [] c.op = "find_map" -> IF n \in c.sat THEN Break(<<n>>) ELSE Continue(<<>>)

\* The closures that count, all, any and find_map pass on.
Fold(c, a, n) ==
    CASE c.op = "count" -> Continue(a + 1)
      [] c.op = "all" -> IF n \notin c.sat THEN Break(FALSE) ELSE Continue(a)
      [] c.op = "any" -> IF n \in c.sat THEN Break(TRUE) ELSE Continue(FALSE)
      [] c.op = "find_map" -> IF n \in c.sat THEN Break(<<n>>) ELSE Continue(<<>>)

BeginCall(t, c, acc, open) ==
    /\ txn[t] # <<>> /\ call[t] = <<>>
    /\ call' = [call EXCEPT ![t] = <<c>>]
    /\ accum' = [accum EXCEPT ![t] = acc]
    /\ cursor' = [cursor EXCEPT ![t] = open]
    /\ answer' = [answer EXCEPT ![t] = <<>>]
    /\ UNCHANGED <<db, txn, pos, stopped>>

BeginVisit(t, c) == c.op \in Visits /\ BeginCall(t, c, <<Start(c.op)>>, FALSE)

\* Mutant: on STOP the accumulator is not put back.
VisitTaking(t) ==
    /\ call[t] # <<>> /\ call[t][1].op \in Visits
    /\ ~stopped[t] /\ pos[t] < Len(Found(t))
    /\ LET f == Fold(call[t][1], accum[t][1], Found(t)[pos[t] + 1])
       IN  /\ accum' = [accum EXCEPT ![t] = IF f.stop THEN <<>> ELSE <<f.acc>>]
           /\ stopped' = [stopped EXCEPT ![t] = f.stop]
    /\ pos' = [pos EXCEPT ![t] = @ + 1]
    /\ UNCHANGED <<db, txn, call, cursor, answer>>

\* agg_visitor and agg_visitor_control: the accumulator is taken out, handed
\* to the closure, and put back before the visitor answers CONT or STOP.
Visit(t) ==
    /\ call[t] # <<>> /\ call[t][1].op \in Visits
    /\ ~stopped[t] /\ pos[t] < Len(Found(t))
    /\ LET f == Fold(call[t][1], accum[t][1], Found(t)[pos[t] + 1])
       IN  /\ accum' = [accum EXCEPT ![t] = <<f.acc>>]
           /\ stopped' = [stopped EXCEPT ![t] = f.stop]
    /\ pos' = [pos EXCEPT ![t] = @ + 1]
    /\ UNCHANGED <<db, txn, call, cursor, answer>>

\* ndb_query_visit returned 1.
VisitOk(t) ==
    /\ call[t] # <<>> /\ call[t][1].op \in Visits
    /\ stopped[t] \/ pos[t] = Len(Found(t))
    /\ Return(t, accum[t][1])
    /\ UNCHANGED cursor

\* ndb_query_visit or ndb_query gave up, now or in the middle of the scan.
ReadErr(t) ==
    /\ call[t] # <<>> /\ call[t][1].op # "search"
    /\ call' = [call EXCEPT ![t] = <<>>]
    /\ accum' = [accum EXCEPT ![t] = <<>>]
    /\ pos' = [pos EXCEPT ![t] = 0]
    /\ stopped' = [stopped EXCEPT ![t] = FALSE]
    /\ UNCHANGED <<db, txn, cursor, answer>>

-----------------------------------------------------------------------------
(* query and search_profile                                                *)

BeginQuery(t, c) == c.op = "query" /\ BeginCall(t, c, <<>>, FALSE)

\* nostrdb fills at most max_results slots of the reserved vector.
QueryOk(t) ==
    /\ call[t] # <<>> /\ call[t][1].op = "query"
    /\ LET n == Min({call[t][1].limit, Len(Found(t))})
       IN  Return(t, SubSeq(Found(t), 1, n))
    /\ UNCHANGED cursor

\* The key of a hit is added to the results unless its pointer is null.
AddKey(c, results, n) == IF n \in c.sat THEN Append(results, n) ELSE results

Hits(t, c) == Matching(txn[t][1], c)

\* ndb_search_profile opened the cursor on the first hit, whose key is added.
BeginSearch(t, c) ==
    /\ c.op = "search"
    /\ txn[t] # <<>> /\ call[t] = <<>> /\ Hits(t, c) # <<>>
    /\ call' = [call EXCEPT ![t] = <<c>>]
    /\ accum' = [accum EXCEPT ![t] = AddKey(c, <<>>, Hits(t, c)[1])]
    /\ pos' = [pos EXCEPT ![t] = 1]
    /\ cursor' = [cursor EXCEPT ![t] = TRUE]
    /\ answer' = [answer EXCEPT ![t] = <<>>]
    /\ UNCHANGED <<db, txn, stopped>>

\* Without a hit there is no cursor, and nothing to iterate over.
SearchEmpty(t, c) ==
    /\ c.op = "search"
    /\ txn[t] # <<>> /\ call[t] = <<>> /\ Hits(t, c) = <<>>
    /\ answer' = [answer EXCEPT ![t] = <<[of |-> c, ok |-> <<>>, at |-> 0]>>]
    /\ UNCHANGED <<db, txn, call, accum, pos, stopped, cursor>>

\* remaining > 0; the first hit did not count.
Remaining(t) == pos[t] < call[t][1].limit + 1

SearchNext(t) ==
    /\ call[t] # <<>> /\ cursor[t]
    /\ Remaining(t) /\ pos[t] < Len(Found(t))
    /\ accum' = [accum EXCEPT ![t] = AddKey(call[t][1], @, Found(t)[pos[t] + 1])]
    /\ pos' = [pos EXCEPT ![t] = @ + 1]
    /\ UNCHANGED <<db, txn, call, stopped, cursor, answer>>

\* Mutant: ndb_search_profile_end only when the limit was reached.
SearchOkLeaking(t) ==
    /\ call[t] # <<>> /\ call[t][1].op = "search"
    /\ ~Remaining(t) \/ pos[t] = Len(Found(t))
    /\ cursor' = [cursor EXCEPT ![t] = Remaining(t)]
    /\ Return(t, accum[t])

\* The limit is reached, or ndb_search_profile_next has no more: the cursor is
\* closed either way.
SearchOk(t) ==
    /\ call[t] # <<>> /\ call[t][1].op = "search"
    /\ ~Remaining(t) \/ pos[t] = Len(Found(t))
    /\ cursor' = [cursor EXCEPT ![t] = FALSE]
    /\ Return(t, accum[t])

-----------------------------------------------------------------------------
(* get_note_by_id, get_note_by_key, get_profile_by_pubkey and other        *)
(* lookups by id or key                                                    *)

\* One call into nostrdb: a null pointer, or the key 0, is NotFound, here <<>>.
Get(t, c) ==
    /\ c.op = "get"
    /\ txn[t] # <<>> /\ call[t] = <<>>
    /\ answer' = [answer EXCEPT ![t] = <<[of |-> c, ok |-> Hits(t, c), at |-> 0]>>]
    /\ UNCHANGED <<db, txn, call, accum, pos, stopped, cursor>>

-----------------------------------------------------------------------------
\* A read as its caller states it; what an operation ignores is fixed.
Calls ==
    {c \in [op : Ops, match : SUBSET Notes, sat : SUBSET Notes, limit : Limits] :
        /\ c.op \in {"count", "query", "get"} => c.sat = Notes
        /\ c.op \in Visits \cup {"get"} => c.limit = 0
        /\ c.op = "get" => \E n \in Notes : c.match = {n}}

Reader(t) ==
    \/ BeginTxn(t)
    \/ EndTxn(t)
    \/ \E c \in Calls : BeginVisit(t, c)
    \/ \E c \in Calls : BeginQuery(t, c)
    \/ \E c \in Calls : BeginSearch(t, c)
    \/ \E c \in Calls : SearchEmpty(t, c)
    \/ \E c \in Calls : Get(t, c)
    \/ Visit(t)
    \/ VisitOk(t)
    \/ ReadErr(t)
    \/ QueryOk(t)
    \/ SearchNext(t)
    \/ SearchOk(t)

Next == (\E n \in Notes : Store(n)) \/ (\E t \in Threads : Reader(t))

Spec == Init /\ [][Next]_vars

-----------------------------------------------------------------------------
(* Properties                                                              *)

\* What a caller may rely on, defined on the whole of what the transaction's
\* snapshot has for it, with no visitor and no accumulator.
Decisive(c, found) ==
    {i \in 1..Len(found) :
        CASE c.op = "count" -> FALSE
          [] c.op = "all" -> found[i] \notin c.sat
          [] OTHER -> found[i] \in c.sat}

Reference(c, found) ==
    CASE c.op = "count" -> Len(found)
      [] c.op = "all" -> ToSet(found) \subseteq c.sat
      [] c.op = "any" -> ToSet(found) \cap c.sat # {}
      [] c.op = "find_map" ->
            IF Decisive(c, found) = {} THEN <<>> ELSE <<found[Min(Decisive(c, found))]>>
      [] c.op = "query" -> SubSeq(found, 1, Min({c.limit, Len(found)}))
      [] c.op = "search" -> Kept(found, c.sat)[Min({c.limit + 1, Len(found)})]
      [] c.op = "get" -> found

\* Types; and the visitors' expect("accumulator missing") never fires: while a
\* visit runs there is an accumulator.
QueryTypeOK ==
    /\ db \in Seq(Notes)
    /\ \A t \in Threads :
        /\ Len(txn[t]) <= 1 /\ Len(call[t]) <= 1
        /\ call[t] # <<>> => txn[t] # <<>>
        /\ pos[t] \in 0..Len(db)
        /\ stopped[t] \in BOOLEAN /\ cursor[t] \in BOOLEAN
        /\ call[t] # <<>> /\ call[t][1].op \in Visits => Len(accum[t]) = 1

\* "Results are evaluated against the snapshot represented by txn" (count, all,
\* any, try_fold): every Ok is the answer the documentation gives for that
\* snapshot, whatever the writer stored and other threads read meanwhile.
AnswersAreRight ==
    \A t \in Threads : \A a \in ToSet(answer[t]) :
        a.ok = Reference(a.of, Matching(txn[t][1], a.of))

\* "the scan stops immediately" (all, any, find_map): the closure is called
\* for the notes up to the first decisive one and for no other.
ShortCircuits ==
    \A t \in Threads : \A a \in ToSet(answer[t]) :
        a.of.op \in Visits =>
            LET found == Matching(txn[t][1], a.of)
            IN  a.at = IF Decisive(a.of, found) = {} THEN Len(found)
                       ELSE Min(Decisive(a.of, found))

\* A search gives back its cursor before its transaction can end, limit
\* reached or not.
CursorInCall ==
    \A t \in Threads : cursor[t] => call[t] # <<>> /\ call[t][1].op = "search"
=============================================================================
