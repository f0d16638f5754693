----------------------------- MODULE Lifecycle -----------------------------
(***************************************************************************)
(* The life of an Ndb (ndb.rs, config.rs, transaction.rs): Ndb::new retries *)
(* ndb_init with ever smaller maps, registers a boxed callback with         *)
(* nostrdb's writer thread, and hands out clones that share one             *)
(* Arc<NdbRef>; the last clone to go joins the writer and frees the box.    *)
(* Threads meanwhile call into nostrdb and lock the SubMap, which the       *)
(* callback locks as well, and open transactions, which hold no clone: a    *)
(* transaction outlives the database if its thread keeps it.                *)
(***************************************************************************)
EXTENDS Naturals, FiniteSets

CONSTANTS
    Threads,    \* threads of the program
    MapSizes,   \* configured map sizes
    MinMapSize, \* min_mapsize of Ndb::new
    MaxFits,    \* the largest size ndb_init may succeed with (0: with none)
    Nobody      \* not a thread; no owner of the SubMap mutex

ASSUME LifecycleAssumption ==
    /\ MapSizes \subseteq Nat \ {0}
    /\ MinMapSize \in Nat
    /\ MaxFits \subseteq Nat
    /\ Nobody \notin Threads \cup {"writer"}
    /\ "writer" \notin Threads

VARIABLES
    opening,   \* Ndb::new: start, try, opened or failed
    asked,     \* the configured map size
    mapsize,   \* the size ndb_init is tried with
    fits,      \* the largest size it succeeds with
    tried,     \* history: sizes it was tried with
    box,       \* the callback's closure: none, boxed or freed
    db,        \* the C side: none, running or destroyed
    wpc,       \* its writer: none, idle, calling (the callback), inCallback or gone
    at,        \* at[t]: none, holding (a clone), inC, locked, destroying or freeing
    mutex,     \* who has locked the SubMap: a thread, "writer" or Nobody
    txn        \* txn[t], its Transaction (not Send): none, open or ending (in C)

openVars == <<opening, asked, mapsize, fits, tried>>
runVars == <<box, db, wpc, at, mutex, txn>>
vars == <<openVars, runVars>>

\* Arc::strong_count of the NdbRef: every holder is one clone.
Holders == {t \in Threads : at[t] \in {"holding", "inC", "locked"}}

Init ==
    /\ opening = "start"
    /\ asked \in MapSizes /\ mapsize = asked
    /\ fits \in MaxFits
    /\ tried = {}
    /\ box = "none" /\ db = "none" /\ wpc = "none"
    /\ at = [t \in Threads |-> "none"]
    /\ mutex = Nobody
    /\ txn = [t \in Threads |-> "none"]

-----------------------------------------------------------------------------
(* Ndb::new                                                                *)

\* set_sub_callback boxes the closure.
New ==
    /\ opening = "start"
    /\ opening' = "try"
    /\ box' = "boxed"
    /\ UNCHANGED <<asked, mapsize, fits, tried, db, wpc, at, mutex, txn>>

InitOk(t) ==
    /\ opening = "try" /\ mapsize <= fits
    /\ opening' = "opened"
    /\ tried' = tried \cup {mapsize}
    /\ db' = "running" /\ wpc' = "idle"
    /\ at' = [at EXCEPT ![t] = "holding"]
    /\ UNCHANGED <<asked, mapsize, fits, box, mutex, txn>>

\* Mutant: it tries again down to the minimum, which is never reached.
GoesOnLate(size) == size >= MinMapSize

\* "if mapsize > min_mapsize": is the halved size tried?
GoesOn(size) == size > MinMapSize

\* Mutant: the halved size is not stored.
InitFailsSame ==
    /\ opening = "try" /\ mapsize > fits
    /\ tried' = tried \cup {mapsize}
    /\ opening' = IF GoesOn(mapsize \div 2) THEN "try" ELSE "failed"
    /\ UNCHANGED <<asked, mapsize, fits, runVars>>

\* The box of a failed open is not freed.
InitFails ==
    /\ opening = "try" /\ mapsize > fits
    /\ tried' = tried \cup {mapsize}
    /\ mapsize' = mapsize \div 2
    /\ opening' = IF GoesOn(mapsize') THEN "try" ELSE "failed"
    /\ UNCHANGED <<asked, fits, runVars>>

-----------------------------------------------------------------------------
(* Clones and their threads                                                *)

\* A clone is given to another thread (or moved into a stream there).
CloneTo(t, u) ==
    /\ at[t] = "holding" /\ at[u] = "none"
    /\ at' = [at EXCEPT ![u] = "holding"]
    /\ UNCHANGED <<openVars, box, db, wpc, mutex, txn>>

Move(t, from, to) ==
    /\ at[t] = from
    /\ at' = [at EXCEPT ![t] = to]

\* Any method of a clone: it passes ndb to nostrdb.
CallC(t) == Move(t, "holding", "inC") /\ UNCHANGED <<openVars, box, db, wpc, mutex, txn>>

ReturnC(t) == Move(t, "inC", "holding") /\ UNCHANGED <<openVars, box, db, wpc, mutex, txn>>

\* Transaction::new borrows a clone and keeps nothing of it.  A second one on
\* its thread changes nothing: Err(TransactionFailed).
BeginTxn(t) ==
    /\ at[t] = "holding" /\ txn[t] = "none"
    /\ txn' = [txn EXCEPT ![t] = "open"]
    /\ UNCHANGED <<openVars, box, db, wpc, at, mutex>>

\* Transaction's Drop enters nostrdb, whoever still holds a clone.
EndTxn(t) ==
    /\ at[t] \in {"none", "holding"} /\ txn[t] = "open"
    /\ txn' = [txn EXCEPT ![t] = "ending"]
    /\ UNCHANGED <<openVars, box, db, wpc, at, mutex>>

EndReturns(t) ==
    /\ txn[t] = "ending"
    /\ txn' = [txn EXCEPT ![t] = "none"]
    /\ UNCHANGED <<openVars, box, db, wpc, at, mutex>>

\* The critical sections of streams and of unsubscribe.
LockMap(t) ==
    /\ mutex = Nobody
    /\ Move(t, "holding", "locked")
    /\ mutex' = t
    /\ UNCHANGED <<openVars, box, db, wpc, txn>>

UnlockMap(t) ==
    /\ Move(t, "locked", "holding")
    /\ mutex' = Nobody
    /\ UNCHANGED <<openVars, box, db, wpc, txn>>

\* Mutant: a clone is dropped while its thread still has the map locked.
DropCloneLocked(t) ==
    /\ at[t] \in {"holding", "locked"}
    /\ at' = [at EXCEPT ![t] = IF Holders = {t} THEN "destroying" ELSE "none"]
    /\ UNCHANGED <<openVars, box, db, wpc, mutex, txn>>

\* Mutant: every clone's drop destroys, as without the Arc.
DropCloneAlone(t) ==
    /\ Move(t, "holding", "destroying")
    /\ UNCHANGED <<openVars, box, db, wpc, mutex, txn>>

\* A clone goes; the last one runs Drop for NdbRef.
DropClone(t) ==
    /\ Move(t, "holding", IF Holders = {t} THEN "destroying" ELSE "none")
    /\ UNCHANGED <<openVars, box, db, wpc, mutex, txn>>

\* Mutant: the database is destroyed under a callback that still runs.
DestroyAtOnce(t) ==
    /\ Move(t, "destroying", "freeing")
    /\ db' = "destroyed"
    /\ UNCHANGED <<openVars, box, wpc, mutex, txn>>

\* ndb_destroy returns once the writer has finished what it was doing.
Destroy(t) ==
    /\ wpc = "idle"
    /\ Move(t, "destroying", "freeing")
    /\ db' = "destroyed" /\ wpc' = "gone"
    /\ UNCHANGED <<openVars, box, mutex, txn>>

\* Box::from_raw, dropped.
FreeBox(t) ==
    /\ Move(t, "freeing", "none")
    /\ box' = "freed"
    /\ UNCHANGED <<openVars, db, wpc, mutex, txn>>

-----------------------------------------------------------------------------
(* nostrdb's writer thread                                                 *)

\* A write matched a subscription.
WriterCalls ==
    /\ wpc = "idle"
    /\ wpc' = "calling"
    /\ UNCHANGED <<openVars, box, db, at, mutex, txn>>

\* The closure locks the map, wakes, and runs the previous callback.
CallbackLocks ==
    /\ wpc = "calling" /\ mutex = Nobody
    /\ wpc' = "inCallback" /\ mutex' = "writer"
    /\ UNCHANGED <<openVars, box, db, at, txn>>

CallbackReturns ==
    /\ wpc = "inCallback"
    /\ wpc' = "idle" /\ mutex' = Nobody
    /\ UNCHANGED <<openVars, box, db, at, txn>>

-----------------------------------------------------------------------------
WithClone(t) ==
    \/ \E u \in Threads : CloneTo(t, u)
    \/ CallC(t) \/ ReturnC(t)
    \/ BeginTxn(t)
    \/ LockMap(t) \/ UnlockMap(t)
    \/ DropClone(t) \/ Destroy(t) \/ FreeBox(t)

\* A thread that ends its transaction does nothing else until it has.
Thread(t) ==
    \/ InitOk(t)
    \/ txn[t] # "ending" /\ WithClone(t)
    \/ EndTxn(t) \/ EndReturns(t)

Writer == WriterCalls \/ CallbackLocks \/ CallbackReturns

Next == New \/ InitFails \/ Writer \/ \E t \in Threads : Thread(t)

Spec == Init /\ [][Next]_vars

\* What a thread has begun it goes on with: Ndb::new tries until it is done, a
\* critical section and a callback end, a drop runs to its end.  The threads
\* need not drop their clones, nor end their transactions.  Fairness of the SubMap mutex is not assumed.
\* The writes ahead of ndb_destroy's quit message are finitely many, so that
\* the writer, idle again and again, is joined.
Fairness ==
    /\ WF_vars(InitFails)
    /\ WF_vars(\E t \in Threads : InitOk(t))
    /\ WF_vars(CallbackLocks)
    /\ WF_vars(CallbackReturns)
    /\ \A t \in Threads :
        /\ WF_vars(UnlockMap(t))
        /\ SF_vars(Destroy(t))
        /\ WF_vars(FreeBox(t))

FairSpec == Spec /\ Fairness

-----------------------------------------------------------------------------
\* Every variable keeps to its type, and the mutex is with whom the program
\* counters say.
LifecycleTypeOK ==
    /\ opening \in {"start", "try", "opened", "failed"}
    /\ asked \in MapSizes /\ fits \in MaxFits
    /\ mapsize \in 0..asked /\ tried \subseteq 1..asked
    /\ box \in {"none", "boxed", "freed"}
    /\ db \in {"none", "running", "destroyed"}
    /\ wpc \in {"none", "idle", "calling", "inCallback", "gone"}
    /\ at \in [Threads -> {"none", "holding", "inC", "locked", "destroying", "freeing"}]
    /\ \A t \in Threads : at[t] = "locked" <=> mutex = t
    /\ wpc = "inCallback" <=> mutex = "writer"
    /\ txn \in [Threads -> {"none", "open", "ending"}]

\* A clone keeps the database open, in whatever order the threads pass clones
\* on and drop them: who holds one, in a call through it or between calls, has a
\* running database; and one thread at a time closes it.  Of transactions it
\* says nothing when no clone is left.
ClonesKeepOpen ==
    /\ Holders # {} => db = "running"
    /\ Cardinality({t \in Threads : at[t] \in {"destroying", "freeing"}}) <= 1

\* A note is "tied to the lifetime of a [Transaction] to ensure no reading of
\* data outside of a transaction" (note.rs 62-64): while a transaction is open,
\* and until its Drop is back from nostrdb, there is a database to read and to
\* end it in.  But nothing ties the transaction to the Ndb.
TransactionsFindDatabase ==
    (\E t \in Threads : txn[t] # "none") => db = "running"

\* The writer never runs a closure whose box has been freed, whatever clones
\* are dropped while it is on its way into the callback.
CallbackFindsBox == wpc \in {"idle", "calling", "inCallback"} => box = "boxed"

\* Inductive, for the proofs: a writer that may call back has its box, a
\* holder has a database and its writer, and a thread that closes the database
\* is the only one and has no holder left beside it.
LifeInv ==
    /\ opening \in {"start", "try"} => mapsize >= 1
    /\ opening \in {"try", "failed"} => box = "boxed"
    /\ opening # "opened" => wpc = "none" /\ db = "none" /\ \A t \in Threads : at[t] = "none"
    /\ wpc \in {"idle", "calling", "inCallback"} => box = "boxed"
    /\ \A t \in Holders : db = "running" /\ wpc \in {"idle", "calling", "inCallback"}
    /\ \A t \in Threads :
        /\ at[t] = "destroying" =>
            db = "running" /\ wpc \in {"idle", "calling", "inCallback"}
        /\ at[t] = "freeing" => wpc = "gone"
        /\ at[t] \in {"destroying", "freeing"} => \A u \in Threads \ {t} : at[u] = "none"

\* The halves of a size that Ndb::new goes on to: as long as they are above
\* the minimum.
Halves[size \in Nat] ==
    IF size > MinMapSize THEN {size} \cup Halves[size \div 2] ELSE {}

Sizes(size) == {size} \cup Halves[size \div 2]

\* Ndb::new tries the configured size and its halves above the minimum, in
\* that order, and gives up only when none of them works.
OpensIfItCan ==
    /\ tried \subseteq Sizes(asked)
    /\ opening = "failed" => \A size \in Sizes(asked) : size > fits
    /\ opening = "opened" =>
        \A size \in Sizes(asked) : size <= fits <=> size <= mapsize

\* "The database is automatically closed when [Ndb] is [Drop]ped": when the
\* last clone has begun to go, the writer is joined and the box freed, though
\* the writer may be waiting for a mutex the program has locked.
CloseCompletes ==
    \A t \in Threads : at[t] = "destroying" ~> box = "freed"

\* The retry loop comes to an end.
NewReturns == opening = "try" ~> opening \in {"opened", "failed"}
=============================================================================
