# nostrdb-rs: verification project

nostrdb-rs gives Rust programs the embedded database nostrdb, a C library over
LMDB. The C sources are not part of this repository, so everything here is
about the Rust side: what it does around the calls into C, in which order, who
owns which memory, and what happens when threads and tasks do it at once.

This directory holds TLA+ modules translated from `src/src/*.rs`, TLC
configurations that model-check them, and theorems that TLAPS proves.
`PROJECT.json` lists the runs, the mutants that show each property can fail, the
lines behind each definition, and the hazards the properties are for; a hazard
of which no property would tell says why.

## Running it

    tlc -workers 2 -config MCSubs.cfg Subscriptions.tla
    tlapm SubscriptionsProofs.tla

and likewise `WaitForNotesProofs`, `QueriesProofs`, `FilterProofs`,
`LifecycleProofs`, `Nip10Proofs`, `MetadataProofs` and `NotesProofs`.

A run's module and configuration are in the table below. A configuration
instantiates a module's constants directly, or those of an MC module where a
set has to be built, where there is `SYMMETRY`, or where a run covers modules
that share no state. `MCNotes` and `MCFilters` are of that kind: each behaviour
of theirs is one of a single module, while the others have not begun. Every configuration sets `CHECK_DEADLOCK FALSE`: notes, ids and
handles are bounded, scans and builders come to an end, and a program that has
used up its bounds stops.

## Inventory

| component | source | state | operations | status |
|---|---|---|---|---|
| subscription streams | `future.rs`, `subscription.rs` | a sub id, `max_notes`, the task's waker | `poll_next`, `Drop`, `notes_per_await`, `unsubscribe_on_drop` | `Subscriptions` |
| subscription map and ingest callback | `ndb.rs` 61-97, 530-586 | `SubMap`: id to `{done, waker}` under a mutex | `subscribe`, `unsubscribe`, `poll_for_notes`, the callback | `Subscriptions` |
| waiting for notes | `ndb.rs` 588-622 | notes collected so far | `wait_for_notes`, `wait_for_all_notes` | `WaitForNotes` |
| transactions | `transaction.rs` | an LMDB read transaction | `new`, `Drop` | `Queries`, `Lifecycle` |
| visitors | `ndb.rs` 191-494, 870-955 | `AggCtx`: closure, accumulator, result | `fold`, `try_fold`, `count`, `all`, `any`, `find_map` | `Queries` |
| query, profile search | `ndb.rs` 496-524, 807-862 | result vector, search cursor | `query`, `search_profile` | `Queries`, partly |
| filter fields | `filter.rs` | fields, the open field, the buffer's room | the builder's methods, `build`, `since_mut`, `until_mut`, `limit_mut`, `copy_from` | `Filters` |
| filter memory | `filter.rs` | C buffers, `custom_ctx`, its `Arc` | `custom`, `build`, `clone`, `Drop`, setters, `subscribe` | `FilterMemory` |
| Ndb handle | `ndb.rs` 21-126, `config.rs` | map size, callback box, `Arc<NdbRef>` | `new`, `clone`, `Drop`, any call | `Lifecycle` |
| lookups by id and key | `ndb.rs` 623-805, `profile.rs` | none of their own | `get_note_by_id`, `get_profile_by_pubkey` and so on | `Queries` |
| NIP-10 replies | `util/nip10.rs` | root, reply, mention; their indices | `NoteReply::new`, accessors, `to_owned`, `borrow` | `Nip10` |
| note metadata | `metadata.rs` | a vector and a C cursor into it, a `u16` count | `with_capacity`, `add_entry`, `build`, `entry_at`, iteration | `Metadata`, partly |
| notes, tags, strings | `note.rs`, `tags.rs`, `ndb_str.rs` | owned, borrowed and transactional notes; pointers into them | `clone`, `Drop`, `tags`, iteration, `get` | `Notes`, partly |
| note builder | `note.rs` 392-574 | buffer, sign key, date option | `sig`, `sign`, `created_at`, `pubkey`, `options`, `build` | `Notes`, partly |
| relays of a note | `relay.rs` | a C cursor | start, next, close | `Notes` |
| content blocks | `block.rs` | an iterator's slot, the note's content | `iter`, `next`, `as_str`, `as_mention` | `Notes`, partly |
| ingestion, profile records, bindings, errors | the rest | none of their own | one FFI call each, or generated | not modelled |

How they interact:

- nostrdb's **writer thread** stores notes, pushes those that match a
  subscription into its inbox, and calls back into Rust while it holds the
  monitor's mutex. The callback locks the `SubMap` mutex, takes the entry's
  waker, wakes it, and runs the callback the application had configured.
- A **task** that polls a stream locks the map (is it done?), polls C without
  the map lock, locks the map again to store its waker, and polls C again.
- **Application threads** subscribe and unsubscribe. Unsubscribe tells C first
  and marks the entry second, in two critical sections.
- Every stream, wait call and thread holds a clone of the `Ndb`. The last one
  to go joins the writer and frees the callback.
- Readers hold a `Transaction`, which holds no clone; the writer goes on meanwhile. C calls the
  visitors back on the reader's own thread.
- A filter owns C buffers and perhaps a boxed closure, of which copies of the
  filter, including those nostrdb keeps for a subscription, hold raw pointers.
- Tags, iterators, strings and blocks hold raw pointers into a note, and most of
  them a clone of it, which for an owned note is another allocation. A builder
  hands its buffer to the note it builds. `NoteReply` iterates over the tags and
  keeps what it found; `NoteReplyBuf` keeps indices to look up again.
- Metadata grows in a `Vec` that C writes to through a cursor of its own.

What is hard about it, and what makes each part correct:

- **Streams.** A note may arrive between any two of poll_next's steps, a drop
  may race an unsubscribe, two mutexes are taken by different threads. Correct
  means: no stream sleeps over notes, ends too early, is revived, or leaves an
  entry behind; notes come once and in order; nobody waits for ever.
- **Wait functions.** They consume the subscription: one note must go to one
  call, and a call whose notes came must return.
- **Queries.** The scan runs while the writer stores. Correct means the answer
  of the snapshot, with the short circuit the documentation promises.
- **Filters.** Setters that change a filter in place or by copy must agree, and
  closures and buffers must be freed once and not too early.
- **Handle.** Opening retries; closing races the writer's callback,
  and the transactions that are still open.
- **Notes.** Handles of one note may be dropped in any order. Correct means that
  every block is freed once, and that what dangles is what the borrow checker
  cannot see, and no more.
- **Builder.** `sig`, `sign`, `created_at` and `options` overwrite each other's
  fields; the last one must win.
- **NIP-10.** A scan with flags that stops early must find what the tags define,
  and a second scan with another filter must find it again.
- **Metadata.** `Vec` and cursor count differently, `entry_at` computes in `u16`.

## Modules

| module | kind | what it is |
|---|---|---|
| `NoteFeed` | abstract | what a subscription promises its consumer |
| `Subscriptions` | detailed | streams, map, callback, writer; implements `NoteFeed` |
| `SubscriptionsProofs` | proofs | its theorems |
| `WaitForNotes` | composed | wait calls over the streams of `NoteFeed` |
| `WaitForNotesProofs` | proofs | its theorems |
| `Queries`, `MCQueries` | detailed | transactions, visitors, query, search, lookups |
| `QueriesProofs` | proofs | its theorems |
| `MCFilters` | checked | the two below, one at a time |
| `Filters` | detailed | fields of a filter, setters |
| `FilterMemory` | detailed | ownership of buffers and closures |
| `FilterProofs` | proofs | the theorems of both |
| `Lifecycle` | detailed | open, clone, call back, transactions, close |
| `LifecycleProofs` | proofs | its theorems |
| `Nip10` | algorithm | the scan of `NoteReply::new`, `to_owned`, `borrow` |
| `Nip10Proofs` | proofs | its theorems |
| `Metadata` | detailed | metadata builder, `entry_at`, iterator |
| `MetadataProofs` | proofs | its theorems |
| `Notes` | detailed | ownership of notes and what points into them; the note builder |
| `NotesProofs` | proofs | its theorems |
| `MCNotes` | checked | `Notes`, `Nip10` and `Metadata`, one at a time |

### Subscriptions and NoteFeed

`Subscriptions` has one action per critical section. `pc[t]` is where stream
`t` is: `idle` between polls, `first` after poll_next has found `done` unset,
`store` when its first C poll found nothing, `second` when the waker is stored,
`parked` when it returned `Pending`, `ended` when it returned `None`,
`dropUnsub` and `dropMark` inside `Drop`. `entries`, `done` and `waker` are the
`SubMap`. `wpc` is the writer: `notify` when it holds the monitor, `pushed`
when it has pushed a note for `cur` and not called back yet, `callback` while
the application's callback runs under both mutexes. `unsubbing` holds the ids
for which an `unsubscribe` is between its two sections; it is a set because a
second call of the same kind changes nothing that the first does not.
`delivered` is a history: what consumers of the subscription received.

| code | action |
|---|---|
| `Ndb::subscribe` | `Subscribe` |
| `Ndb::unsubscribe`: `ndb_unsubscribe`, then the map | `Unsubscribe`, `UnsubscribeMark` |
| `poll_next` up to the first unlock | `PollStart` |
| its first `poll_for_notes` | `FirstPoll` |
| the waker's storing | `StoreWaker` |
| its second `poll_for_notes` | `SecondPoll` |
| `Drop`: remove the entry; unsubscribe, in two steps | `DropRemove`, `DropUnsubscribe`, `DropMark` |
| the writer (C) | `WriterBegin`, `PushNote`, `WriterEnd` |
| the closure of `Ndb::new` | `Callback`, `CallbackReturn` |

`NoteFeed` knows no polls, wakers, locks or callbacks: a subscription has a
feed, a waiting stream gets the next stretch of it, a stream ends only when its
subscription is closed. `ImplementsFeed` is the refinement: `phase` is
`PhaseOf(pc)`, `open` is `live`, `got` is `delivered`.

Abstractions: notes are numbered per subscription, so order and loss are
visible and content is not. A stream stays with one task, so a waker is the
name of its stream. What C does is taken from how the code uses it and is in
few places: ids are fresh, the inbox is a queue, the monitor's mutex is held
from the first push to the last callback of a write, polling an id that C does
not know gives nothing. Whether `ndb_poll_for_notes` takes the monitor's mutex
cannot be seen from here: it is the constant `PollTakesMonitorLock`, TRUE in
`subs`, where it could deadlock. FALSE allows more interleavings, and the
theorems hold for both. The application's own callback and the executor's
wakers do not call back into the `Ndb`: they run under both locks.

### WaitForNotes

An async call owns a stream of `NoteFeed`; `Start` is its first poll, `Receive`
an await that returned notes, `ReturnOk`, `ReturnErr` and `Cancel` the ways
out, and `DropStream` the drop of the stream, which closes the subscription.
It composes with the abstract feed rather than with `Subscriptions`: the run
`subs` shows, and `RefinesFeed` proves for the safety part, that the feed
is what the streams implement.

### Queries

A filter list is the set of notes it matches, a closure the set of notes it is
true of. `BeginVisit`, `Visit`, `VisitOk` and `ReadErr` are the FFI visitor call
by call; `Fold` holds the closures that `count`, `all`, `any` and `find_map` pass
on. `AnswersAreRight` compares every `Ok` with a reference defined on the whole
snapshot. LMDB's isolation is external: a read sees the snapshot its
transaction began with. `Kept` is what a filter or closure keeps of a sequence
of notes, after each of them; `search_profile` collects its keys one by one with
`AddKey`, and its answer is compared with `Kept`. A lookup by id or key (`Get`) is one call into C with a
transaction: what it finds is the note of the snapshot with that id, or nothing
(a null pointer or the key 0, `Err(NotFound)`). There is one reader in the run:
readers share nothing with each other but the database, and every call is one
of `Calls`.

### Filters and FilterMemory

`Filters` has the fields with their elements, the open field, and the room in
the buffer. The low-level calls that return an `Err` are actions that are not
enabled; the chained methods, which unwrap it, panic. `Put` and `CopyFrom` are
`FilterBuilder::since` and its siblings and `Filter::copy_from`; `Copies` is
what its loop has copied after each field, and `ReadOthers` the same loop for a
reader who passes over one more type. Which calls
`ndb_filter_*` accepts is external: one field of each type but tags, elements
that suit it and are of one kind, room in the buffer. Elements are not sorted
as C does when a field ends: nothing here depends on it.

`FilterMemory` counts: `bufFrees` and `boxFrees` say how often each allocation
was freed, `arc` which `Arc` a filter has, `calls` which closures the C
elements point to. A builder is built once, as every chain of methods does.

### Lifecycle

`Ndb::new`'s retry loop first; then threads that clone, call into C, lock the
map, and drop, while the writer calls back. `Destroy` waits for the writer to
be idle: `ndb_destroy` joins it. The tests of the repository reopen databases
right after a drop, which relies on that. `CallC` is a call of a method, which
needs a clone. A transaction does not: `BeginTxn` borrows a clone, and `EndTxn`
enters C whether or not one is left, on the thread that began, since
`Transaction` is not `Send`. `ClonesKeepOpen` is therefore about clones only;
`TransactionsFindDatabase`, which covers the rest, fails. What C does with a
transaction of a destroyed database is undefined, and the model goes on as if
nothing had happened. Sizes are small numbers; the minimum
of 512 MB is the constant `MinMapSize`.

### Nip10

A tag is what the code looks at: how many strings it has, whether the first is
"e", the id in the second, the relay in the third, the marker in the fourth.
`Scan` is one turn of the loop in `NoteReply::new`; `Takes` is its nest of
conditions, read off per role. `IsRoleIn` says what the roles among the first
`n` tags are, by markers and positions, without flags or order of evaluation:
`RolesAreRight` compares the two, and that the early end loses nothing.
`BorrowReply` gives `NoteReplyBuf::borrow` the tags of the same note or of another;
`Lookup` is one turn of its loop. The loop's filter lets tags pass that `new`
does not look at, and reads past the end of tags with fewer than two strings:
what it reads there is any value (`IdRead`, `LookedAt`).

### Metadata

Sizes are in units of 16 bytes, which entry and header have in common. `cap` and
`len` are the `Vec`, `pos` and `end` C's cursor, `count` the `u16` in the header,
which wraps at `CountBound`. `Vec` may allocate more than asked (`Slack`).
`with_capacity(0)` is a case of its own: the allocation is empty, C cannot place
its header there, and nothing looks at what it answers. Without the header the
`Vec` is found short at the first entry, reallocates and tells C
(`HasHeader`, `IsShort`). Building it then is undefined (`BuildUndefined`): the
bytes of an entry, or of nothing, are read as the header.
`ndb_note_meta_build` sorts the entries: `BuildMetadata` takes any order. An entry is its
type: the counters and strings of an entry are written and read by one C call
each. What C checks is taken from how `add_entry` uses it: it answers null when
its cursor has no room.

### Notes

A handle is any Rust value that owns or points into a note: `Note`, `Tags`,
`TagsIter`, `Tag`, `NdbStr`, `NoteRelays`, `BlockIter`, `Block`, `NoteBuilder`, or
a plain reference that an accessor returned. Each allocates one block at most,
which is named after it. `own` is the block that dropping it frees, `mem` the
block its pointer leads to, `sources` the handles it came from, from one to the
next, `frees` how often a block was freed. `Clone` of an owned note is a copy,
of any other the same pointer; a derived clone of the rest copies the raw
pointer too, which is how it comes to point behind another handle. An action
that reads through a pointer requires it to be intact: what happens otherwise is
undefined, and `DanglesOnlyBehindSource` says when it can come to that. Two
more owners of what C allocates are in the same module: the database cursor of
`NoteRelays`, which is opened for notes with a key and closed by `Drop`, and the
slot of a `BlockIter`, to which every `Block` of it points.

The builder's fields are `building`, with what was asked of it last as history.
`Build` gives its buffer to the note, in place or moved, as `realloc` may.

## Runs

| run | module, configuration | what it shows |
|---|---|---|
| `subs` | `Subscriptions`, `MCSubs` | one subscription, two streams one after the other, three notes, batches of 1 or 2, either flag: no lost wakeup, no early or revoked end, no orphan entry, notes in order; every call returns, and `NoteFeed` is implemented, fairness included |
| `subs_kills` | `Subscriptions`, `MCSubs_kills` | violation: unsubscribing does not end a stream that awaits, or that never slept |
| `wait` | `WaitForNotes`, `MCWait` | two calls of either kind, counts 0 to 3, three notes: each note to one call, `Ok` means enough, calls return |
| `wait_exact` | `WaitForNotes`, `MCWait_exact` | violation: `wait_for_all_notes(2)` returns three notes |
| `queries` | `MCQueries`, `MCQueries` | all reads over three notes, all matches and closures, limits 0 to 2: answers, short circuits, cursors |
| `filters` | `MCFilters`, `MCFilters` | `Filters`: up to four fields in buffers of 2, 3 and 5 elements with a default of 3: getters, setters, panics. `FilterMemory`: five handles, two closures: no double free, no early free, no leak but the known ones |
| `filter_relays` | `Filters`, `MCFilters_relays` | violation: setters panic on filters with relays |
| `filter_sub` | `FilterMemory`, `MCFilterMemory_sub` | violation: a subscription outlives its filter's closure |
| `lifecycle` | `Lifecycle`, `MCLifecycle` | four sizes against six limits, three threads: clones keep the database open, close completes, open finds the size |
| `lifecycle_txn` | `Lifecycle`, `MCLifecycle_txn` | violation: a transaction outlives the database |
| `notes` | `MCNotes`, `MCNotes` | `Notes`: five handles of one note or builder: frees, dangling pointers, leaks; what the builder builds. `Nip10`: every note of up to four tags of eight kinds: roles, indices, the round trip. `Metadata`: capacities 0 to 5, a count that wraps at 4, known and unknown types: bounds of the buffer and of `entry_at`, iteration |
| `metadata_capacity` | `Metadata`, `MCMetadata_capacity` | violation: a builder panics at the last entry it was made for |

A type invariant that a theorem proves is not always repeated in a run:
`Nip10TypeOK`, `RolesSoFar`, `MetaTypeOK`, `LifecycleTypeOK` and `WaitTypeOK` hold
by their theorems.

Why the bounds are enough to be of use. The races of poll_next need one note
and one stream; two notes and a second stream add the wakeup that is already
pending, the entry that a predecessor left, and batches. With three notes and
batches of two, a batch may be cut short. That ids do not disturb each other,
with two subscriptions or more, is left to the theorems, which hold for any
number: the liveness properties of two are too many states. In `wait`, three
notes against counts up to three have the batch that overshoots. In `queries`,
three notes have a first, a middle and a last decisive note, and more hits than
limits. Four fields are a copy with one field set and others on both sides.
Five handles are a builder, its filter, a clone, a copy by setter, and another
builder. Four tags are three roles and a tag that comes after them, or two
unmarked ones on either side of a marked one. Capacities are 0, 1, where the
header takes all, and up to 5, where the four entries that fit are as many as
the count of the run can wrap at; five entries (`MaxEntries`) are one more than
that, which only a builder without a header takes. The modules that `filters`
and `notes` cover have no variable in common, so that what they could do at the
same time would show nothing more. In `notes`, five handles of one origin
(`OneOrigin`, in `MCNotes`) are the chain note, `Tags`, `TagsIter`, `Tag`, string:
handles of different origins have no block in common, which `NotesProofs`
covers as it does any number of handles. One builder is in use at a time, and
its fields are set while nothing else lives: they touch nothing else. What is
proved does not depend on the bounds of a run.

### Fairness

In `Subscriptions`: a thread inside a call goes on with it, a write that began
is finished, and an executor polls a task whose waker fired. Subscribing,
awaiting, dropping and writing are not fair. Weak fairness suffices for the
steps that need a mutex since the writer takes it for finitely many writes
(`MaxNotes`); with writes without end, a mutex that starves nobody would have
to be assumed. In `NoteFeed`, a waiting stream with notes is served. In
`Lifecycle`: calls, critical sections and callbacks end, and the writer, idle
again and again, is joined (strong fairness of `Destroy`: finitely many writes
are queued before the quit message). Threads need not drop their
clones, nor end their transactions.

## Theorems

`SubscriptionsProofs` proves, for any sets of subscriptions and streams, any
batch sizes and any number of notes, from `SubscriptionsAssumption` alone:

| theorem | about |
|---|---|
| `TypeCorrect` | `TypeOK` |
| `EndIsNoFalseAlarm` | a stream ends only when C has forgotten the id |
| `NoEntryLeaks` | an entry has a stream that can still poll it |
| `FeedOrder` | consumers get a prefix of the feed, the rest is in the inbox |
| `NoWakeupIsLost` | no sleeper over a full inbox, unless it is about to be woken |
| `EndIsFinal` | after `None` a stream is only dropped |
| `RefinesFeed` | the safety part of `NoteFeed` is implemented |

The argument. `TypeOK` is inductive. `EndedOnlyIfUnsubscribed` is not: an
ended stream must know why it ended. `SafeInv` adds that a done mark, an
unsubscribe under way or a drop that has told C means the id is no longer
live, that closed ids have empty inboxes, that the writer notifies live ids
only, and that ids not yet handed out are blank; it is inductive with `TypeOK`,
whether or not streams share an id. `NoLostWakeup` needs `WakeInv`: the waker in
an entry is the one of the only stream of the id from the moment it is stored
until it is notified. That holds only when no two streams in use share an id,
so `NoWakeupIsLost`, `EndIsFinal` and `RefinesFeed` assume `~SharedSubs`: a
second stream overwrites the waker of the first (`future.rs` 117), and
dropping it removes the entry of both. `FeedOrder` is its own induction over
the inbox and what was delivered, and holds for shared ids too: this is how
the project covers streams that share an id. `RefinesFeed` maps each action to
one of `NoteFeed` or to a stutter, using all of the above: `FeedOrder` for the
notes of a delivery, `SafeInv` for an end.

`FilterProofs` proves about `Filters`, for any elements, field types,
capacities and number of fields, from `FiltersAssumption` alone (the types are
those of the code, the capacities are numbers):

| theorem | about |
|---|---|
| `FieldTypesCorrect` | `FilterTypeOK`: fields hold what suits them, and only tags occur twice |
| `GettersReadWhatWasSet` | `GettersAgree` |
| `SettersKeepOthers` | `SettersKeepTheRest`, in every step |
| `SettersDoNotPanic` | `SettersNeverPanic`, in every step |

`FilterTypeOK` is not inductive: it says nothing of the field being filled. And
`GettersAgree` is not: a number that is read first among others would be lost
to the getters as soon as the filter is copied, or would not be overwritten.
`FieldInv` adds that the open field is sound and may be ended beside the
finished ones, and that what was asked for is all that a field of the type
holds. Its steps are two: a finished field is added (`GrowKeeps`), or one is
set, in the fields or in a copy of them (`SetKeeps`, from `PutSets`). For a
copy, the lemmas say what the loop of `copy_from` does to every sequence of
fields: it has the fields that are not omitted and no others and needs no more
room (`CopyHolds`), is as sound as the filter (`SoundCopy`), and a copy of a
copy reads as a copy (`CopyTwice`), which is why copying does not disturb what
is read of the rest. They are inductions over the fields (`SeqInduction`).

About `FilterMemory` it proves, for any number of handles (finitely many) and
closures and for builders that are built once:

| theorem | about |
|---|---|
| `MemoryTypeCorrect` | `MemoryTypeOK` |
| `NothingFreedTwice` | no buffer and no closure is freed twice |
| `FiltersStayIntact` | what a live filter uses has not been freed |
| `NoOtherLeaks` | closures leak only with builders |

`BufferInv` says that owners have buffers of their own which are not freed, and
that a handle not yet made is blank. `BoxInv` says that two owners of a closure
are filters with one `Arc`, that filters with one `Arc` own the same closure,
and that a closure whose builder lost it has no owner. `CountIsOne` ties
`Arc::strong_count` to them: a count of one means no other owner, which makes the
free in `Drop` safe, and any other count leaves one, which makes skipping it
safe.

`QueriesProofs` proves, for any number of readers and notes, any matches,
closures and limits:

| theorem | about |
|---|---|
| `AnswersAreRightAlways` | `AnswersAreRight`: every `Ok` is the snapshot's answer |
| `ShortCircuitsAlways` | `ShortCircuits` |
| `CursorInCallAlways` | `CursorInCall` |
| `QueryTypes` | `QueryTypeOK`, with it that `expect("accumulator missing")` never fires |

None of them is inductive, since all say what holds at the end of a read.
`QueriesInv` says where a read in progress is: a visitor that handed over `p`
notes met no decisive note before the `p`-th, has stopped exactly if the `p`-th
is one, and its accumulator has what the first `p` notes say (`VisitState`); a
search that looked at `p` hits has collected those `Kept` by its filter
(`SearchState`); and a snapshot stays what it was while the database grows
(`Snapshot`). The lemmas `FirstVisitState`, `NextVisitState` and
`LastVisitState`, and the same for a search, are about sequences only; the
steps of the model apply them. `OneReader` reduces each step to the reader that
takes it. `KeptIsShort` and `KeptDef` are inductions over the notes.

`LifecycleProofs` proves, for any number of threads, sizes and limits,
`LifecycleTypeCorrect`, `CloneKeepsDatabaseOpen` (`ClonesKeepOpen`) and
`WriterFindsBox`. `LifeInv` says that whoever holds a clone, or has begun to
destroy the database, has it running with its writer and box, and that a thread
that closes it is the only one, with no clone left beside it. Of transactions
nothing is proved but their types: what one would want is the finding.
`OpensWhenItCan` (`OpensIfItCan`) is about the retry loop: `OpenInv` says that the
sizes the configured one allows are those tried, which were all too large, and
those the size about to be tried allows; that halving stays below what is
halved (`HalvesAreSmaller`) makes the first size that fits the largest.

`WaitForNotesProofs` proves, for any calls, subscriptions, counts and feeds,
`WaitTypeCorrect`, `NotesAreShared` (`EachNoteToOneCall`) and `EnoughIsReturned`
(`OkMeansEnough`). `CallInv` ties a running call to its attached stream, alone on
its subscription. `ShareInv` says that what a running call has ends where its
subscription stands and that the stretches of all calls are disjoint and leave
no gap; so the next batch, which begins there, extends one stretch and meets no
other (`ShareReceive`). `EnoughInv` says that a call awaits only while it wants
more, and so exceeds its count by one batch at most. The lemma `Received` has
what an await changes, element by element, for all three.

`Nip10Proofs` proves, for notes of any length and for whatever `borrow` is given:

| theorem | about |
|---|---|
| `Nip10TypeCorrect` | `Nip10TypeOK` |
| `RolesSoFarHold` | after every tag, the locals are the roles of the tags so far |
| `RolesRight` | `RolesAreRight`: what `new` answers, early end included; the accessors |
| `OneRole` | `OneRolePerTag` |
| `RoundTripHolds` | `RoundTrip` |

`FoundInv` ties every role found to its tag; `ScanInv` says what `first` and
`anyMarker` mean and that the roles so far are `IsRoleIn` of the tags so far, and
that fewer tags would not have been enough. `BackInv` does for the second scan
what `FoundInv` does for the first, with `OneRole` to tell the indices apart.

`MetadataProofs` proves, for any capacities, 0 included, and any slack and count
bound:

| theorem | about |
|---|---|
| `MetaTypeCorrect` | `MetaTypeOK` |
| `BuilderStaysWithin` | `WithinBuffer`: nothing is written beyond the allocation; the length of a `Vec` built without a header, which is undefined, is excepted |
| `CapacityIsOneShort` | `HoldsOneLess`: for every capacity but 0, the finding of `metadata_capacity` |
| `EntryAtStaysWithin` | `EntryAtInBounds` |
| `IterationIsComplete` | `IterationComplete` |

`BuilderInv` says that the cursor is one header ahead of the `Vec`'s length, or
none if there is no header. With a header, the cursor is full before the `Vec`
is ever short of room, and the panic at the last entry follows; without, the
`Vec` is short when it is full, and moving it moves the cursor's end to where
the next entry fits. `BeginBuilder` and `AddEntryKeepsBuilder` are these two
steps of the argument; reading leaves
all of it alone (`ReadsLeaveBuilder`). `IterInv` says
that the built entries are those added, in some order, and that an iteration
has yielded the first of them; an order of as many entries as there are is onto
(`InjectionIsOnto`), so each variant is counted as often (`SameCounts`).

`NotesProofs` proves, for any number of handles:

| theorem | about |
|---|---|
| `NotesTypeCorrect` | `NotesTypeOK`, which says that nothing is freed twice |
| `OwnersStayAlone` | `OwnersAreAlone` |
| `NothingEverLeaks` | `NothingLeaks` |
| `DanglingIsBehind` | `DanglesOnlyBehindSource` |
| `BuildersObey` | `BuildsAsAsked` |

`GraphInv` has the first properties themselves, that a handle not yet made is
blank and nobody's source, that sources are transitive, that the block of a
dropped owner is freed, and that a pointer leads to a handle's own block, to
lent memory, or to the block of one of its sources; it is inductive with
`NotesTypeOK`. `AskedInv` says which fields the last call left.

How induction is had here. The library's induction theorems take an operator,
which the provers cannot instantiate; its theorem that a well-founded relation
has minimal elements (`WFMin`) takes a set. So an induction is stated for a set
that has 0 and, with a number, the next (`SetInduction` in `QueriesProofs`,
`UpTo` in `FilterProofs`), and applied to the set of those for which the claim
holds. Recursive functions are shown to satisfy their equations in the same way
(`KeptDef`, `CopiesDef`, `UsedByDef`, `HalvesDef`). This is why the modules that
theorems are about have recursive functions where a fold of the library or
`SelectSeq` would do, and name them at the top.

Every invariant a theorem rests on was also checked by TLC, with the constants of
the run that covers its module. With TLC only: the liveness properties of `Subscriptions`,
of `WaitForNotes` and of `Lifecycle`, and the liveness part of `ImplementsFeed`.
Liveness under fairness and `ENABLED` are out of the prover's reach. Every
invariant of a run that is expected to pass has a theorem.

## Where code and text disagree

Each is a run that finds the violation and an entry under "findings":

1. `subs_kills`: two tests "ensure that unsubscribing kills the stream". But
   `unsubscribe` marks the entry and wakes nobody, so that a task that awaits
   never learns of it; and a stream that has never slept has no entry to mark,
   so that the next `next()` sleeps for ever. The test `test_stream` (`ndb.rs`
   1400-1402) passes only when its first poll comes before the note does.
2. `filter_relays`: `FilterStrElements::get` asserts that strings are ids.
3. `filter_sub`: nothing keeps a subscribed filter's closure alive.
4. `wait_exact`: `wait_for_all_notes` returns "exactly" `num_notes` by its
   comment, and up to `num_notes - 1` more by its code. What holds is
   `OkMeansEnough`, which is proved.
5. `metadata_capacity`: `add_entry` "may reallocate the internal buffer if more
   space is needed" (`metadata.rs` 450), and capacities are "in number of entries"
   (477). A builder of capacity `n` panics at its `n`-th entry and never
   reallocates, since it forgets the header when it compares. `HoldsOneLess`
   says so for every `n` but 0, and is proved.
6. `lifecycle_txn`: transactional notes are tied to a transaction "to ensure no
   reading of data outside of a transaction" (`note.rs` 62-64), but the
   transaction is not tied to its `Ndb`: dropping the last clone first destroys
   the database under both, and `Transaction`'s `Drop` ends a transaction of it.

More were met and have no run of their own:

- `unsubscribe_on_drop` is never read, so `Drop` always unsubscribes:
  `DropUnsubscribe` is enabled whatever `onDrop[t]` is, and `subs` has both values.
- Two streams of one id share one entry: the second to wait replaces the waker of
  the first, which then sleeps over its notes (`future.rs` 117). And a second
  wait on an id that an earlier wait has closed starves (`ndb.rs` 593).
- `NoteMetadataBuilder::with_capacity(0).build()` reads a header that is not
  there, and sets the `Vec`'s length by it: `BuildUndefined`.
- `FilterBuilder::build` and `NoteBuilder::build` take `&mut self`, and a second
  call shares what the first handed over: two `Arc`s of one closure and two
  owners of the same buffers (`filter.rs` 704), a note in memory that the first
  one owns or `realloc` gave up (`note.rs` 566). The models build once, as all
  chains of methods do, and the invariants `BufferInv` and `GraphInv` need it.
- `entry_at` without entries computes `0 - 1` in `u16`; 65536 entries make the
  count 0; an invalid secret key makes `build` return a note without a signature;
  setters that copy a filter lose its custom predicate, and panic if the copy
  does not fit the default buffer. The properties nearest to these except them,
  and PROJECT.json lists no property for them.
- Tags of owned notes, the references of a `NoteReply` to them and the blocks of
  an owned note's content outlive what they point into. `DanglesOnlyBehindSource`
  says behind what, not that they do not dangle.

Smaller ones, of a single call each, are outside of the models: a waker whose
drop calls back runs under the map's lock (`future.rs` 63); `notes_per_await(0)`
and counts beyond an `i32` (`future.rs` 43); a negative `max_results` panics
(`ndb.rs` 505); a failed open leaks the callback's box (`ndb.rs` 120), and a
copied `Config` opens two databases with one `FnMut` (`config.rs` 3); an iterator
of relays whose start fails (`relay.rs` 42); a filter that `from_json` gives up
leaks its buffers (`filter.rs` 242); the results of C for content and tags are
ignored (`note.rs` 443).

## Plan

1. A composition of `Lifecycle` with the streams, whose clones keep the database
   open.
2. Owned blocks, if the code gets them: `Blocks` are lent by a transaction today.

## Not modelled, and why

The C library: storage, indexes, signatures, matching and JSON are not in the
repository. Ingestion calls hand one string to C and report the result; what
they set off is the writer of `Subscriptions` and `Store` of `Queries`. Custom
predicates are only allocations here: what they compute is the application's.
What accessors of notes, tags, metadata and blocks read, `Debug` and JSON output,
the dispatch on block and bech32 types, the raw pointer accessors, and the
configuration setters that only store a value are data without control, and
left out.

`bindings_posix.rs`, `bindings_win.rs` and `ndb_profile.rs` are generated, by
bindgen and flatc: 14,571 of the 21,412 lines of `src/src`. They declare what C
and the flatbuffer schema have and decide nothing, so no definition here stands
for a line of them. Of the others, many are tests, documentation and
declarations. The share of lines that definitions stand for is measured against
all of it, and cannot come near what it is of the code that decides things.
