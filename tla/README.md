# Models and proofs of bx-sync

bx-sync copies contacts, projects, invoices and many smaller lists from Bexio
into MySQL, continuously, and deletes the rows of what Bexio no longer has. This
directory holds TLA+ modules of its concurrent and failure-prone parts, the TLC
configurations that check them on small instances, and proofs that TLAPS checks
for every instance. `PROJECT.json` lists, for each definition, the lines of the
code it models.

## The system

| Part | State it keeps | Operations | Talks to |
|---|---|---|---|
| sync chain (`bx_chain.c`, `bx_chain_db.c`) | cursor (phase, offset), two "started at offset 0" flags, the row `sync-chain` | `bx_chain_init`, `bx_chain_sync`, checkpoint, advance, finish, fail | page walk, item sync, `_configuration` |
| page walk (`bx_walk.c`) | none between calls | one list, page by page, with a callback per item and per page | request queue |
| id cache (`bx_ids_cache.c`) | per resource: version, and per id checksum and `last_seen` (0 is a tombstone) | check, set, tombstone, prune, iterate prunable, next version | item sync, prune |
| prune (`bx_prune.c`) | prepared DELETE per resource | delete the rows of ids not seen for `prune-drift` versions; fill a cache at the start | id cache, MySQL |
| item sync (`contact.c`, `project.c`, `invoice.c`, `position.c`) | none | decode, compare with the cache, check references, INSERT or UPDATE, sub-objects | id cache, MySQL, request queue |
| chain thread and other data threads (`main.c`) | connection, prepared statements, error counter | loop, error handling, reconnection, exit | everything above |
| request queue (`bx_net.c`, `bx_utils.c`) | lists `in` and `out`, `run`, `standby`, two mutexes and conditions | add, get finished, cancel, destroy; one worker thread | data threads, HTTP |
| OAuth tokens (`bx_oauth.c`) | tokens in memory, `tokens_dirty`, lock connection; three rows of `_configuration` shared with bx-proxy | startup, ensure, reload, refresh, login | MariaDB named lock, Bexio |
| records and lookups (`sync_more.c`, `bx_upsert.c`, `bx_named_list.c`, `position.c`, `user.c`, `taxes.c`, ...) | none between rounds | many lists, each item with its lines, positions and comments | page walk, MySQL |
| files (`file.c`) | id cache, blobs in a directory, prepared DELETE | walk, row, download to a part file, rename, prune | page walk, MySQL, disk |
| contact sectors (`contact_sector.c`) | mark `_deleted` of a row | read the list, store, mark what is gone | request queue, MySQL |
| configuration (`bx_conf.c`) | typed settings in memory, the table `_configuration` | load the file, load the rows over it, read, write a row | MySQL |
| MySQL layer, HTTP client, decoding, logging | statements, curl handle and rate limits, log queue | | |

What makes it hard:

- the cursor, the rows, the caches and Bexio change at different moments, and a
  failure or a restart may fall between any two of them;
- a prune decides by what was *not* seen, while pages shift under the walk;
- the caches must agree with a database that has foreign keys of its own
  (RESTRICT and CASCADE);
- threads, the worker and a stop of the process meet on two lists and two
  conditions;
- two processes and an operator share refresh tokens that work once.

What makes each part correct:

- *chain*: no page is stepped over; nothing Bexio still has is deleted; deleted
  ids lose their rows and live ids get one in the end; what a cache holds has a row;
- *queue*: every request is in one place, answers reach their thread, nobody
  sleeps for ever, requests are taken in order, a standby and a stop come to an end;
- *records, files, sectors*: one list that fails does not hide the others; what
  Bexio has is stored in the end, parts included; a blob is never seen half
  written; nothing is pruned or marked by a walk that did not see everything;
- *settings*: a restart resumes where the rows say, whatever failed to be saved;
- *id cache*: the sorted array is the map its users take it for;
- *pace*: the worker follows the limits Bexio announces;
- *OAuth*: a refresh token is posted once and only when needed, tokens that could
  not be saved are saved later, newer tokens are not overwritten.

## Modules

| Module | Models |
|---|---|
| `SyncChain` | the chain thread with Bexio, the rows, the caches, the cursor and its row |
| `Mirror` | what the copy of one resource promises, without phases, pages, caches or restarts |
| `SyncChainProofs` | the theorems about `SyncChain` |
| `RequestQueue` | the data threads, the worker and the main thread around the two lists |
| `RequestQueueProofs` | the theorems about `RequestQueue` |
| `OAuthRefresh` | bx-sync, bx-proxy and a login around the token rows |
| `OAuthRefreshProofs` | the theorems about `OAuthRefresh` |
| `Records` | the lookups of the start, the rounds of `random_item_thread`, and the items of `chain_thread` with the rows that hang on them |
| `RecordsProofs` | the theorems about `Records` |
| `Files` | `file_thread`: rows, blobs, cache and prune of files |
| `FilesProofs` | the theorems about `Files` |
| `Sectors` | `contact_sector_thread`: rows and their marks |
| `SectorsProofs` | the theorems about `Sectors` |
| `Settings` | the file, the rows over it, and the cursor's text |
| `SettingsProofs` | the theorems about `Settings` |
| `IdsCache` | the sorted array of an id cache, with an iteration under way |
| `IdMap` | what an id cache promises; `IdsCache` implements it |
| `Pacing` | the rate-limit figures and the sleep of the worker |
| `MCSyncChain`, `MCRequestQueue`, `MCOAuthRefresh`, `MCParts` | values of the constants for TLC; `MCParts` runs one of the last six components at a time |

### SyncChain

`pc` is where the thread is: `top` of the loop of `chain_thread`, `walk` (a page
is to be fetched), `items` (an answer is at hand and `page` holds what is left of
it), `checkpoint` (its items are done, the cursor is to be saved),
`missed` (`invoice_fetch_missed`), `prune` (`bx_prune_items`), `handle`
(`thread_handle_error` and the versions), `exited`, and `down` between two
processes. Variables have the names of the code: `cursor`, `contact_from_zero`,
`invoice_from_zero` and `from_zero` of `bx_chain.c`, `version` and `seen`
(`last_seen`, or -1 for an id that is not held) of the caches, `stored` for the
row `sync-chain`, `table` for the ids with a row, `remote` for Bexio.

A page is fetched (`FetchPage`) and its items are then worked through one at a
time (`ItemSynced`), in the order of the answer, while Bexio changes behind it: a
row may be stored for an id that is gone by then. An item may be passed over
(`ItemSkipped`), or stop the page with the earlier items stored (`ItemFails`). The
GET of an invoice's full form belongs to the step of the item; when the invoice
is gone it brings an error body, and the item is passed over. Each save of the
cursor is a step, and may fail with the row written or not. Each DELETE of a
prune is a step, and each GET of the missed pass. Bexio creates and removes ids
between any two steps.

`stmt` says whether the prune statements belong to the thread's handle. After a
reconnection the thread prepares them anew only when the new handle has another
address than the freed one (`main.c:408`). The allocator may give the same
address at any reconnection, so `HandleReconnect` chooses freely each time; with
the same address the statements are `stale`, each prune fails with
`ErrorSQLReconnect`, and that may go on for ever.

`Mirror` says what the copy of the invoices promises. `Answer` is a list answer
with ids Bexio has at that moment, `Store` stores ids of the answer at hand whose
project has a row (Bexio may have deleted them meanwhile), and a row leaves only
once Bexio deleted its id, or with its project.

Left out here: the content of rows, checksums and updates, sub-objects (`Records`
has them), the cursor's text (`Settings`), the array behind a cache (`IdsCache`),
memory exhaustion. An error body that is taken for an invoice (`invoice.c:244`)
leads at most to a row and a cached id 0, which no list has: left out here, in
`IdsCache` it is the id that is inserted under an iteration. A list page is ordered by id; the code asks for that order only for
invoices (`order_by=id`), for contacts and projects it is an assumption about
Bexio. A stop of the process is a `Crash`: its memory is lost in the same way. At
most one cache fails to load per start.

### RequestQueue

A data thread goes `top`, `standby`, `call`, `scan` (looks at `out` under its
mutex), `wait` (on `out_cond`), `end` of a round. The worker goes `top`, `wait`
(on `in_cond`), `woken`, `fetch`, `put`, and at the end `quit`, `cancelled`,
`done`. `in_mutex` is a variable because the worker leaves with it held; every
other critical section is one action. The test of `run` and the wait of the worker are one
step: `main` sleeps 5 seconds between clearing `run` and signalling.
Answers are "ok", "busy" (429, 500, 503) or "lost"; only their effect on the two
standby flags is kept.

### OAuthRefresh

Tokens are numbered in the order Bexio issues them. `bx_oauth_ensure` goes
`idle`, `lock`, `locked`, `post`, `write`. The lock belongs to a connection:
`LoseConn` releases it while the process goes on. `Write` is the transaction;
`WriteFails` includes the COMMIT whose answer is lost. A login is a process that
takes the lock, posts a code and writes. bx-proxy, which is not in this
repository, runs the same file and calls `bx_oauth_reload` before each ensure.
`strayed` records that issued tokens were surely saved by nobody or that the
lock was lost; the code cannot prevent a second post then, and says so in its design
notes.

### Records, Files, Sectors

The content of a row is a version number and a checksum tells versions apart,
so "stored with the content of now" can be said. In `Records` a key is an item
of a list or something that hangs on it (a position, a line, a comment, a link,
a payment). `plan` is what is still to be done with the item at hand, in the
order of its function; the storing functions are the records `upsert_named`,
`bx_json_upsert`, `persist_position` and so on, which differ only in what a
failure (`failed`) and a warning of the statement (`ignored`: a foreign key or
a duplicate that INSERT IGNORE passes over) do to the item. `Programs` is the
order in which main and the threads walk their lists, `GroupEnds` says where the
lists end that one function walks. A key may name a unit by
a foreign key, and units are only read at the start of the process, as in the code.

`behind` marks invoices that a restart takes for complete because their row is
there. `InvoicePositionsStored` excepts them, and new invoices whose row was
stored and whose positions failed: the INSERT IGNORE of the next round warns,
and the positions are not tried again (`invoice.c:301`, `:389`, `:410`).

In `Files` each step of a download is an action: the part file is opened and
written, closed (its result is not looked at, `file.c:181`), renamed. A page is
asked for by offset while Bexio changes, so a file may be skipped or shown
twice. `staleQuery` says that the DELETE belongs to a handle that was closed
and whose address the new one has (`main.c:293`). An INSERT, UPDATE or DELETE
may have been executed although its answer was lost; `unsure` remembers the ids
for which this happened, since the cache and the table may then differ until
the file is written again. `FileRestart` reads the cache from `bx_file`, or goes
on with an empty cache when that SELECT fails (`main.c:265`): the rows that are
there are then `unsure` too. One whose file Bexio still lists is stored and
cached again; one whose file is gone stays until the next start. `StartThread` of
`Records` and `Start` of `SyncChain` have the same failure.

In `Sectors` the statements of one answer are steps of their own: the rows in
the order of the list, then the mark of each row that was not listed. Each may
fail, or be executed without an answer. The UPDATE that marks is prepared even
when nothing is to be marked, so a failure is possible there too. A body that is not a list counts as an empty list
(`contact_sector.c:66`), which marks every row; the next good answer does not
clear the mark of a sector whose checksum is the same, which run `sector_back` shows.

### Settings, IdsCache, Pacing

`Settings` starts a process from the file and the rows, moves the chain's
cursor as `checkpoint` and `advance_phase` do, and lets each save fail with the
row written or not, or for want of memory. Names, types and aliases of types are those of
`apply_database_row`; a text is a tuple, since only its parse matters. Initial tables are empty
or hold the three rows of the previous version for any cursor. `SettingsAssumption`
says what the code takes for granted of the settings it reads without a look at
their type: `mysql-host` is a string, `prune-drift` an integer in the range of
int, and the file does not hold the chain's own rows.

`IdsCache` keeps `items` in the order the code's insertions give them, with the
search by halves as a function. Calls are those a walk, the missed pass and a
prune make: the missed pass may set the id it was given, or the id 0, while it
iterates by index. `IdMap` has no order and no index; an iteration owes the
ids that were stale when it began (`due`) until they are given, seen or buried.

`Pacing` computes the average of `bx_net.c` exactly and cuts it where the code
casts to int; the rounding of float is left out. A division by 0 gives
infinity, whose cast is out of bounds on the targets of the build, and the code
then takes its default. `request_count` stops at `MaxCount`, where the real one
goes on: a larger count only makes the average slower.

## Runs

| Run | Instance | Shows |
|---|---|---|
| `chain` | up to 3 projects, 1 invoice that refers to the first, largest offset 2, page size 2, drift 1, 2 faults, 1 creation or removal | type, the inductive invariant; prune deletes only invoices Bexio deleted and no project the walk listed; a phase ends only when every id its list had at the start was on a page worked through; caches agree with rows; the invoices implement `Mirror` |
| `liveness` | 1 contact, up to 2 projects of it, 1 invoice of the last, page size 1, drift 1, 2 faults, 1 removal | deleted ids lose their rows, live ids get one, with the exceptions below |
| `contact_prune` | 2 contacts, drift 4, 4 faults | *violation*: a resumed archived phase is followed by a prune of listed contacts |
| `cascade` | 1 project with 1 invoice | *violation*: the invoice cache holds an invoice whose row went with its project |
| `queue` | 2 threads, 3 requests, stop at any moment | ownership, order, standby flags, no sleeper left, every call returns; the inductive invariant of the proofs |
| `queue_stop` | same | *violation*: an idle worker that is told to stop locks `in_mutex` twice |
| `queue_standby` | same | *violation*: a standby without an outstanding request never ends |
| `oauth` | bx-sync, bx-proxy, login, 3 grants, 1 fault | no refresh token is posted twice, none without need; rows only go forward; unsaved tokens are saved, an expired access token is replaced; the inductive invariant |
| `oauth_login` | bx-sync, login, 3 grants, 1 fault | *violation*: a daemon with unsaved tokens writes them over those of a login |
| `parts` | every list, 18 rows in 9 of them, 2 edits, 1 fault, 1 restart; 3 files, one without a uuid, 2 edits, 2 faults; 2 sectors, 2 edits, 2 faults; 6 rows an administrator may write, 1 fault, 1 restart; 3 ids, 2 checksums, 3 versions; sleeps up to 6, 8 requests | a round walks every list; records, positions, files and sectors follow Bexio; a cached invoice has its positions; blobs are whole, the cache of files is the table; prune and marks spare what the walk showed; a restart resumes; the array is a map; the pace goes up; the inductive invariants of the proofs |
| `sector_back` | 2 sectors | *violation*: a sector that comes back unchanged stays marked |
| `pace_drop` | as in `parts` | *violation*: the sleep does not grow when the limits ask for it |

The violations are disagreements between the code and what its comments or
documents say; `PROJECT.json` quotes them under `findings`.

What `liveness` shows has exceptions, without which TLC finds it violated. `GoneRowsPruned`
excepts a thread whose prune statements belong to a closed handle. `LiveIdsStored`
excepts an id that the cache holds and that has no row: its project was hidden by
a shifting page, pruned, and took the row along before it came back (no failure is
needed for this), or the answer to a DELETE of a live id was lost. And both except
a thread that gave up. Both say "again and again" of all ids at once: Bexio changes
a bounded number of times, so this is "from some moment on, whenever a cycle is over".

`PhaseCoversList` is about the ids a list had when its phase began. An id created
meanwhile may come to lie before the offset, since the offset moves a whole page
past a short one (`bx_walk.c:71`); the next walk finds it. A page of two ids is
the smallest in which this happens.

Bounds. In `chain` a page of two makes items wait while Bexio changes, and the
second page starts at the largest offset, so that a list of three runs into the
range check of the cursor and one of two does not. `MaxChanges` lets
Bexio create or remove one id, at any moment, to keep the run short; with
`MaxChanges` 2 (3.7 million states) TLC finds nothing either.
In `liveness` and the
violations a page of one id makes every id a page boundary; two projects let a
page shift hide the second, whose prune takes its invoice along; two faults let
a contact walk be resumed and the answer to the DELETE after it be lost. Drift 1 makes the prune
as eager as it can be; `contact_prune` uses 4, to show that the failures of one
walk suffice to use up the drift. `VersionMax` 3 to 5 makes versions start over.
`ExitMax` 0 or 1 makes a thread give up. Two faults are enough for a failure
during the recovery from a failure; the kinds of faults include lost answers,
lost connections and restarts. Two threads are enough for one to wait behind the
other, three requests for a list with a middle. In `parts` two edits let a unit
appear and then be referred to; a list of one item per page makes each item a
page boundary; three files let a page shift while the middle one is worked on;
three ids make the search take two halves and the insertion shift; four is the
end of the versions' range, so that they start over.

Fairness. In `SyncChain` the thread's own steps (`ThreadNext`) are weakly fair: the thread is
always runnable and the service manager starts a process that is down; faults and Bexio are
not fair. That a step of the thread is taken means that every HTTP call and every
query ends, with an answer or without: the code gives curl no time limit for a
call (`bx_net.c`), so an answer that trickles in for ever would stop the worker. The same holds for the worker's fetch in `RequestQueue`.
In `RequestQueue` each thread, the worker and main are scheduled; no
signal, answer or spurious wake-up is assumed. In `OAuthRefresh` a daemon calls
Bexio again and again, its steps are taken, and a process that waits for the
lock gets it if it is free again and again (strong fairness): GET_LOCK waits 20
seconds, and a timeout is a fault.
In `parts` each data thread takes its next step when it has one, and the worker
goes round; edits, faults and restarts are not fair (a fault is a step of the
thread with its own bound).

`parts`, `sector_back`, `pace_drop`, `queue`, `queue_stop` and `queue_standby` do not check deadlock: the process or the thread may end.

## Proofs

`SyncChainProofs` proves, for any sets of ids, any references between them, any
page size, drift and bounds (the assumptions `IdsAssumption` and
`BoundsAssumption`):

- `IndInvariant`: `Spec => []IndInv`, and from it `TypeCorrect` and
  `ParentCoherence` (what the contact and project caches hold has a row);
- `InvoicePruneSafety`: prune deletes only invoices that Bexio deleted;
- `ProjectPruneSafety`: prune never deletes a project the finished walk listed;
- `Refinement`: the invoices implement `Mirror`, where what is at hand of the
  answer of an invoice list is `shown`.

The properties are not inductive by themselves. Prune reads `version` and `seen`
and never looks at Bexio, so the invariant carries what the walk learned to the
prune: in the missed pass, the unseen invoices already passed are deleted ones
(`PassedAreGone`); the pass goes through ids in order, so at its end all unseen
ones are (`UnseenAreGone`); the step to `prune` changes neither version nor
cache, and a deleted id never comes back. For projects, a walk from offset 0 is
made in one call, hence in one version, so what it listed and what is held was
seen in that version (`ListedAreSeen`). `KnownIds` keeps ids that were never
created out of rows and caches, and `PageKnown` ids the list never had out of the
answer at hand; the refinement needs both, since a row is stored from an answer
that Bexio may have outlived. `ParentCachedHasRow`
excludes a resource whose version started over, which revives tombstones, or for
which the answer to a DELETE was lost: there the code really has no such
guarantee.

The proof takes one lemma per part of the invariant, and effect lemmas
(`SyncItemsEffect`, `ItemEffect`, `NextVersionEffect`) that say what a step may
do to rows and caches, so that few steps open the definitions of actions.

`RequestQueueProofs` proves, for any set of threads and any number of requests
(`QueueInvariant`, the inductive `QueueInv`): every request is in one place
(`RequestsOwnedOnce`), the standby flags of threads and worker are coupled
(`StandbyFlagsCoupled`), no thread sleeps once the worker is gone
(`NobodySleepsAfterWorker`), and the worker takes the oldest request
(`OldestFirst`). `OwnedOnce` counts places; that it survives a step needs to
know which place a request moves from: `in`, the worker's hands, `out` and "given
out" exclude each other (`InOnePlace`, `GivenOut`), `in` is ordered
(`Descending`), and the worker holds a request at exactly two program points
(`WorkerHolds`). `LeavesAfterStop` ties the end of the worker to `run`; without
it a thread could go to sleep behind the broadcast.

`OAuthRefreshProofs` proves, for any set of processes (`OAuthInvariant`,
`OAuthInv`): no refresh token is posted twice (`NoTokenPostedTwice`), none is
posted while the rows hold a good access token (`NoNeedlessPost`), and a write
never puts older tokens over newer ones (`NewerTokensStay`). The properties except what
the code cannot prevent (`strayed`). The argument is the mutual exclusion of the lock
(`Exclusive`), that who is in the critical section posts what it read from the
rows (`PostsRows`), that the newest tokens are in the rows or with the process
that holds the lock or has them unsaved (`NewestKept`), and that nobody knows a
token Bexio has not issued (`AllKnown`). The one assumption is that no process
has the name of the free lock.

`RecordsProofs` proves, for any set of records, lines, positions and comments,
any edits and any bounds (`RecordsAssumption`: what hangs on an item has that
item, and what is in an item's own document is not there before the item): types
(`RecordsTypeCorrect`), that a round which keeps its connection walks every list
(`EveryListIsWalked`), and that a cached invoice has its positions
(`CachedInvoicesComplete`). The inductive invariant `RecInv` follows a version on its way
from Bexio to the cache. Caching looks only at the document at hand, so the
invariant says what the document is worth: not newer than Bexio, not older
than the rows (`Document`, `Versions`); the plan is a rest of `Plan` and the rows still to
store are of the part begun last (`Stage`), so a failure that lets the item go on
cannot be one of its row or of an invoice's positions; and while the cache is still
ahead, what was begun is stored in the document's version or still to be stored
(`StoredBeforeCached`). `LoadsComplete` says the same of what a restarted chain will
load from the rows. `WalkedSoFar` is the count behind `RoundVisitsAll`. The lemmas
`PlanIndex` and `LeftOfPlan` turn "ahead" into a number of parts begun;
`ItemEffect`, `DataEffect` and `WalkEffect` say what a step may do, so that
few steps open the definitions of actions.

`FilesProofs` proves, for any set of files (`FilesInvariant`, `FileInv`): a
blob under its final name is whole (`BlobsAreWhole`), the cache of files is the table but for
`unsure` ids (`CacheAgreesWithTable`: statements without an answer, and the rows at a
start whose SELECT failed), and prune spares what the walk showed
(`ShownFilesSpared`). `PartReady` says what the part file holds at each step
towards the rename; `ShownSeen` that a file shown in this walk has the version of this
walk, so its age is 0, which is less than any drift.

`SectorsProofs` proves, for any set of sectors (`SectorsInvariant`, `SecInv`):
a sector is marked only after everything listed was stored, and only when it is
not listed (`NoEarlyMark`). The invariant says how far the walk of an answer has come
(`StoredSoFar`) and what is left to mark (`LeftIs`).

`SettingsProofs` proves, for any range of int, any settings file and any rows an
administrator may write, within `SettingsAssumption` (`SettingsInvariant`,
`SetInv`): a process that starts resumes at the cursor that was saved last, or at the
one before when the answer to the save was lost (`StartResumes`). `RowsStand` says what
the table stands for at any moment, whatever mixture of old and new rows a
failed save left; the lemmas `ParseText` and `ParseOldRows` show that the text of the row and the
three rows of the previous version parse back to their cursor, `ToIntFacts` and
`DecodeType` what a column of any type is read as.

Only model-checked: liveness (out of reach of the prover); `PhaseCoversList` of
`SyncChain` (its proof needs ranks of ids in a list, hence induction over
cardinality); `ArrayIsMap` of `IdsCache`, whose search is a function
defined by recursion on intervals (induction over data); `Pacing`, which is about
liveness.

## Not modelled

- Decoding of JSON, checksums and the comparison of values (`bx_object.c`,
  `bx_object_value.c`, `bx_decode.c`, the decoders of each list, the table of
  HTML entities): pure functions of content that the models reduce to a
  version. A checksum is a hash of the set fields one after the other, without
  a separator: a value that moves from a field to the next leaves it unchanged,
  and the row is then not updated.
- Text of SQL statements, the rewriting of named parameters and binding
  (`bx_database.c`), URLs and percent-encoding (`bx_net.c`): no state between calls.
- Logging, daemonization, pid file, the browser part of a login.
- Rows that stay after something was removed from an item that stays (positions
  and lines): the code never deletes them.
- Signals: one that falls between the test of `kill_signal` and `pause()` is
  noticed at the next one (`main.c:745`); `Kill` of `RequestQueue` happens when
  `pause` returns.
- That a lost answer before a 429 keeps the flag the threads see unset
  (`bx_net.c:857`) is in `Fetch`, but no document promises more, so no property
  is about it.
- After a failed missed pass the invoice version has moved, and the retried pass
  also loads invoices that the list has shown: more requests, no wrong result.

## Plan

Next come `PhaseCoversList`, if ranks of ids can be replaced by sets of ids
passed, the parts of `IdMap` that `IdsCache` implements without the result of
its search, and what `Pacing` keeps to at every step.
