# minisqld in TLA+

A verification project for minisqld, the multi-threaded mini SQL server of this
repository: its accept loop and worker pool, HTTP requests, the SQL parser, the
locks of its SQL engine, its storage layer with the B+ tree index, and its
dictionary with trie and cache. Paths are relative to the repository, so
`src/threadpool.c` here is `src/src/threadpool.c` in `PROJECT.json`.

## The system

`main.c` installs the signal handlers and calls `server_run`, which initialises
the engine, creates the thread pool and accepts connections. Each connection is
a job of the pool: a worker reads one HTTP request, `router_dispatch` answers it
and the worker closes the socket. The router calls `engine_exec_sql`; the engine
parses the text and for each statement takes locks, calls the storage layer and
releases the locks. On SIGINT or SIGTERM the accept loop ends, the pool is
drained and the engine is shut down.

| Component | State | Operations | Interacts with |
|---|---|---|---|
| thread pool, `threadpool.c` | job queue and its limit; slots with `worker_alive`, `worker_retiring`; `n_workers`, `active_workers`; streaks and hysteresis of the monitor; `shutdown`, `submit_closed` | create, submit, worker loop, monitor sample, resize, set_queue_max, shutdown, shutdown_graceful | server (owner of the pool), jobs (handlers) |
| engine, `engine.c`, `engine_lock.c` | catalog rwlock, a registry of table rwlocks, the single-mode mutex; the dictionary trie and its ready flag | execute_statement: lock, SELECT or write, refresh the trie, unlock; init, shutdown | called by several workers; storage, trie |
| storage, `storage.c` | a CSV and a schema file per table; meta cache, list of tables with a built index, append files, schema and path caches | ensure_index, insert, delete, update, create, select by row index or scan | index registry, file system |
| index registry and B+ tree, `index_registry.c`, `bptree.c` | a tree per table, id to row number | get_or_create, destroy_all; insert, search, range | storage, engine |
| dictionary cache, `dict_cache.c` | entries with key, answer and stamp, a clock | get, put, invalidate, invalidate_all | router |
| router, `router.c` | the cache pointer | /api/dict, /api/admin/insert, /api/query, /api/autocomplete, /api/stats, static files | cache, engine |
| trie, `trie.c` | nodes over a to z | insert, search_prefix, destroy | engine |
| server, `server.c`, `main.c` | listening socket, shutdown flag | run, shutdown, signal handler | pool, engine |
| HTTP, `protocol.c`; SQL, `parser.c`; output, `json_out.c`, `sql_format.c`, `ast_print.c` | none that outlives a call | parse, format | |
| `executor.c`, `client/`, `bench/`, `web/`, `scripts/`, `prev_project/` | outside the server | | |

What is hard here, and to be checked:

* **Pool.** Three kinds of thread (monitor, owner, workers) create, retire and
  join threads in the same slots while jobs arrive. No wake-up may be lost, no
  slot reused early, the counters must be exact although they lag behind the
  threads, the drain must not report success early, and everything must end.
* **Engine locks.** Two modes with different locks, a lock registry that can
  fill up, and structures (index, trie, meta cache) that rely on locks chosen by
  table name and, for the index, are written by readers.
* **Storage.** Four caches of the same file that several statements update,
  invalidate or forget in different ways, with failures half-way and crashes.
* **B+ tree.** Splits at every level for odd and even orders: separators, leaf
  links and children must keep telling the same story.
* **Dictionary.** A trie rebuilt after every write, words it refuses, a ready
  flag that opens and closes the endpoints, answers that must equal a scan.
* **Dictionary cache.** Read, then fill, with an invalidation between.
* **Text.** Requests that arrive in pieces; five scanners with their own idea of
  quotes (splitter, tokenizer, CSV, JSON, formatter) that must read what another
  one wrote; conditions, LIKE, sorting; three copies of the choice of an index.
* **Server.** A signal at any moment of the accept loop, sockets that change
  hands between threads, and an engine that must outlive the handlers.

`PROJECT.json` lists the hazards line by line with the properties that answer
them.

## Modules

| Module | What it is |
|---|---|
| `ThreadPool` | the pool; one action per critical section of `tp->mutex`, per `pthread_join` and per job |
| `JobService` | what `threadpool.h` promises, without threads; `ThreadPool` refines it |
| `ThreadPoolProofs` | theorems about `ThreadPool`, and that it implements `JobService` |
| `Engine` | the locks around statements, the index build, and what is freed under readers; theorems in `EngineProofs` |
| `Storage` | files and caches of the storage layer; one action per statement; theorems in `StorageProofs` |
| `Copying` | the loop of DELETE that copies rows, for `Storage` and `Dictionary`; what it leaves is proved in `CopyingProofs` |
| `BPTree` | the nodes of an id index; an insert is one step per node on its way down and up; theorems in `BPTreeProofs` |
| `IdIndex` | the map `bptree.h` promises; `BPTree` refines it and `Storage` uses it |
| `Dictionary` | the dictionary table, its trie, the ready flag and searches by prefix; theorems in `DictionaryProofs` |
| `DictService` | the dictionary endpoints and the cache; theorems in `DictServiceProofs` |
| `Server` | accept loop, signal and `handle_client` around `JobService`, the pool's abstract form; theorems in `ServerProofs` |
| `Http` | `http_parse_request` over a socket, `url_decode`, `query_param` |
| `Json` | JSON strings, fields and rows as router and engine write and read them |
| `SqlText`, `Parser` | splitting a request, tokens, `parse_sql` |
| `SqlFormat` | `print_format`: a statement as SQL again |
| `Csv` | rows as lines of a table file |
| `Query` | WHERE, LIKE, ORDER BY, MIN, MAX, the row of an INSERT or UPDATE |
| `Routes` | index or scan: the engine's choice, the executor's and EXPLAIN's |
| `TextCalls` | calls of the operators of the last seven rows, with their properties |
| `MC...` | symmetry and constants for TLC |

**ThreadPool.** The variables have the names of the C fields. `worker[s]` is
where the thread of slot `s` is: at the mutex (`lock`), on `cond_nonempty`
(`wait`), in a job (`run`), returned but not joined (`exit`). `owner` is where
the thread that owns the pool is in create, resize or shutdown, `monitor` where
the monitor is. `retired` and `reaped` are the local array of slots a shrinking
thread has still to join and whether the join of one has returned. A join is two
steps, the return of `pthread_join` and the critical section that clears
`worker_alive`. The streak counters stop at their thresholds because only `>=` is
asked of them. `status` is a history of the jobs. `pthread_create` may fail,
condition waits may end spuriously, the drain wait may end by time or not. The
documented rule that the pool is not used after a shutdown has begun is the
guard of `Resize` and `SetQueueMax`; submits may come during a shutdown and are
refused.

**Engine.** `pc` walks through lock, execute, unlock. Registration of a table
lock, under the registry's mutex, and taking the lock are separate steps. A
rwlock has the default attributes, so readers do not queue behind a writer.
`index_rebuilt` is read in one step and extended in a later one, as
`storage_ensure_index` does. `walk[t]` is the structure thread `t` is inside, the
trie or a tree; `freed[t]` whether a write freed it meanwhile, and whether the
locks of that write should have held it back (`Guarded`). Table names are compared
as the code does: exactly by the locks, without case by the trie (`DictNames`).

**Storage.** A file is the sequence of the ids of its rows. `tree` is the map a
B+ tree stands for: a later insert of a key replaces its row number
(`leaf_insert_sorted`). The history variables `stale_meta`, `stale_tree` and
`lost` name the tables for which the code has given up an agreement, and
`chosen` the ids that clients brought at or above `next_id`, so that the
properties can say exactly when it holds. An INSERT whose file cannot be written
leaves no row (`InsertUnwritten`), or leaves it although it reports an error,
because the `fclose` after a failed `fflush` writes it (`InsertWrittenLate`). A
rewrite may succeed, lose
the file (remove worked, rename failed) or be cut by a crash between the two.
DELETE and UPDATE take every file that some WHERE clause could leave.

**BPTree.** Nodes are records in a sequence, numbered as they are allocated.
`pc`, `path`, `key_out` and `split_out` are the recursion of `insert_rec`: its
active calls and what a returning call reports. A leaf changes in one step only,
`InsertLeaf`, so the map that the chain of leaves holds follows `IdIndex` step by
step, while separators are still being put in on the way up. Search and range
are operators, compared with that map between inserts. Allocations succeed.

**Server.** `main` is where the main thread is. `accept` and `asleep` are two
places because a signal interrupts only the second. The pool's variables are
those of `JobService`, whose actions are conjoined with the server's: a submit is
`Pool!Accept` or `Pool!Refuse`, the drain ends with `Pool!EndClean` or
`Pool!EndCut`. Signals go to the main thread, as Linux delivers them.

**DictService.** The engine's answer for a cache key is a version number that a
write increases. Hits are two steps because readers of the cache run side by
side; puts and invalidations wait for them. `raced` is a history: keys written
while an older answer was on its way to the cache, or written through
`/api/query`.

**Dictionary.** A row is its word, a node of the trie the path to it. A statement
and the rebuild after it are one step, since both run under the lock of the table
(`Engine` shows what that lock is worth). `/api/admin/insert` is two, because it
asks `engine_is_ready` before it takes the lock. A statement that changed the file
and reported an error does not rebuild: `unseen` records it.

**Text.** A text is a sequence of symbols: characters where the code looks at
them, and one symbol for a word or number that is only compared. `Http` and
`Json` count symbols where the code counts bytes. Lower and upper case are not told apart. A
function that may fail returns a set, empty for -1. `TextCalls` makes each call
with every input of its constants and keeps the result until the call returns;
the properties compare it with a reference that does not follow the code's loop:
what was written is what is read (requests, parameters, fields, rows, formatted
statements), or a definition by quantifiers (LIKE as a cutting of the text,
conditions as runs of AND, order as a permutation).

## Runs

Passing runs:

| Run | Shows |
|---|---|
| `pool` | `WorkConserving`: while a worker sleeps, as many serving workers are on their way as there are jobs. `CountersExact`, `SizeBounds`, `JoinedOnce`, `DrainSound` (a return of 0 means every accepted job ran), `HysteresisHolds` |
| `pool_live` | `AcceptedJobEnds`, `ShutdownReturns`, and the refinement `ServesJobs` |
| `engine` | `Isolation` of statements of one mode, with a full registry as one of the cases; `ReadersGuarded`: no reader walks a trie or a tree that a statement freed whose locks should have excluded it; `StatementEnds` |
| `storage` | `LookupExact`, `RowNumbersExact`, `AutoIdsFresh` for two tables, with and without id, that share the registry of trees and a meta cache with room for one |
| `bptree` | `LookupsExact`: search (`SearchExact`) and range (`RangeExact`) against the chain of leaves; `Balanced`, with every node owned once, so that destruction frees it once; and the refinement `ServesIndex` of `IdIndex` |
| `server` | `EngineOutlivesJobs`, `FdOwned` (one owner for every socket, none closed unanswered) and, under fairness, `StopsOnSignal` |
| `dict` | `KeysUnique` (neither a key nor a stamp twice), `CopySafe`, `FreshUnlessRaced` |
| `dictionary` | `PrefixExact`: trie and scan give the same words, also at the limit of the array; `ReadyExact`: the gate is closed exactly while a word is there that the trie refuses; `TrieTight` |
| `text` | requests: `RequestWhole`, `RouterReads`; SQL: `SplitAgrees`, `AdminInsertExact`, `WhereKept`, `FormatRoundTrip`; rows: `CsvRoundTrip`, `LikeExact`, `WhereExact`, `WritesByName`, `OrderExact`; index or scan: `RoutesAgree` |

The type invariant `TypeOK` of `ThreadPool` is an invariant of its own; in the
other modules it is the first conjunct of the property that depends on the sizes
it states (`Isolation`, `RowNumbersExact`, `FdOwned`, `Balanced`, `KeysUnique`,
`TrieTight`). Every property has one or more mutants in `PROJECT.json`: a
definition changed as a plausible bug would change it, for which TLC finds the property
violated.

Runs that find a statement of the repository violated (the findings of
`PROJECT.json` quote it):

| Run | What happens |
|---|---|
| `engine_index` | two first SELECTs build an index at the same time, of one table or of two |
| `storage_rescan` | after DELETE the next INSERT gets id 0 |
| `dict_stale` | an old answer is cached after the invalidation |

Other limits of the passing properties, which the same modules show when their
constants or exceptions are changed:

* `ReadersGuarded` is about statements that share a lock. A reader in the other
  mode, one whose table found no slot in the registry, or one that spells
  `dictionary` otherwise (the locks compare names exactly,
  `dictionary_trie_refresh_after_write` without case) is not held back, and the
  trie is freed under it. Likewise the trees: `index_registry_destroy_all` frees
  those of all tables under the lock of one, the second half of `IndexSafe`.
* `Isolation` excepts tables without a slot in the registry. Every name a
  statement mentions takes a slot, whether the table exists or not.
* `Isolation` is among statements of one mode. A single-mode statement takes
  only the single mutex, which normal statements never look at, so the two
  overlap; `engine_lock.h` calls the mode a global serialisation.
* `StopsOnSignal` needs a next connection when the signal came between the test
  of the flag and `accept`; without one the server sleeps on. A signal that
  comes before `server_run` clears the flag is lost.
* `CountersExact` does not say `active_workers <= n_workers`, the range
  `threadpool.h` gives: a shrink takes busy workers off `n_workers` at once.
* `ShutdownReturns` needs jobs that return: past the drain's timeout
  `threadpool_shutdown` joins every worker without a limit.
* `LookupExact` excepts the tables in `stale_tree`: after DELETE or UPDATE an
  INSERT can enter wrong row numbers, or start a tree that lacks the older rows,
  an INSERT that failed can leave a row no tree knows, and a SELECT by id then
  misses or mistakes rows until the process restarts. A
  tree that another table's rewrite destroyed is not built again by the next
  SELECT, as a comment in `rebuild_index` expects, since the table stays in
  `s_index_rebuilt`; such a SELECT scans the file.
* `AutoIdsFresh` says which ids INSERT hands out a second time: only those that a
  client brought when `next_id` had not reached them, which the code lets happen
  (`storage_insert` does not look at them).
* `ReadyExact` shows a flag that closes again: `README.md:209` of the repository
  says that it only ever becomes true. `ReadyExact` and `PrefixExact` except the
  time between a statement that changed the file and failed and the next write;
  `agent.md:71` says that an INSERT commits only when both indexes are updated.
* `FormatRoundTrip` holds for a statement exactly when it has no BETWEEN, whose
  upper bound is not written, and no value with a quote or one that starts like
  a number and is none; the comment at `sql_format.c:11` and `test_parser.c:719`
  state it without exception.
* `AdminInsertExact`: the value arrives unchanged exactly when it has no single
  quote, which is doubled on the way out and not undone on the way in, and is
  not a lone `)`.
* `SplitAgrees` leaves out texts with a comment, that is a `--` that begins
  outside quotes and words, which the splitter does not know; and texts whose
  quotes are open at their end and that end in a blank.
* `WhereKept` says which conditions a statement keeps that is cut within its
  WHERE: a DELETE cut within the first one has none left and deletes every row,
  as nothing in the parser or behind it refuses such a statement.
* `PrefixExact` is about statements that spell the table `dictionary`. The engine
  compares the name without case where it answers from the trie
  (`engine.c:888`) and where it rebuilds it (`engine.c:1015`), while the file is
  chosen by the exact name: another spelling is answered from this table's trie.
  Under which locks that happens is part of `Engine` (`DictNames`).
* `Create` of `Storage` leaves it as it is whether a table has an id column,
  while a CREATE of a table that exists may change its columns.
* `RouterReads`: a line break in a JSON string, which JSON writes as `\n`, is
  decoded and then refused as a control character.
* `WritesByName` leaves out lists with fewer names than values, for which
  `build_row_in_schema_order` reads names that were never set.
* `RoutesAgree`: without a tree, or with bounds that are no numbers, BETWEEN
  fails, as the scan has no such operator. The index and the scan differ for ids
  that are not positive or come twice. EXPLAIN names the index also when there
  is no tree or the literal is no number.
* `WhereExact` promises no failure half way only for rows whose cells have their
  types. INSERT checks none, and one cell that is no number fails every later
  WHERE on its column.

**Bounds.** The pool has four slots, three jobs, a step of two and streaks of
two: enough for a shrink that overlaps a join, a slot that is reused, a queue at
its limit and a streak that the window cuts. `pool_live` uses three slots and
two jobs, since liveness is checked without symmetry, and a limit of two that
`SetQueueMax` lowers to one at any moment. The engine runs two
threads with two statements each: every pair of kinds, modes and tables overlaps
in every order, and the second statement finds what the first left in the
registry and the index list. Storage files hold two rows (`MaxRows`), two in
both tables together (`MaxTotal`), and ids up to `MaxId`: the errors it can show
need one old row and one new row. Clients bring the id 1, which `next_id` may
have passed or not, or one that is no number. A row number never reaches `MaxRows` either,
which only cuts behaviours. The trees get seven ids at order 3 and ten at order
4 in every order of insertion, numbers at which inner nodes split and, for order
3, split again; one id comes a second time with another row. The order the code
uses is 128. The server has three connections and one signal. The cache has
three keys for two entries, so that eviction happens, and four requests
(`MaxRequests`) of three threads. The dictionary table has three rows, an array
of two for the trie's answer, two letters, and six words: one empty, one with a
foreign character, the others prefixes of each other. The inputs of `text` are
all sequences up to a length over the symbols a function tells apart: five
symbols for the splitter, seven tokens behind a WHERE, four symbols of a value
for `/api/admin/insert`, two per CSV field, three for LIKE; every statement is
cut at every symbol. A header has room for 22 symbols (`MaxHeader`) and a body
for two (`MaxBody`), so that both limits are met; a request arrives at once, in
two pieces cut anywhere, or symbol by symbol.

**Fairness.** In `FairSpec` of the pool every thread that can step does, and a
started job returns; nobody has to submit, resize, close or time out. That a job
returns is an assumption on clients: `handle_client` reads its socket without a
time limit. `FairSpec` of the server asks the same of the main thread and the
handlers; nobody has to connect or to send a signal. In `FairSpec` of the engine
a thread inside a statement keeps running. Weak fairness suffices for the locks
because the number of statements is bounded: readers cannot follow one another
for ever. With an unbounded stream of readers a writer could starve, and the
model claims nothing about that.

**Deadlock** is checked in every run; a pool that was freed, an engine that was
shut down, a server that returned and a dictionary service out of requests stutter explicitly.

## Proofs

A theorem holds for every value of the constants that satisfies the `ASSUME` of
the module it is about, not only for those of a run. Besides the shape of its
arguments an `ASSUME` asks for what the code's constants have: finitely many
tables, threads and slots, at least one entry in an array, a floor and a soft
maximum of the pool in order. Each theorem rests on an inductive invariant, which
TLC checked on the run of its module before it was proved (that of the B+ tree
claims that there are certain functions of its nodes, and TLC cannot enumerate
them); a lemma per action shows that the action keeps it.

| Theorem | States | Module |
|---|---|---|
| `TypeCorrect` | `[]TypeOK` | `ThreadPoolProofs` |
| `SlotsJoinedOnce` | `[]JoinedOnce` | |
| `NoLostWakeup` | `[]WorkConserving` | |
| `CountersAreExact` | `[]CountersExact` | |
| `SizeStaysInBounds` | `[]SizeBounds` | |
| `GracefulLosesNothing` | `[]DrainSound` | |
| `HysteresisIsKept` | `[]HysteresisHolds` | |
| `PoolImplementsService` | `ServesJobs`, the refinement of `JobService` | |
| `StatementsIsolated` | `[]Isolation` | `EngineProofs` |
| `WalkersAreGuarded` | `[]ReadersGuarded` | |
| `DescriptorsOwned` | `[]FdOwned` | `ServerProofs` |
| `EngineUpForJobs` | `[]EngineOutlivesJobs` | |
| `LookupsAnswerTheFile` | `[]LookupExact` | `StorageProofs` |
| `RowsAreNumbered` | `[]RowNumbersExact` | |
| `IdsHandedOutAreNew` | `[]AutoIdsFresh` | |
| `TreeBalanced` | `[]Balanced` | `BPTreeProofs` |
| `SearchesAreExact` | `[]SearchExact` | |
| `RangesAreExact` | `[]RangeExact` | |
| `LookupsAreExact` | `[]LookupsExact`, both | |
| `TreeServesIndex` | `ServesIndex`, the refinement of `IdIndex` | |
| `OrderAlways` | `[]InOrder`, the inductive invariant of the last four | |
| `OneEntryPerKey` | `[]KeysUnique` | `DictServiceProofs` |
| `HitsCopySafely` | `[]CopySafe` | |
| `FreshOrRaced` | `[]FreshUnlessRaced` | |
| `TrieStaysTight` | `[]TrieTight` | `DictionaryProofs` |
| `GateIsExact` | `[]ReadyExact` | |
| `SearchFindsLastRow` | `[]WordsFound`, a part of `PrefixExact` | |
| `PrefixesAreExact` | `[]PrefixExact` | |

**Thread pool.** `JoinedOnce` alone is not inductive. `JoinInv` adds what the
phases of owner and monitor say about each other (`PhaseInv`: the monitor is gone
before the last phase, and only a monitor in its join and an owner in a resize
have slots to join), which slots can be in which state (`SlotInv`) and who has
just joined what (`ReapInv`). `WorkConserving` is inductive beside it: a submit
signals a sleeper if there is one, a worker leaves `lock` only with a job, to
sleep on an empty queue or to go, and retiring broadcasts. `CountInv` is
`CountersExact` with `BoundInv`, the bounds from the moment the workers of the
floor were started; a failing `pthread_create` ends the pool before that. The
cardinalities are taken over subsets of the finite set of slots.

**The pool as a service.** `JobInv` ties the history of the jobs to the pool: the
queue holds exactly the jobs that wait, each once (`QueueInv`); the workers
between dequeue and return hold exactly the jobs that run (`RunInv`); and how far
an ending has come (`EndInv`). With it every step of the pool is an accept, a
start, an end, a phase of the ending, or no step of `JobService`. `DrainSound`
follows: a graceful shutdown reaches the hard flag without a timeout only from an
idle pool, and nothing is accepted in between.

**Engine.** `LockInv` says which locks a statement holds wherever it is: the
single mutex (`SingleInv`), the catalog lock, shared or alone (`CatalogInv`), and
the lock of its table if the lookup gave one (`TableInv`). `SlotInv` is the part
one does not guess: a statement without a table lock met a full registry, which
stays full, so that its table cannot get a lock while the statement runs and
nobody takes that lock beside it.

**Server.** `ServerInv` reads the owner of a socket off the state of its job in
the pool (`SocketInv`), and has the handler write before it closes (`HandlerInv`).
`EngineInv` follows the engine through `server_run`: it is up from the first
accept to the end of the pool, and a pool that has ended runs nothing.

**Storage.** `StorageInv` adds to the properties what makes a tree worth
scanning over. An entry is always of an id that is in the file, unless the file
was lost, so that a scan replaces every wrong entry and leaves none behind; an
entry of a table that is not in `stale_tree` names the last row with the id; and
a table that is in the list of built indexes and has a tree lacks no id
(`TreeRight`). A tree that the registry does not know is empty, and a table
without a file has no rows (`ShapeInv`). INSERT enters the right row number
because the meta cache counts rows (`MetaInv`). After the row of an INSERT that
failed nothing has to be shown: a tree that was there counts as wrong, and one
that was not is still empty (`RowUnnoticedKeeps`).

**B+ tree.** The proof describes a tree by functions of its nodes, which an insert
changes at a few nodes only, and never speaks of paths. `ShapeInv(h)` has a height
`h` for every node, one below that of its parent (`TreeInv`); one place for each
node that holds a pointer to it, none for the root and for a half that is on its
way up (`Owned`); the sizes that a split needs to find (`SizeInv`); and the active
calls of `insert_rec`, each of a child of the one before (`CallInv`). `Balanced`
follows by induction over heights. `RangeInv(R, F, x)` gives each node the set
`R[n]` of the ids whose place is below it and the set `F[n]` of those its parent
sends to it, which the separators of the parent cut out. The two are the same but
for the left half `x` of a node that was just split: the split cuts `R` at the
promoted key (`IsCut`), and `F` follows when the parent gets the key. Along the
`next` links the ranges go up (`Steps`). `LinkInv(D, G)` has `D[n]`, the distance of a leaf from the end of the
chain, and `G[n]`, the leftmost leaf below a node: all leaves are on the chain, so
`Contents` has the entries of all of them. A search comes to the leaf whose set
has the id (`SearchesAreExact`). An insert changes the one entry of its id in
`InsertLeaf`, and the other steps move entries between leaves or leave them alone
(`TreeServesIndex`). The rows that the scan collects from a leaf on are listed with
their ids (`Lists`): strictly upwards, all those between the bounds, none from the
leaves before the first, as these lie below it (`FarIsBelow`). A list in order of
all ids is the map sorted (`ListedInOrder`).

**Dictionary cache.** `CacheInv` counts: no stamp is drawn twice because the
clock, with the requests that have yet to draw, stays below the number of
requests (`BudgetInv`); the stamps drawn but not stored are new to the cache
(`StampInv`); and a lookup that was not raced holds the present answer
(`AnswerInv`).

**Dictionary.** `DictionaryInv` says that a ready engine has the trie `Build(rows)`
of the rows in the file, unless a failed statement changed the file unseen. What
`Build` yields is proved by induction over the rows (`BuildIsExact`): a tight trie
that has each word under the last row that holds it, so that no two nodes have
the same row. The search by prefix goes down the trie, which has some depth
(`BuildIsBounded`): by induction from the longest paths upwards,
`collect_prefix_rows` lists the rows below a node, each once (`CollectsAll`), as
those of the node and of its children have nothing in common (`UnderSplit`). An
array that did not come back full therefore has the last row of every word with
the prefix.

**Induction over data.** The induction theorems of the library take an operator
as a parameter, which the installed provers cannot instantiate. `LeastNatural`
(`CopyingProofs`) stands in for them: if a claim failed at some index it would
fail at a least one. With it the loops written as recursive functions, `CopyWithout`,
`Build`, `CollectPrefixRows` and the walks of the B+ tree, are unfolded: first there is a function that satisfies the recursive
equation, then it has the property at each index.

Only model-checked:

* all liveness (`AcceptedJobEnds`, `ShutdownReturns`, `StatementEnds`,
  `StopsOnSignal`), which is outside what the prover handles under fairness;
* the properties of `TextCalls`: scanners and parsers that walk over texts, whose
  correctness for every text would need an induction for each of their loops.
  They are checked on all texts up to a length.

## Plan

Done: pool, engine locks, storage, B+ tree, server, dictionary with trie and
cache, requests and SQL as text; theorems for every safety property of the
modules with concurrent or persistent state, and for both refinements. In this
order next:

1. `LikeExact` and `WhereExact` for every input, by induction over the pattern
   and over the conditions.
2. The `.bin` copy of a table beside its CSV file, and the path and schema caches
   split into steps.
3. The monitor's arithmetic and the statistics counters with their widths;
   creation of the cache by two first requests.

## Not modelled

* **Printing**: `json_out.c`, `ast_print.c`, the tables that storage and executor
  print, the wording of answers, static files. They read a result and keep
  nothing.
* **Storage**: the `.bin` copy and the path cache; SUM and AVG; fractions in
  numbers; a file in which a failed write left a part of a row; rows that
  `BULK_INSERT_MODE` keeps in the buffer, out of the sight of SELECT. The schema
  cache shows what the schema files hold (`HasSchema`), since
  CREATE drops an entry before it writes or removes the file.
* **Sizes and memory**: the fixed buffers of parser and router, ids beyond an
  `int`, and failed allocations except where they decide control (thread
  creation, the trie rebuild).
* **Counters**: `/api/stats`, hits and misses of the cache.
* **Outside the server**: the REPL, web pages, benchmarks, scripts and earlier
  demos.
