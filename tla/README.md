# A TLA+ verification of cpplite

`cpplite` is a small relational storage engine in C++: a buffer pool over a segmented storage engine; beside it an
older stack of a pager, a B+tree and a catalog over one database file; a record codec; and a front end that takes SQL text to
calls on the catalog. This project models its stateful parts in TLA+,
checks them with TLC on small instances and proves the central invariants with TLAPS for every size. Source paths are
relative to the repository (`lib/...` is `src/lib/...` in `PROJECT.json`). Asserts count: the build does not define
`NDEBUG`, so a failed assert ends the program, and several properties say which asserts can fail. Two runs expect a violation, where the
pool does other than an assert or a test of the repository says (section 3).

## 1. Inventory

| Component | State | Operations | Talks to | What is hard |
|---|---|---|---|---|
| LRU-K evictor (`lib/pager/bufferpool/lruk.cpp`) | per-frame histories, two ordered indexes, a counter of evictable frames | `record_access`, `set_evictable`, `remove`, `evict` | called by the pool under `bpm_latch_` | redundant state that must agree after any sequence of calls |
| Buffer pool, frames, page guards (`bufferpool.cpp`, `frameheader.cpp`, `pageguard.cpp`) | `frame_table_`, `free_list_`, per-frame pins, dirty flag, data and reader/writer latch, `bpm_latch_` | `new_page`, `read_page`, `write_page`, `evict_page`, `flush_page`, `flush_all_pages`, guard `flush`, `get_data_mut`, `drop` | evictor, storage engine | threads, two levels of latches, eviction against pins, write-back |
| Pager and page managers (`lib/pager/pager.cpp`, `*_page_manager.cpp`) | one file of pages, the free list linked through it, a page counter | `create_page`, `insert_freelist`, `pop_freelist`, overflow chains | used by the B+tree and the catalog | ownership of pages, reuse of freed pages, reopening a file |
| B+tree (`lib/btree`) | node and leaf pages, a root, a cursor (a stack of positions) | `insert`, `remove`, `move_to_first/last/key`, `next`, `prev` | pager | cascading splits, borrows and merges; the cursor's path under them |
| Storage engine (`lib/storage/storage.cpp`) | table metadata, segment files | create, truncate, delete, flush, read, write, allocate, open, shutdown | file cache, virtual file system | segment boundaries, metadata in memory against disk, crash and reopen |
| File cache (`lib/storage/filecache.cpp`) | a hash map and a linked list in LRU order | `get`, `put`, `exists` | storage engine | map against list, eviction at capacity, data races from guards' `flush` |
| Catalog (`lib/catalog/catalog.cpp`) | four maps, a cursor on the schema tree, the next oid | `create_table`, `drop_table`, `get_table`, load | B+tree, pager | maps against the tree, duplicate names, the root that moves |
| Virtual file system (`lib/vfs`) | directories, names, files; descriptors | open, read, write, append, unlink, list, create, remove | storage engine, pager | a file that is unlinked and still open; what a dying process leaves |
| Record codec (`lib/record`, `lib/encoding.cpp`) | none | `serialize`, `deserialize` | no caller yet | writer and reader must agree on bytes neither describes |
| SQL parser (`lib/parser`) | a stack of rule contexts, the position in the text, the tree | `parse` and 113 rule functions | ANTLR runtime, lexer | decisions on one token against predicted ones; operator precedence |
| AST, binder, DDL executor (`lib/ast`, `lib/binder`, `lib/executor`) | none | `visitCreate_table_stmt`, `visitDrop_stmt`, `bind_*`, `execute_*` | parser's tree, catalog | uninitialised flags, null contexts, text put back together |

What would make each modelled part correct: the evictor returns the frame the LRU-K policy names and its indexes never go
stale; the pool never lets two pages share a frame, never takes a frame from under a guard, never shows one page's bytes as
another's, loses a flushed write or lets a writer in with anyone else, and lets every thread come back; a page of the file
has one user at a time and stored payloads stay; the B+tree is an ordered map; the file cache closes the least recently used
file and no other; a page of a table reads back as it was written, whatever happens to other tables and to the process; the
catalog's maps are the rows of its tree; a row reads back as it was written; a text is accepted exactly if it is SQL, its tree
groups operators as they bind, and the table that reaches the catalog is the one the text declares. Not all of it holds: threads that
share a page may never come back, the tree aborts on some removals, and a column's flags are not always the declared ones. Section 3 says
what was found, and under which conditions the rest holds.

`PROJECT.json` lists the hazards behind these, each at its source line, with the properties that would catch it.

## 2. Modules

| Module | Models | Checked by | Proved in |
|---|---|---|---|
| `Order` | sets of naturals in order, sequences with an element left out | through the next | `OrderProofs` |
| `LRUKPolicy`, `LRUKPolicySpec` | the LRU-K policy as operators on a value, and as a specification | `lruk` (as the abstract side) | |
| `LRUKEvictor` | `LRUKEvictor` with its two indexes and counter | `lruk` | `LRUKEvictorProofs` |
| `LRUKRefinement` | how the evictor's state maps to the policy's | `lruk` | `LRUKEvictorProofs` |
| `BufferPool` | `BufferPoolManager`, `FrameHeader`, both guards | `pool_fits`, `pool_overcommit` | `BufferPoolProofs` |
| `BufferPoolJoin` | threads that make finitely many calls and are joined | `pool_joined`, `pool_contended` | |
| `Pager` | the database file, the free list and overflow chains, as operators | through the two below | |
| `PagerCalls` | a caller of the pager | `pager` | `PagerCallsProofs` |
| `BTreeMap` | an ordered map with a cursor | `btree` (as the abstract side) | |
| `BTree` | `BTreeCursor` on pager pages | `btree` | |
| `FileCache`, `FileCacheCalls` | the cache as operators on a value, and a caller of it | `filecache` | `FileCacheLemmas`, `FileCacheProofs` |
| `LocalFS` | `LocalFS` and `LocalFile` as operators on a value | through the two below | |
| `StorageEngine`, `StorageCalls` | the engine as operators on a value; calls, failures, deaths and restarts | `storage` | `StorageProofs` |
| `Catalog` | `CatalogManager` on the B+tree | `catalog` | |
| `Record` | the record codec | `record` | `RecordProofs` |
| `Grammar`, `SQLNames`, `SQLExpr`, `SQLQuery`, `SQLStatements` | the rule functions of the parser | through the next | |
| `SQLParser`, `SQLPrecedence`, `FrontEnd` | the parser at work; what its trees must look like; AST, binder, executor | `front_end` | |

`BufferPool` composes `LRUKPolicy` (the pool calls the policy; `LRUKEvictor` is shown to implement it). `BTree` and
`PagerCalls` compose `Pager`; `Catalog` composes `BTree` and `Pager`; `StorageEngine` composes `FileCache` and `LocalFS`; `FrontEnd`
composes the parser with what reads its tree. The `MC*` modules give constants their values. An operator whose name contains `mutant` is a
plausible bug in the definition that follows it; `PROJECT.json` says which property it breaks.

### Evictor

`node_store`, `history`, `is_evictable`, `less_than_k_set`, `k_set`, `evictable_size`, `curr_timestamp` are the fields of
`LRUKEvictor`; the ordered sets hold pairs of the key under which a frame was entered and the frame. Every call of the
`Evictor` interface is one action (the pool serialises them). `LRUKPolicySpec` forgets the indexes: its state is who is
tracked, when each was accessed last (at most K times) and who is evictable. `MaxTimestamp` bounds accesses.

### Buffer pool

A step is what a thread does between two points where it can wait: for `bpm_latch_`, or for a frame's `shared_mutex`.
`pc` is where it waits. `read_page` and `write_page` are therefore two steps, `Hit`, `Miss` or `MissThrows`, which take
`bpm_latch_` and keep it, and `Latched`, which gets the frame's latch and returns; `ReadPageGuard::flush` is three, because it
gives its read latch up and queues for the write latch. `ensure_free_frame` is modelled as it is: the victim's page stays in
`frame_table_` and its data is not written back. `pins` wrap at `PinModulus` (2^64 in the code). A thread has at most one
guard; a program thread with several is several threads of the model. `get_data_mut` marks the frame dirty and hands out a reference; the
client's writes through it, `write_data`, are steps of their own. A client in `LateWriters` keeps the reference over a `flush` of its
guard and may write again, the others ask for a new one. `WriteBack`, the copy, the storage write and the cleared flag of a flush, is one
step: the flushing thread has the frame's write latch, so no other thread's guard sees the frame in between. A reader gets the
latch whenever no writer has it, also past one that waits, as glibc's default `shared_mutex` lets it.

### Pager

A database value is the sequence of pages in the file and the pager's counter. A page is its header and its cells; the byte
layout, checksums and free-space counters are left out. The managers read the file afresh at every use and write it before
they return, so they have no state. `PagerCalls` keeps what the caller knows: the pages it `held`, those it `freed` in
order, the chains `stored` with their pages and chunks. An overflow chain is written one page of the file at a time,
pages taken first, as in the two loops of `_write_overflow_chain`.

### B+tree

A cursor call is one step. The restructuring it sets off is a function of a tree value (database, root, line of the first
assert that failed), one operator per function of `utils.cpp`: `split_cursor_leaf`, `split_cursor_node`,
`assign_children_nodes`, the borrow and merge functions, `balance_node`. Binary searches are modelled by what they find. An
assert that fails keeps its line in `aborted` and ends the program: those on the cursor a call starts from, on what a descent finds, on
the structure the restructuring relies on, and on where a call leaves the cursor. Left out are asserts that compare a page's count
with the cells just read from it, or ask the type of a page for which the model has no other. A split leaves the old page behind, in the code and in the
model. `BTreeMap` has two removals: `Remove`, after which the cursor is on the next key, and `RemovePastLeaf`, after which it is on none;
`ImplementsMap` allows the second only for the last cell of a leaf.

### File cache

A cache value has the fields of `FileCache`: the map, the list as nodes with `prev` and `next`, `head_`, `tail_` and the size. `insert_node`,
`delete_node`, `get` and `put` rewrite the links one by one as the code does. `FileCacheCalls` adds what the cache is for (`recent`, the
keys in the order of use) and the descriptors open in the process; `~LocalFile` closes nothing, so `lost` collects the files that a
destroyed cache leaves open. `Put` has the guard of its only caller, `open_segment`: the key is not cached.

### Storage engine

An engine value holds the file system, the file cache, the table metadata and `control_`. In the file system a name leads to a file, so an
unlinked file lives on while the cache has it. Every public call is an operator that returns the new value and how the call ended;
`StorageCalls` turns each into an action. `stored`, a variable for the properties, holds the pages of the *sound* tables: created
whole, over no open file of an earlier table of that number, and neither truncated nor deleted since. The process dies between
calls (`Restart`), inside `create_table` (`DieCreating`), inside the loop of unlinks (`DieDeleting`), inside the first `init_control`
(`DieInControl`, which also leaves `control_` unset), and in every assert that fails. What was handed to the operating system
survives. The engine reads `control_` nowhere. The branch of `get_latest_page` that goes to disk always ends in the assert of line 104.

### Catalog

A call of `CatalogManager` is one step that runs the tree's operations one after the other. A row is its fields in order, cut into pages of
`PageFields` fields, and read back from them; the number of columns is taken modulo 2^16, as in the code. A name is one value and stands for one
shorter than 2^16 bytes: the `uint16_t` lengths that would cut a longer one (`catalog.cpp:87`, `92`, `104`) are left out. `header_oid` is the next oid on the header page, `next_oid` the manager's. `create_table_fails`
is the header write that throws after the row went in; `create_table_throws` is `insert` meeting a duplicate key; `Reopen` is another
manager on the same pager, which starts at page 2. `strays` (rows no table claims) and `behind` (a manager was opened on an old
header) are for the properties only.

### Record codec

Bytes are numbers 0 to 255; integers are written most significant byte first, in their true width and two's complement. TLC's integers have 32
bits, so the values of an instance lie within that range; the proofs have no such bound. The bitmap is there if the *table* has a nullable
column. `Written` and `Reads` are the two loops, as functions of how many columns are done.

### SQL parser

A rule function of `SQLiteParser.cpp` is the sequence of its parts in the order it runs them (`Grammar`): tokens to match, rules to call,
and decisions, either on the next token (`switch`, `if`, `while` on `LA(1)`) or by `adaptivePredict`. The case labels and bit sets that the
functions compare `LA(1)` with equal the tokens the alternative can start with, so they are computed (`FirstOf`) and not
written down. `SQLParser` runs the parts on a stack of contexts and builds the tree. `adaptivePredict` is external: the lowest
alternative from which the rest of the text can be derived. The first error ends the parse; recovery is the runtime's.

### Front end

`ASTBuilder`, `Binder` and `DDLExecutor` read the tree, the node and the bound statement; the program that hands each to the next is not in the
repository and is the order of the steps here. `meant` is what the text declares, or `None` for texts that are only parsed. `toupper` works
letter by letter, so types are found in any mix of cases. The
model keeps what the code does: `is_primary_key` and `is_nullable` are uninitialised until a constraint sets them, so either value is
possible; any constraint with the token `NULL`, `NOT NULL` too, sets `is_nullable`; `getText` runs the words of a type together, so
`INT EGER` is a known type and `text(9)` is not; a column without a type crashes; every `DROP` becomes `drop_table`; the schema
name, `IF NOT EXISTS` and table constraints are ignored; `CREATE TABLE ... AS` declares no column.

## 3. Runs

| Run | Instance | Shows |
|---|---|---|
| `lruk` | 3 frames, K = 2, 6 accesses | indexes and counter exact; every victim is an LRU-K one; `RefinesPolicy` |
| `pool_fits` | 3 threads, 2 pages, 2 frames | with a frame for every page: latch exclusion, frames not shared, the assert of `size()`, pins exact, guarded pages stay, clean frames on disk, contents stable |
| `pool_overcommit` | 1 thread, 2 pages, 1 frame | violation: the assert of `size()` fails after an eviction by `ensure_free_frame` |
| `pool_joined` | 2 threads, 3 pages, 2 frames, 4 calls each, late writers | misses evict: no frame is lost even then; a thread that hangs does so because `bpm_latch_` stays locked, for one of two reasons (`LockedUp`), or because the program has ended (525,617 states) |
| `pool_contended` | 2 threads, 1 page, 1 call each | violation: two threads that ask for one page are never joined |
| `pager` | 6 pages, payloads of 1 to 3 pages | the free list is what was freed; each page has one user; payloads stay |
| `btree` | 7 keys, at most 2 cells a page | B+tree invariants, leaf links, page ownership, why asserts fail, `ImplementsMap` (52,394 states) |
| `filecache` | 4 keys, room for 3 | list, map and size agree; open files are the cached ones; only the oldest leaves (38,752 states) |
| `storage` | 2 tables, 3 pages and 1, segments of 2, room for 1 file | pages read back as written, files laid out exactly, no call on a sound table fails, and the engine only dies over a table that is unsound or past its first segment (220,831 states) |
| `catalog` | 2 names, 4 oids, leaves of 2 rows | maps, rows and pages agree; oids are fresh; a second manager finds every table while the root is page 2 and no name was used twice (463,209 states) |
| `record` | every table of up to 3 columns; 7, 8, 9 and 17 flags | rows read back as written, no read off the record (30,470 states) |
| `front_end` | 1,775 texts | statements accepted, slips refused, operators grouped, every parse ends, every text with typed columns answered: names, types and the flags that `PRIMARY KEY` and `NULL` state arrive (252,654 states) |

Both refinements (`RefinesPolicy`, `ImplementsMap`) are call by call: besides the abstract specification they require of every call the
abstract action of the same name. The specification alone would allow a wrong `prev` that happens to be a legal `move_to_key`, or an
access that is silently dropped, since that is a stuttering step.

The two runs that expect a violation are the findings in `PROJECT.json`:

* `pool_overcommit`: a miss in a full pool leaves the victim's page in `frame_table_` (`bufferpool.cpp:52`), against the assert of `size()`;
* `pool_contended`: a guard's constructor waits for the frame's latch with `bpm_latch_` locked, and the guard that has the latch
  cannot be dropped without `bpm_latch_` (`bufferpool.cpp:121`), so two threads that ask for one page, as those of `test_pageguard.cpp:112`, never
  come back. `pool_joined` shows what is left of termination: only this, its likes with a read guard or a flush, and the first
  point of the next list keep a thread from coming back while the program runs.

The code fails in the following ways too, and the models with it, but for the pager's constructor and `put` of a cached key, which no call of a
model makes. The properties are stated so that they hold around these failures, and name the line or the condition. Where no property would
catch one, its hazard in `PROJECT.json` says so.

* a read past the last page throws with `bpm_latch_` locked by hand, and nobody gets it again (`bufferpool.cpp:27`): the other reason in `LockedUp`;
* a write through a reference kept over `flush` is not marked dirty (`pageguard.cpp:162`), although a clean frame should be what the disk has
  (`test_pageguard.cpp:158`). Hence `LateWriters = {}` in `pool_fits` and in the two theorems on contents;
* `evict_page` and a miss drop a dirty frame without writing it back (`bufferpool.cpp:148`): `ContentStable` allows that loss in `evict_page`;
* a removal that leaves the rightmost leaf of a node too small fails `assert(parent.second < parent_npm.num_cells_)` (`utils.cpp:332`).
  `AbortCauses` says that besides it asserts fail only for the caller's reasons: no cell under the cursor, or an end asked of an empty tree
  or, by `move_to_last`, of a single leaf;
* after `remove` of the last key of a leaf the cursor is past that leaf, not on the next key as `btree.cpp:420` says, and a `next` that
  follows aborts: the one case in which `ImplementsMap` allows `RemovePastLeaf`;
* once the schema tree has split, another manager starts at page 2, which is no longer the root (`utils.cpp:575`), and does not find every table; a name
  created twice leaves a row that outlives the drop, and the table is back for the next manager (`catalog.cpp:48`): the two conditions of `ReopenKeepsTables`;
* `NOT NULL` makes a column nullable (`ast.cpp:19`), so that `record.cpp:122` never refuses its NULLs; a flag that no constraint states
  has any value (`ast.h:17`); a column without a type crashes the builder (`ast.cpp:13`): `Answered` speaks of texts with typed columns, and of the
  flags that `PRIMARY KEY` and `NULL` state;
* `Pager`'s constructor overwrites the header page of a file that exists (`pager.cpp:30`; `pager.h:30` assumes it is kept);
* `put` of a cached key takes it out of the map and leaves it in the list (`filecache.cpp:68`); the engine never does it;
* an engine with a table past its first segment cannot be opened again (`storage.cpp:49`), and one that has truncated or deleted a
  table cannot shut down (`storage.cpp:219`): `FailsOverUnsound` says that nothing else kills it there;
* a table created again under the number of a deleted one writes to the deleted file, if the cache still has it (`storage.cpp:67`);
  such a table is not sound;
* a header write that fails leaves an oid that a later manager gives out again, and throws (`catalog.cpp:51`): `RowsExact` excepts it;
* dropping a table also drops one that was once its dependent and has been created again for itself (`catalog.cpp:68`).

Why the bounds are enough. *Evictor*: K = 2 with 6 accesses takes a frame below K, to K and past K while two others
compete. *Pool*: three threads are a holder, a waiter and a third party that evicts, flushes or hits; two pages are the
least that can be confused, and in `pool_joined` three pages on two frames force evictions through `ensure_free_frame`.
`PinModulus` 8 exceeds the number of guards, as 2^64 does, and a pin count below zero still shows. *Pager*: six pages hold
a header, a chain of three taken partly from the list, and two pages with other users. *B+tree*: two cells a page and
seven keys give three levels; every branch of borrow (left and right, leaf and node), merge and split is reached, and so are
chains on reused pages. `MaxFree` bounds the free list after a removal. One removal frees at most three pages (a leaf merge, a node merge and
the old root), so with `MaxFree` 4 the shrink from three levels to two is explored, also with a page on the list before it. `MaxPages`, never reached, bounds
the file. *File cache*: three nodes are the least with one that is neither head nor tail. *Storage*: three pages in segments of two are a
full segment and a started one; the second table is there to be confused with the first, and a cache of one file makes
every switch between files an eviction. *Catalog*: four oids on leaves of two rows make the schema tree split and merge, with names
used again. *Record*: the bitmap's second and third byte start at columns 9 and 17. *Front end*: the statements enter all 114 rules; three
binary operators in a row, with NOT, a sign and parentheses, put any two levels side by side on either side of any third.

Page numbers of a B+tree only grow, so trees that differ in nothing but numbers would be counted as different for ever.
`MCBTree` uses a `VIEW` that names a page by its place in the tree. No code compares page numbers except for equality, so
states with one view have the same futures; `NoPageTwice`, which speaks of page numbers, and the pager's page count are themselves part of the view.
`MCStorage`'s `VIEW` leaves the control file out once a table exists: only `DieInControl`, which needs an empty disk, depends on
it. It keeps of `failure` only what `FailsOverUnsound` says of it, since no call reads it.

`CHECK_DEADLOCK FALSE` is set where the program may stop: after a failed assert, at a bound on oids or pages, or where threads may lock
each other up.

**Fairness.** The front end is one thread of code that runs to its end, so `FrontEnd` has weak fairness of its next step. `BufferPoolJoin`: weak fairness of each thread's steps inside the pool's code or with a guard in
hand. The operating system runs every runnable thread and a guard's scope ends; `std::mutex` promises no more, so no strong
fairness is assumed. That a thread is not overtaken for ever follows from the bound on calls.

## 4. Proofs

All are for every value of the constants, from the named `ASSUME`s of the modules.

* **`LRUKEvictorProofs`** (any frames, any K): `TypeCorrect`, `IndexesAlwaysExact`, `SizeAlwaysExact`, `VictimIsLRUK` and
  `ImplementsPolicy`. The
  inductive invariant is the run's state invariants with `HistoryOK`: exact indexes depend on histories being
  increasing and at most K long (`HistoryOK`), and the counter on the indexes being exact, since `evict` decrements it for
  the element it finds in them. `VictimIsLRUK` then follows because the least key of an exact index is the oldest access.
  `ImplementsPolicy` is the refinement `RefinesPolicy`, call by call, from the same invariant. The policy
  remembers accesses as a sequence of frames, the code as timestamps; `OrderUnique` says that the order of the
  accesses is fixed by any sequence that lists the stamps increasingly. From it follow what an access below K (`AppendOrder`), an access
  at K that pushes the oldest one out (`ReplaceOrder`) and a removed frame (`EraseOrder`) do to that order, and `VictimIs`: the least key of
  the two indexes is the frame the policy chooses.
* **`OrderProofs`**: lemmas on the elements of a finite set of numbers in order. `NthUnique` says that an increasing sequence
  of a set's elements is the only one; `WithoutFacts`, what is left of a sequence once an element is dropped. The refinement of
  the policy and the storage engine's `shutdown()` rest on them.
* **`BufferPoolProofs`** (any threads, frames and pages): `PoolTypeCorrect`, `LatchesExclude` and `FramesNeverLost` for pools of
  any size; `SizeAssertHolds` and `FramesNeverShared` under `NumPages <= NumFrames`. The hypothesis is needed: without it
  `pool_overcommit` is a counterexample. `BaseInv` adds to types who owns `bpm_latch_` at each `pc`, that a thread with a guard has a
  frame, that cached pages exist, and that only remembered frames are evictable; `FitInv` adds the size equation, from which a miss always finds
  `free_list_` non-empty, so that `ensure_free_frame` never evicts. Latch exclusion needs `LatchInv`, which ties `writer` and
  `readers` to the `pc` of their owners through the three-step flush of a read guard.
* **`BufferPoolProofs`**, second part (under `NumPages <= NumFrames`): `PinsAlwaysExact`, `GuardedPagesStay`, `CleanAlwaysOnDisk`,
  `ContentAlwaysStable`, `EvictableAlwaysExact`. The first two are inductive only together, in `GuardInv`: `evict_page` spares
  a guarded frame because its pins are not zero, and a pin is counted on the right frame because the page has stayed in it. A
  frame's content and dirty flag (`ContentInv`) need both, since a guard writes to its frame and not to its page, and that pages not handed out yet are zero on disk.
  They need `LateWriters = {}` too (a late writer's second write makes a clean frame differ from the disk): `RefDirty` says that whoever has a reference has the frame's write latch and the frame is dirty. `EvictableAlwaysExact` adds what
  the evictor knows of each frame (`FrameKnown`), and K > 1: with K = 1 the evictor never remembers the two
  accesses that tell a frame of `new_page` from one whose guard was dropped. The code has `EVICTOR_K` = 2.
* **`PagerCallsProofs`** (any payloads, any number of pages): `PagerTypeCorrect`, `FreeListAlwaysExact`, `PagesUsedOnce`,
  `PayloadsStay`. None is inductive alone: a write keeps the list only if the page written is not on it (`OneUse`), and a page
  taken is unused only if the head is the last page freed (`FreeListExact`). `JobOK` adds how far the chain being written has got,
  which is what makes it intact when it is stored. The lemmas on the pager's operators say which pages each leaves alone.
* **`FileCacheLemmas`, `FileCacheProofs`** (any keys, files, nodes and capacity): `ListAlwaysExact`, `FilesAlwaysExact`, `OldestEvicted`. The inductive
  invariant `CacheInv` says that the list, the map, the nodes and the counter represent `recent` (`Represents`), that no file has two keys,
  and which files are open. The lemmas follow one node through `insert_node` and `delete_node`: unlinking the i-th node
  of a list that represents a sequence leaves a list that represents the sequence without its i-th entry. `put` finds a free
  node because at most `max_size_` are in use when it asks for one. The lemmas on `get` and `put` are also what the next proof uses.
* **`StorageProofs`** (any tables, page counts, values, segment size and cache): `PagesAlwaysExact`, `LayoutAlwaysExact`,
  `OnlyUnsoundFail`. `PagesExact` is far from inductive: a write keeps the pages of other tables only if no two names share a file and no
  cached file is the file of another name, and a page is found only if the files are cut as `LayoutExact` says. The invariant is
  `StorageInv` with `FailsOverUnsound`. `EngineOK`, its part for every engine, sound tables or not, says that names
  have files of their own in directories that exist, that a cached file is nobody else's (it may be an unlinked file of an earlier table
  of that number), that the cache represents a list, and that every file has a name or is open. `TableOK` says of a sound table
  that its files hold exactly the segments of `stored[t]` (`OnDisk`) and that its open files are the ones its names lead to
  (`OpenRight`); in a running process `Counts` ties the metadata to the number of pages. One lemma per call (`CreateIs`, `AllocateIs`, `WriteIs`,
  `FlushIs`, `TruncateIs`, ...) says that it keeps `EngineOK` and every other table (`Spares`), and what it makes of its own;
  `SegmentGrows`, `SegmentChanges` and `SegmentRetitled` say which segment a page appended, rewritten or retitled lies in. `SyncIs` and
  `ShutdownIs` go over the segments and the tables by induction on how many are done, as a least counterexample, since the induction
  theorems of the library cannot be applied. A restart loses the cache and the metadata; `OpenedIs` finds every
  page again and counts them, or stops over a table that is not in one segment. The assumptions are that table
  numbers are naturals, that a table stays below 2^64 pages (`PgnoRange`), that the bytes past the end of a file are no value
  anyone writes, and that `open()` finds an inode that is not in use.
* **`RecordProofs`** (any table and any row of it): `RowsComeBack`. `RecordInv` ties each step of the machine to what was
  written; all of the work is in `CodecRight`, that `deserialize` of the bytes of `serialize` is the row. `Read16`, `Read32` and `Read64` say that a number is read back
  from its bytes, the sign included; `ReadValueIs` the same of a value, by its column's type; `BitFound` that `is_null` asks the bit that
  `set_bit` set. `SerializedIs` finds the three parts of a record where the reader looks for them, `ValueHeld` each value's bytes behind those of the
  values before it, and `TurnIs` follows the loop one column further. A NULL is found only because a table without a nullable column has none to find
  (`NullsFlagged`), which is what `serialize` throws for. The loops are followed by least counterexample, as above. `TablesAssumption` is what the types of
  the code allow: a value of every column, integers of 64 bits, texts that a `uint32_t` can count (the assert of
  record.cpp:21), fewer than 65536 columns (`deserialize` counts them in a `uint16_t`, and would start over with more).

Only model-checked:

* liveness (`OnlyLockUpsHang`, `VerdictRight`, `Answered`), which is out of the prover's reach;
* `BTree` with `ImplementsMap`, `Catalog`, the parser and `FrontEnd`: descents and trees are `RECURSIVE` operators, which TLAPS does not
  support.

## 5. Not modelled

* The lexer and the serialized ATN are data, and the context, listener and visitor classes are generated boilerplate. Prediction
  is modelled by what it decides; the runtime's error recovery is not modelled.
* Power loss: what was written survives the process. `os_flush` and `set_next_overflow_page` have no callers.
* The data race of two guards that flush through one file cache without `bpm_latch_` (`pageguard.cpp:161`): the pool model takes a storage
  call as one atomic step, and the cache's callers are sequential.
* Descriptor numbers that copies of one `OsFile` share and close twice (`osfile.cpp:18`).
* Failed reads and writes of the database file, except the header write of `create_table`; a crash between two of the pager's
  writes, and opening a file that exists: the constructor discards what either would leave.
* Byte layout, checksums and free-space counters of pages.

## 6. Plan

In order of importance to the system; the parts marked *done* are those above.

1. LRU-K evictor and its policy, with proofs (*done*).
2. Buffer pool with guards and threads; liveness of joined threads; safety proofs under `NumPages <= NumFrames` (*done*).
3. Pager with proofs; B+tree against an ordered map (*done*).
4. File cache, virtual file system, and the storage engine with crashes and restarts (*done*).
5. Catalog on the B+tree, with failing header writes and managers that take over (*done*).
6. Record codec; the parser's rules and the machine they run on; the front end (*done*).
7. Proofs of the pool's pins, guards, contents and evictability; of `RefinesPolicy`; of the file cache (*done*).
8. Proofs about the storage engine: where its pages lie and what they read as, over calls, deaths and restarts (*done*).
9. Proof that a record is read back as it was written (*done*).
