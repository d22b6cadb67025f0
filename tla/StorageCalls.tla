---------------------------- MODULE StorageCalls ----------------------------
(***************************************************************************)
(* Any sequence of calls on a StorageEngine, with the process dying and    *)
(* being started again at any point: between two calls, inside             *)
(* create_table, truncate_table and delete_table, and in an assertion that *)
(* fails.  What was written to a file survives the process; power loss is  *)
(* not modelled.                                                           *)
(*                                                                         *)
(* stored is what the engine is for: the pages of every table that was     *)
(* created whole, over no open file of an earlier table of that number,    *)
(* and not truncated or deleted since.                                     *)
(***************************************************************************)
EXTENDS StorageEngine, SequencesExt

CONSTANTS Tables,    \* table numbers in use
          Values,    \* what write_page may be given
          MaxPages   \* bound: pages in each table

Pages == UNION {0..(MaxPages[t] - 1) : t \in Tables}
Segments == {pgno_to_segid(p) : p \in Pages}

ASSUME TablesAssumption == Tables \subseteq Nat
ASSUME PagesAssumption == /\ PgnoRange \in Nat
                          /\ MaxPages \in [Tables -> Nat \ {0}]
                          /\ \A t \in Tables : MaxPages[t] < PgnoRange
ASSUME ValuesAssumption == Short \notin Values \cup {Zero}
ASSUME KeysAssumption == Tables \X Segments \subseteq Keys
\* open() always finds an inode: a file has a name or is in the cache.
ASSUME FileIdsAssumption ==
    IsFiniteSet(FileIds) => /\ IsFiniteSet(Keys)
                            /\ Cardinality(FileIds) > Cardinality(Keys) + max_size_

VARIABLES engine,    \* the engine of the running process
          alive,     \* is a process running
          stored,    \* pages of the sound tables
          failure    \* how the last call failed, and on which table

vars == <<engine, alive, stored, failure>>

NoTable == -1
NoFailure == [tbl |-> NoTable, out |-> "ok"]
FailureOf(t, out) == IF out = "ok" THEN NoFailure ELSE [tbl |-> t, out |-> out]

Init == /\ engine = Opened(EmptyFS).e
        /\ alive = TRUE
        /\ stored = <<>>
        /\ failure = NoFailure

\* The engine after a call; an assertion that failed ends the process.
Exceptions == {"ok", "exists", "open failed", "ls failed", "past last page"}
Returns(t, r) ==
    /\ alive
    /\ engine' = r.e
    /\ alive' = (r.out \in Exceptions)
    /\ failure' = FailureOf(t, r.out)

Sound == DOMAIN stored
HasOpenFile(t) == \E k \in DOMAIN engine.cache.filecache_ : k[1] = t
Forget(t) == Restrict(stored, Sound \ {t})

CreateTable(t) ==
    /\ Returns(t, create_table(engine, t))
    /\ stored' = IF create_table(engine, t).out = "ok" /\ ~HasOpenFile(t)
                   THEN Bind(stored, t, <<Page(Metadata(0, 1), Zero)>>)
                   ELSE stored

\* LocalFS::open throws in create_table: the process has no descriptor left.
CreateTableFails(t) ==
    /\ ~dir_exists(engine.fs, t)
    /\ ~exists(engine.cache, <<t, 0>>)
    /\ Returns(t, Fails(MadeTable(engine, t), "open failed"))
    /\ UNCHANGED stored

AllocatePage(t) ==
    /\ t \in DOMAIN engine.meta => (engine.meta[t].last + 1) % PgnoRange < MaxPages[t]
    /\ Returns(t, allocate_page(engine, t))
    /\ stored' = IF t \in Sound THEN [stored EXCEPT ![t] = Append(@, ZeroPage)] ELSE stored

ReadPageOf(t, p) ==
    /\ Returns(t, read_page(engine, t, p))
    /\ UNCHANGED stored

WritePageOf(t, p, v) ==
    /\ Returns(t, write_page(engine, t, p, v))
    /\ stored' = IF t \in Sound /\ p < Len(stored[t])
                   THEN [stored EXCEPT ![t] = [@ EXCEPT ![p + 1] = Page(v, v)]] ELSE stored

\* What a flush makes of the sound tables: page 0 starts with the metadata.
Flushed(S) ==
    [t \in Sound |->
        IF t \in S THEN [stored[t] EXCEPT ![1] =
                            Page(Metadata(Len(stored[t]) - 1, Len(stored[t])), @.body)]
                   ELSE stored[t]]

\* The orders in which ls() may list the segments of t.
Listings(t) == SetToSeqs(ls(engine.fs, t))

FlushTable(t, order) ==
    /\ Returns(t, flush_table(engine, t, order))
    /\ stored' = Flushed({t})

TruncateTable(t) ==
    /\ Returns(t, truncate_table(engine, t))
    /\ stored' = Forget(t)

DeleteTable(t) ==
    /\ Returns(t, delete_table(engine, t))
    /\ stored' = Forget(t)

\* shutdown() stops at the first table that fails; the ones before it are flushed.
Shutdown(order) ==
    LET r == shutdown(engine, order)
        Reached(t) == r.out = "ok" \/ \A u \in DOMAIN engine.meta :
                                         u <= t => seg_exists(engine.fs, u, 0)
    IN  /\ Returns(NoTable, r)
        /\ stored' = Flushed({t \in Sound : Reached(t)})

\* A process starts on what is on disk.
Start(fs) == /\ engine' = Opened(fs).e
             /\ alive' = (Opened(fs).out = "ok")
             /\ failure' = FailureOf(NoTable, Opened(fs).out)

Restart == Start(engine.fs) /\ UNCHANGED stored

\* The process dies inside create_table, with the directory made, or the
\* segment file too, and is started again.
DieCreating(t) ==
    /\ alive
    /\ ~dir_exists(engine.fs, t)
    /\ \/ Start(mkdir(engine.fs, t))
       \/ Start(OpenFile(mkdir(engine.fs, t), t, 0))
    /\ UNCHANGED stored

\* The process dies inside truncate_table or delete_table, with some of the
\* segment files unlinked, and is started again.
DieDeleting(t) ==
    /\ alive
    /\ \E S \in SUBSET ls(engine.fs, t) : S # {} /\ Start(unlink(engine.fs, t, S))
    /\ stored' = Forget(t)

\* The process dies inside the first init_control, before it writes the file.
DieInControl ==
    /\ alive /\ engine.fs.dirs = {} /\ engine.control_ = "unset"
    /\ Start([control |-> "empty", dirs |-> {}, names |-> <<>>, data |-> <<>>])
    /\ UNCHANGED stored

Calls == \E t \in Tables :
            \/ CreateTable(t) \/ CreateTableFails(t) \/ AllocatePage(t)
            \/ \E p \in Pages : ReadPageOf(t, p) \/ \E v \in Values : WritePageOf(t, p, v)
            \/ \E order \in Listings(t) : FlushTable(t, order)
            \/ TruncateTable(t) \/ DeleteTable(t)

Next == \/ Calls
        \/ \E order \in [Tables -> UNION {Listings(t) : t \in Tables}] :
              (\A t \in Tables : order[t] \in Listings(t)) /\ Shutdown(order)
        \/ Restart \/ DieInControl
        \/ \E t \in Tables : DieCreating(t) \/ DieDeleting(t)

Spec == Init /\ [][Next]_vars
-----------------------------------------------------------------------------
\* The file a page of a table would be read from.
FileFor(t, p) ==
    LET k == <<t, p \div segment_size>>
    IN  IF k \in DOMAIN engine.cache.filecache_ THEN FileOf(engine.cache, k) ELSE engine.fs.names[k]

\* read_page of any page of a sound table returns what was last written to
\* it (zeros after allocate_page, the metadata on page 0 after a flush),
\* and the metadata counts exactly its pages: over evictions of its files,
\* calls on other tables that fail, are truncated, deleted or made again,
\* flushes, and the process dying and being started again.
PagesExact ==
    alive => \A t \in Sound :
        /\ t \in DOMAIN engine.meta
        /\ engine.meta[t] = [last |-> Len(stored[t]) - 1, total |-> Len(stored[t])]
        /\ \A p \in 0..(Len(stored[t]) - 1) :
              engine.fs.data[FileFor(t, p)][(p % segment_size) + 1] = stored[t][p + 1]

\* On disk a sound table is a run of segment files, all full but the last,
\* and a cached file of it is the file its name leads to.
LayoutExact ==
    \A t \in Sound :
        LET n == Len(stored[t])
            segs == {k[2] : k \in {j \in DOMAIN engine.fs.names : j[1] = t}}
        IN  /\ segs = 0..((n - 1) \div segment_size)
            /\ \A s \in segs : Len(engine.fs.data[engine.fs.names[<<t, s>>]]) =
                    IF (s + 1) * segment_size <= n THEN segment_size ELSE n % segment_size
            /\ \A k \in DOMAIN engine.cache.filecache_ :
                    k[1] = t => FileOf(engine.cache, k) = engine.fs.names[k]

\* A call on a sound table never fails an assertion and never throws, but
\* for a page past its last one and for creating it again.  An assertion
\* that fails in shutdown() or when the engine is opened again is over a
\* table that is not sound or has outgrown its first segment: with neither
\* in memory or on disk the engine always comes back
\* (lib/storage/storage.cpp:49, 219).
FailsOverUnsound ==
    /\ failure.tbl \in Sound => failure.out \in {"past last page", "exists"}
    /\ ~alive /\ failure.tbl = NoTable =>
           \E t \in engine.fs.dirs \cup DOMAIN engine.meta :
               t \notin Sound \/ Len(stored[t]) > segment_size
=============================================================================
