---------------------------- MODULE StorageEngine ----------------------------
(***************************************************************************)
(* storage::StorageEngine (lib/storage/storage.cpp): tables in segment     *)
(* files, over LocalFS and FileCache.  An engine e is the file system, the *)
(* table metadata and the cache of open segment files, kept in memory.     *)
(* Each operator returns the engine after the call and the outcome: "ok",  *)
(* the exception, or the line of the assertion that failed.                *)
(***************************************************************************)
EXTENDS FileCache, LocalFS, Order

CONSTANTS segment_size,  \* pages in a segment
          PgnoRange      \* 2^64: PageNumber is a uint64_t

ASSUME SegmentSizeAssumption == segment_size \in Nat \ {0}

pgno_to_segid(p) == p \div segment_size
pgno_to_rel_pgno(p) == p % segment_size

\* An engine with another file system or cache, or metadata of a table.
WithFS(e, fs) == [fs |-> fs, meta |-> e.meta, cache |-> e.cache, control_ |-> e.control_]
WithCache(e, c) == [fs |-> e.fs, meta |-> e.meta, cache |-> c, control_ |-> e.control_]
WithMeta(e, t, m) ==
    [fs |-> e.fs, meta |-> Bind(e.meta, t, m), cache |-> e.cache, control_ |-> e.control_]

\* How a call ended; a file in hand comes with it.
Ok(e) == [e |-> e, out |-> "ok"]
Fails(e, why) == [e |-> e, out |-> why]
InHand(e, i) == [e |-> e, out |-> "ok", file |-> i]

\* VirtualFile::write: file i has new contents.
Wrote(e, i, file) ==
    WithFS(e, WithFiles(e.fs, e.fs.names, [e.fs.data EXCEPT ![i] = file]))

Tidy(e) == WithFS(e, Freed(e.fs, {FileOf(e.cache, k) : k \in DOMAIN e.cache.filecache_}))

\* open_segment: from the cache, or opened (and created) and put there.
open_segment(e, t, s) ==
    LET k  == <<t, s>>
        fs == OpenFile(e.fs, t, s)
        i  == fs.names[k]
    IN  IF exists(e.cache, k) THEN InHand(WithCache(e, get(e.cache, k)), FileOf(e.cache, k))
        ELSE IF ~dir_exists(e.fs, t) THEN Fails(e, "open failed")
        ELSE InHand(Tidy(WithCache(WithFS(e, fs), get(put(e.cache, k, i), k))), i)

\* get_segment: open_segment of a file that must be there.
get_segment(e, t, p) ==
    LET s == pgno_to_segid(p)
    IN  IF ~dir_exists(e.fs, t) \/ ~seg_exists(e.fs, t, s) THEN Fails(e, "assert 79")
                                                          ELSE open_segment(e, t, s)

\* get_latest_page of a table whose metadata is not in memory reads a page
\* and asserts that the two numbers in it were the whole of it.
get_latest_page(e, t) ==
    LET first == open_segment(e, t, pgno_to_segid(0))
    IN  IF t \in DOMAIN e.meta THEN [e |-> e, out |-> "ok", last |-> e.meta[t].last]
        ELSE IF first.out # "ok" THEN first ELSE Fails(first.e, "assert 104")

Metadata(last, total) == [last |-> last, total |-> total]

\* create_table.  After mkdir, opening the segment may fail.
MadeTable(e, t) == WithFS(e, mkdir(e.fs, t))

create_table(e, t) ==
    LET seg  == open_segment(MadeTable(e, t), t, pgno_to_segid(0))
        meta == Metadata(0, 1)
    IN  IF dir_exists(e.fs, t) THEN Fails(e, "exists")
        ELSE Ok(Wrote(WithMeta(seg.e, t, meta), seg.file,
                      WritePage(seg.e.fs.data[seg.file], 0, Page(meta, Zero))))

\* Mutant: the page is written at its number, not at its place in the segment.
allocate_page_mutant_offset(e, t) ==
    LET latest == get_latest_page(e, t)
        p   == (latest.last + 1) % PgnoRange
        seg == open_segment(latest.e, t, pgno_to_segid(p))
    IN  IF ~dir_exists(e.fs, t) THEN Fails(e, "assert 166")
        ELSE IF latest.out # "ok" THEN latest
        ELSE Ok(WithMeta(Wrote(seg.e, seg.file, WritePage(seg.e.fs.data[seg.file], p, ZeroPage)),
                         t, Metadata(p, (e.meta[t].total + 1) % PgnoRange)))

\* allocate_page: one zero page after the last one.
allocate_page(e, t) ==
    LET latest == get_latest_page(e, t)
        p   == (latest.last + 1) % PgnoRange
        seg == open_segment(latest.e, t, pgno_to_segid(p))
    IN  IF ~dir_exists(e.fs, t) THEN Fails(e, "assert 166")
        ELSE IF latest.out # "ok" THEN latest
        ELSE Ok(WithMeta(Wrote(seg.e, seg.file, WritePage(seg.e.fs.data[seg.file],
                                                          pgno_to_rel_pgno(p), ZeroPage)),
                         t, Metadata(p, (e.meta[t].total + 1) % PgnoRange)))

\* What read_page and write_page check, and the segment they go to.
PageSegment(e, t, p) ==
    LET latest == get_latest_page(e, t)
    IN  IF latest.out # "ok" THEN latest
        ELSE IF p > latest.last THEN Fails(latest.e, "past last page")
        ELSE get_segment(latest.e, t, p)

read_page(e, t, p) == PageSegment(e, t, p)

write_page(e, t, p, v) ==
    LET seg == PageSegment(e, t, p)
    IN  IF seg.out # "ok" THEN seg
        ELSE Ok(Wrote(seg.e, seg.file,
                      WritePage(seg.e.fs.data[seg.file], pgno_to_rel_pgno(p), Page(v, v))))

\* Mutant: the whole page is written, not TableMetadata::SIZE bytes of it.
WriteMetadata_mutant_page(e, t) ==
    LET seg == open_segment(e, t, pgno_to_segid(0))
    IN  IF t \notin DOMAIN e.meta THEN Ok(e)
        ELSE IF ~seg_exists(e.fs, t, pgno_to_segid(0)) THEN Fails(e, "assert 219")
        ELSE Ok(Wrote(seg.e, seg.file,
                      WritePage(seg.e.fs.data[seg.file], 0, Page(e.meta[t], Zero))))

\* flush_table, first part: the metadata in memory goes to page 0.
WriteMetadata(e, t) ==
    LET seg == open_segment(e, t, pgno_to_segid(0))
    IN  IF t \notin DOMAIN e.meta THEN Ok(e)
        ELSE IF ~seg_exists(e.fs, t, pgno_to_segid(0)) THEN Fails(e, "assert 219")
        ELSE Ok(Wrote(seg.e, seg.file, WriteHead(seg.e.fs.data[seg.file], e.meta[t])))

\* flush_table, second part: the segment files are opened and synced in the
\* order ls() returns them, which the operating system chooses.
SyncSegments(e, t, order) ==
    LET after[i \in 0..Len(order)] ==
            IF i = 0 THEN e ELSE open_segment(after[i - 1], t, order[i]).e
    IN  after[Len(order)]

flush_table(e, t, order) ==
    LET written == WriteMetadata(e, t)
    IN  IF written.out # "ok" THEN written
        ELSE IF ~dir_exists(e.fs, t) THEN Fails(written.e, "ls failed")
        ELSE Ok(SyncSegments(written.e, t, order))

\* truncate_table and delete_table: files and directory go; the metadata
\* and the open files of the table stay in memory.
truncate_table(e, t) ==
    IF ~dir_exists(e.fs, t) THEN Fails(e, "ls failed")
      ELSE Ok(Tidy(WithFS(e, unlink(e.fs, t, ls(e.fs, t)))))

delete_table(e, t) ==
    LET empty == truncate_table(e, t)
    IN  IF empty.out # "ok" THEN empty ELSE Ok(WithFS(empty.e, rmdir(empty.e.fs, t)))

\* shutdown: flush_table of every table in table_metadata_, in the order of
\* their numbers, up to the first that fails.
shutdown(e, order) ==
    LET tables == InOrder(DOMAIN e.meta)
        after[i \in 0..Len(tables)] ==
            IF i = 0 THEN Ok(e)
              ELSE LET r == after[i - 1]
                   IN  IF r.out # "ok" THEN r ELSE flush_table(r.e, tables[i], order[tables[i]])
    IN  after[Len(tables)]

\* init_control: the file is made on the first start and read on the next
\* ones; control_ is set only from a file with the checksum.
init_control(fs) ==
    [fs |-> [control |-> IF fs.control = "absent" THEN "valid" ELSE fs.control,
             dirs |-> fs.dirs, names |-> fs.names, data |-> fs.data],
     control_ |-> IF fs.control = "valid" THEN "set" ELSE "unset"]

\* init_table_metadata: a table's pages are counted from its segment files.
Counted(fs, t) ==
    LET total == FilePages(fs.data[fs.names[<<t, CHOOSE s \in ls(fs, t) : TRUE>>]])
    IN  Metadata((total - 1) % PgnoRange, total)

\* Mutant: the list of files is not cleared from one table to the next.
OneSegmentEach_mutant_list(fs) ==
    \A t \in fs.dirs : \E s \in ls(fs, t) : DOMAIN fs.names = {<<t, s>>}

OneSegmentEach(fs) == \A t \in fs.dirs : \E s \in ls(fs, t) : ls(fs, t) = {s}

\* The constructor, on what an earlier process left.
Opened(old) ==
    LET ctl == init_control(old)
        fs  == Freed(ctl.fs, {})
        Engine(meta) == [fs |-> fs, meta |-> meta, cache |-> EmptyCache,
                         control_ |-> ctl.control_]
    IN  IF OneSegmentEach(fs) THEN Ok(Engine([t \in fs.dirs |-> Counted(fs, t)]))
                              ELSE Fails(Engine(<<>>), "assert 49")
=============================================================================
