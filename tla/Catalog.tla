------------------------------- MODULE Catalog -------------------------------
(***************************************************************************)
(* CatalogManager (lib/catalog): the tables of the database, in memory and *)
(* as the rows of a B+tree whose root was page 2 when the file was new.    *)
(* Every table has a row under its oid, and a root page of its own.        *)
(*                                                                         *)
(* A call is one step: it runs the tree's operations one after the other.  *)
(* next_oid of the header page is the variable header_oid.                 *)
(***************************************************************************)
EXTENDS BTree, TLC

CONSTANTS Names,
          OwnersOf(_),     \* the tbl_name a caller gives a table of a name
          Columns,         \* the lists of columns a caller gives it
          PageFields,      \* the fields of a row that fit one page
          MaxOid           \* bound: oids given out

ASSUME PageFieldsAssumption == PageFields \in Nat \ {0}

VARIABLES tables, table_oids, table_root_pages, table_dependencies,
          next_oid, header_oid,
          strays,          \* for the properties: oids of rows no table claims,
          behind           \* and: a manager was opened on an old header

catVars == <<tables, table_oids, table_root_pages, table_dependencies,
             next_oid, header_oid, strays, behind>>
allVars == <<vars, catVars>>

CPPLITE_SCHEMA_PGNO == 2

NoMap == [x \in {} |-> x]
Without(f, x) == [y \in DOMAIN f \ {x} |-> f[y]]

CatalogInit ==
    /\ Init
    /\ tables = NoMap /\ table_oids = NoMap
    /\ table_root_pages = NoMap /\ table_dependencies = NoMap
    /\ next_oid = 1 /\ header_oid = 1
    /\ strays = {} /\ behind = FALSE
-----------------------------------------------------------------------------
(***************************************************************************)
(* A row: the fields of the table and its root page, in the order they are *)
(* written, cut into pages.  The number of columns is a uint16_t.  So are  *)
(* the lengths written before the names: a name is one value here, and     *)
(* stands for one shorter than 2^16 bytes, which its length does not cut.  *)
(* The type byte of the table is left out: it is always TABLE.             *)
(***************************************************************************)
serialize_table(t, root) ==
    LET num_cols == Len(t.columns) % 2^16
    IN  <<t.name, t.tbl_name, root, num_cols>> \o
        FlattenSeq([i \in 1 .. num_cols |->
                       <<t.columns[i].type, t.columns[i].name, t.columns[i].is_primary_key,
                         t.columns[i].is_nullable>>])

InPages(row) ==
    LET pages == (Len(row) + PageFields - 1) \div PageFields
    IN  [i \in 1 .. pages |->
            SubSeq(row, (i - 1) * PageFields + 1,
                   IF i = pages THEN Len(row) ELSE i * PageFields)]

\* Mutant: the two flags are read in the other order.
deserialize_table_mutant_flags(row) ==
    [table |-> [name |-> row[1], tbl_name |-> row[2],
                columns |-> [i \in 1 .. row[4] |->
                    [type |-> row[4 * i + 1], name |-> row[4 * i + 2],
                     is_primary_key |-> row[4 * i + 4], is_nullable |-> row[4 * i + 3]]]],
     root  |-> row[3]]

\* (Its assert: the row ends where the last column does.)
deserialize_table(row) ==
    [table |-> [name |-> row[1], tbl_name |-> row[2],
                columns |-> [i \in 1 .. row[4] |->
                    [type |-> row[4 * i + 1], name |-> row[4 * i + 2],
                     is_primary_key |-> row[4 * i + 3], is_nullable |-> row[4 * i + 4]]]],
     root  |-> row[3]]
RowEnds(row) == Len(row) = 4 + 4 * row[4]

RowOf(d, cell) == FlattenSeq(get_payload(d, cell.record_page))

\* The cells of the tree from page p, in the order the cursor visits them
RECURSIVE CellsFrom(_, _)
CellsFrom(d, p) ==
    IF IsLeaf(d, p) THEN Cells(d, p)
    ELSE FlattenSeq([i \in 1 .. NumCells(d, p) + 1 |-> CellsFrom(d, Child(d, p, i - 1))])

Entry(f, x) == IF x \in DOMAIN f THEN f[x] ELSE <<>>

(***************************************************************************)
(* The constructor: initialize_tables reads all rows, a later row of the   *)
(* same name over an earlier one.                                          *)
(***************************************************************************)
Loaded(d, p) ==
    FoldLeft(LAMBDA m, c :
                 LET e == deserialize_table(RowOf(d, c))
                     t == e.table
                 IN  [tables |-> (t.name :> t) @@ m.tables,
                      oids   |-> (t.name :> c.key) @@ m.oids,
                      roots  |-> (t.name :> e.root) @@ m.roots,
                      deps   |-> (t.tbl_name :> Append(Entry(m.deps, t.tbl_name), t.name)) @@ m.deps],
             [tables |-> NoMap, oids |-> NoMap, roots |-> NoMap, deps |-> NoMap],
             CellsFrom(d, p))

\* The manager that comes next reads the header and the tree from page 2: it
\* finds what the last one left if no header write has failed since the last
\* that succeeded and the tree's root has not moved.
UpToDate == header_oid = next_oid /\ root_pgno = CPPLITE_SCHEMA_PGNO

\* Another manager on the same Pager takes over: its cursor starts at page 2.
Reopen ==
    LET m == Loaded(db, CPPLITE_SCHEMA_PGNO)
        cells == CellsFrom(db, CPPLITE_SCHEMA_PGNO)
    IN  /\ aborted = 0
        /\ IF \A i \in DOMAIN cells : RowEnds(RowOf(db, cells[i]))
             THEN /\ root_pgno' = CPPLITE_SCHEMA_PGNO
                  /\ cursor' = <<>>
                  /\ tables' = m.tables /\ table_oids' = m.oids
                  /\ table_root_pages' = m.roots /\ table_dependencies' = m.deps
                  /\ next_oid' = header_oid
                  /\ strays' = {cells[i].key : i \in DOMAIN cells} \ Range(m.oids)
                  /\ behind' = (behind \/ header_oid # next_oid)
                  /\ UNCHANGED <<db, aborted, header_oid>>
             ELSE aborted' = 157 /\ UNCHANGED <<db, root_pgno, cursor, catVars>>
-----------------------------------------------------------------------------
\* Mutant: the root page is the one after the last, which nobody created.
Created_mutant_root(t) ==
    Inserted(Tree(db, root_pgno), next_oid, InPages(serialize_table(t, db.total + 1)))

\* Where the row of a new table goes; create_page of its root page is first.
Created(t) ==
    LET d == create_page(db, EmptyLeaf)
    IN  Inserted(Tree(d, root_pgno), next_oid, InPages(serialize_table(t, d.total)))

\* What create_table has done when set_next_oid is called.
RowWritten(t) ==
    LET S == Created(t)
    IN  /\ next_oid <= MaxOid /\ S.db.total <= MaxPages
        /\ KeyAt(db, PathTo(Tree(db, root_pgno), next_oid)) # next_oid
        /\ Becomes(S, PathTo(S, next_oid))
        /\ table_oids' = (t.name :> next_oid) @@ table_oids
        /\ table_root_pages' = (t.name :> db.total + 1) @@ table_root_pages
        /\ next_oid' = next_oid + 1

Replaced(t) == IF t.name \in DOMAIN tables THEN {table_oids[t.name]} ELSE {}

create_table(t) ==
    /\ RowWritten(t)
    /\ header_oid' = next_oid'
    /\ tables' = (t.name :> t) @@ tables
    /\ table_dependencies' =
           (t.tbl_name :> Append(Entry(table_dependencies, t.tbl_name), t.name)) @@ table_dependencies
    /\ strays' = strays \cup Replaced(t)
    /\ UNCHANGED behind

\* The write of the header page fails: set_next_oid throws.
create_table_fails(t) ==
    /\ RowWritten(t)
    /\ strays' = strays \cup IF t.name \in DOMAIN tables THEN Replaced(t) ELSE {next_oid}
    /\ UNCHANGED <<tables, table_dependencies, header_oid, behind>>

\* The duplicate key that insert throws for; the root page stays behind.
create_table_throws ==
    /\ aborted = 0 /\ db.total < MaxPages
    /\ KeyAt(db, PathTo(Tree(db, root_pgno), next_oid)) = next_oid
    /\ cursor' = PathTo(Tree(db, root_pgno), next_oid)
    /\ db' = create_page(db, EmptyLeaf)
    /\ UNCHANGED <<root_pgno, aborted, catVars>>

(***************************************************************************)
(* drop_table: the table, its row, then every table that was ever created  *)
(* as its dependent and is there now.  An assert that fails in the tree    *)
(* ends the program.                                                       *)
(***************************************************************************)
\* Mutant: the oid of the table is looked up after it was erased.
DropStep_mutant_oid(S, n) ==
    LET path == PathTo(S.tree, 0)
        T == Removed(S.tree, path)
    IN  [S EXCEPT !.tables = Without(@, n), !.oids = Without(@, n), !.tree = T,
                  !.path = PathAfter(S.tree, T, path)]

DropStep(S, n) ==
    LET path == PathTo(S.tree, S.oids[n])
        T == Removed(S.tree, path)
    IN  [S EXCEPT !.tables = Without(@, n), !.oids = Without(@, n), !.tree = T,
                  !.path = PathAfter(S.tree, T, path)]

RECURSIVE Dropped(_, _)
Dropped(S, n) ==
    IF n \notin DOMAIN S.tables \/ S.tree.failed # 0 THEN S
    ELSE FoldLeft(Dropped, DropStep(S, n), Entry(table_dependencies, n))

drop_table(n) ==
    LET S == Dropped([tables |-> tables, oids |-> table_oids,
                      tree |-> Tree(db, root_pgno), path |-> cursor], n)
    IN  /\ aborted = 0
        /\ IF S.tree.failed # 0
             THEN Aborts(S.tree.failed) /\ UNCHANGED catVars
             ELSE /\ Becomes(S.tree, S.path)
                  /\ tables' = S.tables /\ table_oids' = S.oids
                  /\ UNCHANGED <<table_root_pages, table_dependencies, next_oid, header_oid, strays, behind>>

\* The tables a caller may create.
Tables == {[name |-> n, tbl_name |-> o, columns |-> c] :
               n \in Names, o \in UNION {OwnersOf(m) : m \in Names}, c \in Columns}
NewTables == {t \in Tables : t.tbl_name \in OwnersOf(t.name)}

Create      == \E t \in NewTables : create_table(t)
CreateFails == \E t \in NewTables : create_table_fails(t)
Drop        == \E n \in Names : drop_table(n)

\* Managers one after the other on a file, with names used again and header
\* writes that fail.
CatalogNext == Create \/ CreateFails \/ create_table_throws \/ Drop \/ Reopen
CatalogSpec == CatalogInit /\ [][CatalogNext]_allVars
-----------------------------------------------------------------------------
SchemaCells == CellsFrom(db, root_pgno)
SchemaKeys  == {c.key : c \in Range(SchemaCells)}

\* Every table has a row of its own, which spells its name and its root page;
\* the rows left over are the strays, which only a second create_table of a
\* name and a failed header write leave behind (catalog.cpp 44-72).  The next
\* oid is above every row's, also after header writes that failed, so insert
\* never meets a duplicate key, unless a manager was opened on a header that
\* was out of date.
RowsExact ==
    aborted = 0 =>
        /\ SchemaKeys = {table_oids[n] : n \in DOMAIN tables} \cup strays
        /\ \A m, n \in DOMAIN tables : table_oids[m] = table_oids[n] => m = n
        /\ \A n \in DOMAIN tables :
               /\ table_oids[n] \notin strays
               /\ \E c \in Range(SchemaCells) :
                      LET e == deserialize_table(RowOf(db, c))
                      IN  /\ c.key = table_oids[n]
                          /\ e.table.name = n /\ e.root = table_root_pages[n]
        /\ ~behind => \A k \in SchemaKeys : k < next_oid

\* The pages of the schema tree, the free list, the rows' chains and the
\* tables' root pages are all different pages, so a merge in the schema tree
\* frees no page of a table, and no row is written over one (catalog.cpp 45).
PagesApart ==
    LET cells == SchemaCells
        chains == FlattenSeq([i \in DOMAIN cells |-> LinkedFrom(db, cells[i].record_page, "overflow")])
        live == {table_root_pages[n] : n \in DOMAIN tables}
    IN  aborted = 0 =>
            /\ IsInjective(TreePages \o FreePages(db) \o chains)
            /\ live \cap Range(TreePages \o FreePages(db) \o chains) = {}
            /\ \A m, n \in DOMAIN tables : table_root_pages[m] = table_root_pages[n] => m = n

\* Another manager finds the tables, oids and root pages the last one knew,
\* and gives out the same next oid (test_catalog.cpp 88-108), if the file is
\* up to date and no row is left from an earlier table of the same name.
ReopenKeepsTables ==
    [][Reopen /\ UpToDate /\ strays = {} =>
           /\ tables' = tables
           /\ \A n \in DOMAIN tables : /\ table_oids'[n] = table_oids[n]
                                       /\ table_root_pages'[n] = table_root_pages[n]
           /\ next_oid' = next_oid]_allVars
=============================================================================
