----------------------------- MODULE MCSQLTexts -----------------------------
(***************************************************************************)
(* Statements that between them call every rule of the parser, and texts   *)
(* that are one slip away from a statement, as sequences of token types.   *)
(***************************************************************************)
EXTENDS Sequences

id    == "IDENTIFIER"
num   == "NUMERIC_LITERAL"
comma == "COMMA"
lpar  == "OPEN_PAR"
rpar  == "CLOSE_PAR"

Statements ==
    {
      \* explain query plan select a, b as c, t.* from s.t as u where a = 1
      \* group by a having b > 2
      <<"EXPLAIN_", "QUERY_", "PLAN_", "SELECT_", id, comma, id, "AS_", id,
        comma, id, "DOT", "STAR", "FROM_", id, "DOT", id, "AS_", id, "WHERE_",
        id, "ASSIGN", num, "GROUP_", "BY_", id, "HAVING_", id, "GT", num>>,
      \* select distinct * from t join u on a = b left outer join v using (a,
      \* b), w
      <<"SELECT_", "DISTINCT_", "STAR", "FROM_", id, "JOIN_", id, "ON_", id,
        "ASSIGN", id, "LEFT_", "OUTER_", "JOIN_", id, "USING_", lpar, id, comma,
        id, rpar, comma, id>>,
      \* select all a from t natural inner join u not indexed cross join x
      \* indexed by i
      <<"SELECT_", "ALL_", id, "FROM_", id, "NATURAL_", "INNER_", "JOIN_", id,
        "NOT_", "INDEXED_", "CROSS_", "JOIN_", id, "INDEXED_", "BY_", id>>,
      \* select x.y.z, t.c from f(1, 2) g, (select 1) as h, (t cross join u)
      <<"SELECT_", id, "DOT", id, "DOT", id, comma, id, "DOT", id, "FROM_", id,
        lpar, num, comma, num, rpar, id, comma, lpar, "SELECT_", num, rpar,
        "AS_", id, comma, lpar, id, "CROSS_", "JOIN_", id, rpar>>,
      \* with recursive r(a, b) as (values (1, 2), (3, 4)) select a from r
      \* union all select b from s except values (1)
      <<"WITH_", "RECURSIVE_", id, lpar, id, comma, id, rpar, "AS_", lpar,
        "VALUES_", lpar, num, comma, num, rpar, comma, lpar, num, comma, num,
        rpar, rpar, "SELECT_", id, "FROM_", id, "UNION_", "ALL_", "SELECT_", id,
        "FROM_", id, "EXCEPT_", "VALUES_", lpar, num, rpar>>,
      \* select a from r order by a collate nocase desc nulls last, b limit 1
      \* offset 2
      <<"SELECT_", id, "FROM_", id, "ORDER_", "BY_", id, "COLLATE_", id,
        "DESC_", "NULLS_", "LAST_", comma, id, "LIMIT_", num, "OFFSET_", num>>,
      \* select count(*) filter (where a) over w from t window w as (b order by
      \* a groups unbounded preceding exclude no others)
      <<"SELECT_", id, lpar, "STAR", rpar, "FILTER_", lpar, "WHERE_", id, rpar,
        "OVER_", id, "FROM_", id, "WINDOW_", id, "AS_", lpar, id, "ORDER_",
        "BY_", id, "GROUPS_", "UNBOUNDED_", "PRECEDING_", "EXCLUDE_", "NO_",
        "OTHERS_", rpar>>,
      \* select sum(distinct a, b order by a) over (partition by a, b order by
      \* c rows between 1 preceding and current row exclude ties)
      <<"SELECT_", id, lpar, "DISTINCT_", id, comma, id, "ORDER_", "BY_", id,
        rpar, "OVER_", lpar, "PARTITION_", "BY_", id, comma, id, "ORDER_",
        "BY_", id, "ROWS_", "BETWEEN_", num, "PRECEDING_", "AND_", "CURRENT_",
        "ROW_", "EXCLUDE_", "TIES_", rpar>>,
      \* select rank(a) within group (order by b) over (range between 1
      \* following and 2 following), f() over (w rows current row exclude
      \* current row) from t intersect select 1
      <<"SELECT_", id, lpar, id, rpar, "WITHIN_", "GROUP_", lpar, "ORDER_",
        "BY_", id, rpar, "OVER_", lpar, "RANGE_", "BETWEEN_", num, "FOLLOWING_",
        "AND_", num, "FOLLOWING_", rpar, comma, id, lpar, rpar, "OVER_", lpar,
        id, "ROWS_", "CURRENT_", "ROW_", "EXCLUDE_", "CURRENT_", "ROW_", rpar,
        "FROM_", id, "INTERSECT_", "SELECT_", num>>,
      \* select case a when 1 then 2 else 3 end, case when a then b end
      <<"SELECT_", "CASE_", id, "WHEN_", num, "THEN_", num, "ELSE_", num,
        "END_", comma, "CASE_", "WHEN_", id, "THEN_", id, "END_">>,
      \* select cast(a as integer), (1, 2), not exists (select 1),
      \* raise(ignore), ?1
      <<"SELECT_", "CAST_", lpar, id, "AS_", id, rpar, comma, lpar, num, comma,
        num, rpar, comma, "NOT_", "EXISTS_", lpar, "SELECT_", num, rpar, comma,
        "RAISE_", lpar, "IGNORE_", rpar, comma, "BIND_PARAMETER">>,
      \* select a between 1 and 2 and b not in (1, 2) or c in (select 1) and d
      \* in s.t or e in f(1) and not g like h escape i
      <<"SELECT_", id, "BETWEEN_", num, "AND_", num, "AND_", id, "NOT_", "IN_",
        lpar, num, comma, num, rpar, "OR_", id, "IN_", lpar, "SELECT_", num,
        rpar, "AND_", id, "IN_", id, "DOT", id, "OR_", id, "IN_", id, lpar, num,
        rpar, "AND_", "NOT_", id, "LIKE_", id, "ESCAPE_", id>>,
      \* select a is not distinct from b, a isnull, b notnull, c not null
      <<"SELECT_", id, "IS_", "NOT_", "DISTINCT_", "FROM_", id, comma, id,
        "ISNULL_", comma, id, "NOTNULL_", comma, id, "NOT_", "NULL_">>,
      \* select a glob b, a << 1 | 2 & ~3, -a || b collate nocase -> c, x'00',
      \* null < 1.5
      <<"SELECT_", id, "GLOB_", id, comma, id, "LT2", num, "PIPE", num, "AMP",
        "TILDE", num, comma, "MINUS", id, "PIPE2", id, "COLLATE_", id, "JPTR",
        id, comma, "BLOB_LITERAL", comma, "NULL_", "LT", num>>,
      \* insert or replace into s.t as u (a, b) values (1, 2) on conflict do
      \* nothing returning *, a as b, c d
      <<"INSERT_", "OR_", "REPLACE_", "INTO_", id, "DOT", id, "AS_", id, lpar,
        id, comma, id, rpar, "VALUES_", lpar, num, comma, num, rpar, "ON_",
        "CONFLICT_", "DO_", "NOTHING_", "RETURNING_", "STAR", comma, id, "AS_",
        id, comma, id, id>>,
      \* insert into t values (1) on conflict (a desc) where a do update set a
      \* = 1, (b, c) = 2 where b
      <<"INSERT_", "INTO_", id, "VALUES_", lpar, num, rpar, "ON_", "CONFLICT_",
        lpar, id, "DESC_", rpar, "WHERE_", id, "DO_", "UPDATE_", "SET_", id,
        "ASSIGN", num, comma, lpar, id, comma, id, rpar, "ASSIGN", num,
        "WHERE_", id>>,
      \* replace into t select * from u
      <<"REPLACE_", "INTO_", id, "SELECT_", "STAR", "FROM_", id>>,
      \* with s as (select 1) insert into t default values
      <<"WITH_", id, "AS_", lpar, "SELECT_", num, rpar, "INSERT_", "INTO_", id,
        "DEFAULT_", "VALUES_">>,
      \* update or ignore s.t as u indexed by i set a = 1, (b, c) = 2 from v
      \* where a returning * order by a limit 1, 2
      <<"UPDATE_", "OR_", "IGNORE_", id, "DOT", id, "AS_", id, "INDEXED_",
        "BY_", id, "SET_", id, "ASSIGN", num, comma, lpar, id, comma, id, rpar,
        "ASSIGN", num, "FROM_", id, "WHERE_", id, "RETURNING_", "STAR",
        "ORDER_", "BY_", id, "LIMIT_", num, comma, num>>,
      \* update t not indexed set (a) = 1
      <<"UPDATE_", id, "NOT_", "INDEXED_", "SET_", lpar, id, rpar, "ASSIGN",
        num>>,
      \* delete from t where a returning b order by a limit 1
      <<"DELETE_", "FROM_", id, "WHERE_", id, "RETURNING_", id, "ORDER_", "BY_",
        id, "LIMIT_", num>>,
      \* with s as materialized (select 1) delete from t
      <<"WITH_", id, "AS_", "MATERIALIZED_", lpar, "SELECT_", num, rpar,
        "DELETE_", "FROM_", id>>,
      \* create temp table if not exists s.t (a integer constraint c primary
      \* key asc on conflict fail autoincrement, b varchar(10) not null unique
      \* default -1) without rowid, strict
      <<"CREATE_", "TEMP_", "TABLE_", "IF_", "NOT_", "EXISTS_", id, "DOT", id,
        lpar, id, id, "CONSTRAINT_", id, "PRIMARY_", "KEY_", "ASC_", "ON_",
        "CONFLICT_", "FAIL_", "AUTOINCREMENT_", comma, id, id, lpar, num, rpar,
        "NOT_", "NULL_", "UNIQUE_", "DEFAULT_", "MINUS", num, rpar, "WITHOUT_",
        "ROWID_", comma, "STRICT_">>,
      \* create table t (c numeric(1, +2) check (a > 1) collate nocase default
      \* (1), constraint k primary key (a, b desc) on conflict rollback, unique
      \* (c), check (a))
      <<"CREATE_", "TABLE_", id, lpar, id, id, lpar, num, comma, "PLUS", num,
        rpar, "CHECK_", lpar, id, "GT", num, rpar, "COLLATE_", id, "DEFAULT_",
        lpar, num, rpar, comma, "CONSTRAINT_", id, "PRIMARY_", "KEY_", lpar, id,
        comma, id, "DESC_", rpar, "ON_", "CONFLICT_", "ROLLBACK_", comma,
        "UNIQUE_", lpar, id, rpar, comma, "CHECK_", lpar, id, rpar, rpar>>,
      \* create table t (d double precision references u (a, b) on delete set
      \* null on update no action match m not deferrable initially deferred, e
      \* generated always as (a) stored, foreign key (a) references u)
      <<"CREATE_", "TABLE_", id, lpar, id, id, id, "REFERENCES_", id, lpar, id,
        comma, id, rpar, "ON_", "DELETE_", "SET_", "NULL_", "ON_", "UPDATE_",
        "NO_", "ACTION_", "MATCH_", id, "NOT_", "DEFERRABLE_", "INITIALLY_",
        "DEFERRED_", comma, id, "GENERATED_", "ALWAYS_", "AS_", lpar, id, rpar,
        "STORED_", comma, "FOREIGN_", "KEY_", lpar, id, rpar, "REFERENCES_", id,
        rpar>>,
      \* create table t (a, b blob null default null default 'x')
      <<"CREATE_", "TABLE_", id, lpar, id, comma, id, id, "NULL_", "DEFAULT_",
        "NULL_", "DEFAULT_", "STRING_LITERAL", rpar>>,
      \* create table t as select 1
      <<"CREATE_", "TABLE_", id, "AS_", "SELECT_", num>>,
      \* create unique index if not exists s.i on t (a collate nocase asc, b +
      \* 1) where a
      <<"CREATE_", "UNIQUE_", "INDEX_", "IF_", "NOT_", "EXISTS_", id, "DOT", id,
        "ON_", id, lpar, id, "COLLATE_", id, "ASC_", comma, id, "PLUS", num,
        rpar, "WHERE_", id>>,
      \* create trigger if not exists s.r instead of update of a, b on t for
      \* each row when a begin update t set a = 1; delete from t; end
      <<"CREATE_", "TRIGGER_", "IF_", "NOT_", "EXISTS_", id, "DOT", id,
        "INSTEAD_", "OF_", "UPDATE_", "OF_", id, comma, id, "ON_", id, "FOR_",
        "EACH_", "ROW_", "WHEN_", id, "BEGIN_", "UPDATE_", id, "SET_", id,
        "ASSIGN", num, "SCOL", "DELETE_", "FROM_", id, "SCOL", "END_">>,
      \* create trigger r update on t begin insert into t values (1); select
      \* raise(abort, 'm'); end
      <<"CREATE_", "TRIGGER_", id, "UPDATE_", "ON_", id, "BEGIN_", "INSERT_",
        "INTO_", id, "VALUES_", lpar, num, rpar, "SCOL", "SELECT_", "RAISE_",
        lpar, "ABORT_", comma, "STRING_LITERAL", rpar, "SCOL", "END_">>,
      \* create temporary trigger r before delete on t begin select 1; end
      <<"CREATE_", "TEMPORARY_", "TRIGGER_", id, "BEFORE_", "DELETE_", "ON_",
        id, "BEGIN_", "SELECT_", num, "SCOL", "END_">>,
      \* create trigger r after insert on t begin select 1; end
      <<"CREATE_", "TRIGGER_", id, "AFTER_", "INSERT_", "ON_", id, "BEGIN_",
        "SELECT_", num, "SCOL", "END_">>,
      \* create trigger r insert on t begin select 1; end
      <<"CREATE_", "TRIGGER_", id, "INSERT_", "ON_", id, "BEGIN_", "SELECT_",
        num, "SCOL", "END_">>,
      \* create view if not exists v (a, b) as select 1
      <<"CREATE_", "VIEW_", "IF_", "NOT_", "EXISTS_", id, lpar, id, comma, id,
        rpar, "AS_", "SELECT_", num>>,
      \* create virtual table if not exists s.t using m (a b, c (d, (e)) (), )
      <<"CREATE_", "VIRTUAL_", "TABLE_", "IF_", "NOT_", "EXISTS_", id, "DOT",
        id, "USING_", id, lpar, id, id, comma, id, lpar, id, comma, lpar, id,
        rpar, rpar, lpar, rpar, comma, rpar>>,
      \* alter table s.t rename to u
      <<"ALTER_", "TABLE_", id, "DOT", id, "RENAME_", "TO_", id>>,
      \* alter table t rename column a to b
      <<"ALTER_", "TABLE_", id, "RENAME_", "COLUMN_", id, "TO_", id>>,
      \* alter table t add column a text
      <<"ALTER_", "TABLE_", id, "ADD_", "COLUMN_", id, id>>,
      \* alter table t drop a
      <<"ALTER_", "TABLE_", id, "DROP_", id>>,
      \* analyze
      <<"ANALYZE_">>,
      \* analyze s.t
      <<"ANALYZE_", id, "DOT", id>>,
      \* attach database 'f' as s
      <<"ATTACH_", "DATABASE_", "STRING_LITERAL", "AS_", id>>,
      \* detach database s
      <<"DETACH_", "DATABASE_", id>>,
      \* begin immediate transaction
      <<"BEGIN_", "IMMEDIATE_", "TRANSACTION_">>,
      \* end transaction; commit
      <<"END_", "TRANSACTION_", "SCOL", "COMMIT_">>,
      \* rollback transaction to savepoint p
      <<"ROLLBACK_", "TRANSACTION_", "TO_", "SAVEPOINT_", id>>,
      \* savepoint p; release savepoint p;; release p
      <<"SAVEPOINT_", id, "SCOL", "RELEASE_", "SAVEPOINT_", id, "SCOL", "SCOL",
        "RELEASE_", id>>,
      \* drop index if exists s.i; drop table t; drop view v; drop trigger r
      <<"DROP_", "INDEX_", "IF_", "EXISTS_", id, "DOT", id, "SCOL", "DROP_",
        "TABLE_", id, "SCOL", "DROP_", "VIEW_", id, "SCOL", "DROP_", "TRIGGER_",
        id>>,
      \* pragma s.p = -1
      <<"PRAGMA_", id, "DOT", id, "ASSIGN", "MINUS", num>>,
      \* pragma p (on1)
      <<"PRAGMA_", id, lpar, id, rpar>>,
      \* pragma p
      <<"PRAGMA_", id>>,
      \* reindex; reindex c
      <<"REINDEX_", "SCOL", "REINDEX_", id>>,
      \* reindex s.t
      <<"REINDEX_", id, "DOT", id>>,
      \* vacuum s into 'f'
      <<"VACUUM_", id, "INTO_", "STRING_LITERAL">>,
      \* select left, key, 'a' from first f
      <<"SELECT_", "LEFT_", comma, "KEY_", comma, "STRING_LITERAL", "FROM_",
        "FIRST_", id>>,
      \* (nothing)
      <<>> }

Slips ==
    {
      \* create table t (a integer, primary key (a), b integer)
      <<"CREATE_", "TABLE_", id, lpar, id, id, comma, "PRIMARY_", "KEY_", lpar,
        id, rpar, comma, id, id, rpar>>,
      \* create table t ()
      <<"CREATE_", "TABLE_", id, lpar, rpar>>,
      \* create table t (a integer,)
      <<"CREATE_", "TABLE_", id, lpar, id, id, comma, rpar>>,
      \* select a from t where
      <<"SELECT_", id, "FROM_", id, "WHERE_">>,
      \* select a, from t
      <<"SELECT_", id, comma, "FROM_", id>>,
      \* select * from t where a order b
      <<"SELECT_", "STAR", "FROM_", id, "WHERE_", id, "ORDER_", id>>,
      \* select (a, b from t
      <<"SELECT_", lpar, id, comma, id, "FROM_", id>>,
      \* insert into t (a) value (1)
      <<"INSERT_", "INTO_", id, lpar, id, rpar, id, lpar, num, rpar>>,
      \* select 1 2 3
      <<"SELECT_", num, num, num>>,
      \* drop table
      <<"DROP_", "TABLE_">>,
      \* update t set a = 1 where b = 2 set c = 3
      <<"UPDATE_", id, "SET_", id, "ASSIGN", num, "WHERE_", id, "ASSIGN", num,
        "SET_", id, "ASSIGN", num>>,
      \* select a between 1 or 2
      <<"SELECT_", id, "BETWEEN_", num, "OR_", num>>,
      \* begin; commit rollback
      <<"BEGIN_", "SCOL", "COMMIT_", "ROLLBACK_">>,
      \* with s (select 1) select 1
      <<"WITH_", id, lpar, "SELECT_", num, rpar, "SELECT_", num>>,
      \* delete t
      <<"DELETE_", id>>,
      \* create index i on t ()
      <<"CREATE_", "INDEX_", id, "ON_", id, lpar, rpar>>,
      \* select order from t
      <<"SELECT_", "ORDER_", "FROM_", id>> }
=============================================================================
