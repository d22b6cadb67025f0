---------------------------- MODULE SQLStatements ----------------------------
(***************************************************************************)
(* Statements in the SQL grammar (lib/parser/SQLiteParser.cpp): the list of*)
(* statements of a text, and the statements on schemas and transactions.   *)
(***************************************************************************)
EXTENDS Grammar

parse == <<R("sql_stmt_list"), T("EOF")>>
sql_stmt_list == <<If(<<R("sql_stmt")>>), While(<<T("SCOL"), If(<<R("sql_stmt")>>)>>)>>

sql_stmt ==
    <<If(<<T("EXPLAIN_"), If(<<T("QUERY_"), T("PLAN_")>>)>>),
      Predict(<<<<R("alter_table_stmt")>>, <<R("analyze_stmt")>>, <<R("attach_stmt")>>,
                <<R("begin_stmt")>>, <<R("commit_stmt")>>, <<R("create_index_stmt")>>,
                <<R("create_table_stmt")>>, <<R("create_trigger_stmt")>>,
                <<R("create_view_stmt")>>, <<R("create_virtual_table_stmt")>>,
                <<R("delete_stmt")>>, <<R("detach_stmt")>>, <<R("drop_stmt")>>,
                <<R("insert_stmt")>>, <<R("pragma_stmt")>>, <<R("reindex_stmt")>>,
                <<R("release_stmt")>>, <<R("rollback_stmt")>>, <<R("savepoint_stmt")>>,
                <<R("select_stmt")>>, <<R("update_stmt")>>, <<R("vacuum_stmt")>>>>)>>

alter_table_stmt ==
    <<T("ALTER_"), T("TABLE_"), Maybe(<<R("schema_name"), T("DOT")>>), R("table_name"),
      Switch(<<<<T("RENAME_"),
                 Switch(<<<<T("TO_"), R("table_name")>>,
                          <<Maybe(<<T("COLUMN_")>>), R("column_name"), T("TO_"),
                            R("column_name")>>>>)>>,
               <<T("ADD_"), Maybe(<<T("COLUMN_")>>), R("column_def")>>,
               <<T("DROP_"), Maybe(<<T("COLUMN_")>>), R("column_name")>>>>)>>

analyze_stmt ==
    <<T("ANALYZE_"),
      Predict(<<<<R("schema_name")>>,
                <<Maybe(<<R("schema_name"), T("DOT")>>), R("table_or_index_name")>>,
                <<>>>>)>>

attach_stmt ==
    <<T("ATTACH_"), Maybe(<<T("DATABASE_")>>), R("expr"), T("AS_"), R("schema_name")>>

begin_stmt ==
    <<T("BEGIN_"), If(<<OneOf({"DEFERRED_", "EXCLUSIVE_", "IMMEDIATE_"})>>),
      If(<<T("TRANSACTION_")>>)>>

commit_stmt == <<OneOf({"COMMIT_", "END_"}), If(<<T("TRANSACTION_")>>)>>

rollback_stmt ==
    <<T("ROLLBACK_"), If(<<T("TRANSACTION_")>>),
      If(<<T("TO_"), Maybe(<<T("SAVEPOINT_")>>), R("savepoint_name")>>)>>

savepoint_stmt == <<T("SAVEPOINT_"), R("savepoint_name")>>
release_stmt == <<T("RELEASE_"), Maybe(<<T("SAVEPOINT_")>>), R("savepoint_name")>>

create_index_stmt ==
    <<T("CREATE_"), If(<<T("UNIQUE_")>>), T("INDEX_"),
      Maybe(<<T("IF_"), T("NOT_"), T("EXISTS_")>>),
      Maybe(<<R("schema_name"), T("DOT")>>), R("index_name"), T("ON_"), R("table_name"),
      T("OPEN_PAR"), R("indexed_column"), While(<<T("COMMA"), R("indexed_column")>>),
      T("CLOSE_PAR"), If(<<T("WHERE_"), R("expr")>>)>>

indexed_column ==
    <<R("expr"), If(<<T("COLLATE_"), R("collation_name")>>), If(<<R("asc_desc")>>)>>

\* Mutant: the columns in a loop that looks at the comma alone.
create_table_stmt_mutant_greedy ==
    <<T("CREATE_"), If(<<OneOf({"TEMP_", "TEMPORARY_"})>>), T("TABLE_"),
      Maybe(<<T("IF_"), T("NOT_"), T("EXISTS_")>>),
      Maybe(<<R("schema_name"), T("DOT")>>), R("table_name"),
      Switch(<<<<T("OPEN_PAR"), R("column_def"), While(<<T("COMMA"), R("column_def")>>),
                 While(<<T("COMMA"), R("table_constraint")>>), T("CLOSE_PAR"),
                 If(<<R("table_options")>>)>>, <<T("AS_"), R("select_stmt")>>>>)>>

create_table_stmt ==
    <<T("CREATE_"), If(<<OneOf({"TEMP_", "TEMPORARY_"})>>), T("TABLE_"),
      Maybe(<<T("IF_"), T("NOT_"), T("EXISTS_")>>),
      Maybe(<<R("schema_name"), T("DOT")>>), R("table_name"),
      Switch(<<<<T("OPEN_PAR"), R("column_def"), Lazy(<<T("COMMA"), R("column_def")>>),
                 While(<<T("COMMA"), R("table_constraint")>>), T("CLOSE_PAR"),
                 If(<<R("table_options")>>)>>, <<T("AS_"), R("select_stmt")>>>>)>>

table_options ==
    <<Switch(<<<<T("WITHOUT_"), T("ROWID_")>>, <<T("STRICT_")>>>>),
      While(<<T("COMMA"),
              Switch(<<<<T("WITHOUT_"), T("ROWID_")>>, <<T("STRICT_")>>>>)>>)>>

column_def ==
    <<R("column_name"), Maybe(<<R("type_name")>>), While(<<R("column_constraint")>>)>>

column_constraint ==
    <<If(<<T("CONSTRAINT_"), R("name")>>),
      Switch(<<<<T("PRIMARY_"), T("KEY_"), If(<<R("asc_desc")>>),
                 If(<<R("conflict_clause")>>), If(<<T("AUTOINCREMENT_")>>)>>,
               <<Switch(<<<<If(<<T("NOT_")>>), T("NULL_")>>, <<T("UNIQUE_")>>>>),
                 If(<<R("conflict_clause")>>)>>,
               <<T("CHECK_"), T("OPEN_PAR"), R("expr"), T("CLOSE_PAR")>>,
               <<T("DEFAULT_"),
                 Predict(<<<<R("signed_number")>>, <<R("literal_value")>>,
                           <<T("OPEN_PAR"), R("expr"), T("CLOSE_PAR")>>>>)>>,
               <<T("COLLATE_"), R("collation_name")>>, <<R("foreign_key_clause")>>,
               <<If(<<T("GENERATED_"), T("ALWAYS_")>>), T("AS_"), T("OPEN_PAR"),
                 R("expr"), T("CLOSE_PAR"), If(<<OneOf({"STORED_", "VIRTUAL_"})>>)>>>>)>>

table_constraint ==
    <<If(<<T("CONSTRAINT_"), R("name")>>),
      Switch(<<<<Switch(<<<<T("PRIMARY_"), T("KEY_")>>, <<T("UNIQUE_")>>>>),
                 T("OPEN_PAR"), R("indexed_column"),
                 While(<<T("COMMA"), R("indexed_column")>>), T("CLOSE_PAR"),
                 If(<<R("conflict_clause")>>)>>,
               <<T("CHECK_"), T("OPEN_PAR"), R("expr"), T("CLOSE_PAR")>>,
               <<T("FOREIGN_"), T("KEY_"), T("OPEN_PAR"), R("column_name"),
                 While(<<T("COMMA"), R("column_name")>>), T("CLOSE_PAR"),
                 R("foreign_key_clause")>>>>)>>

foreign_key_clause ==
    <<T("REFERENCES_"), R("foreign_table"),
      If(<<T("OPEN_PAR"), R("column_name"), While(<<T("COMMA"), R("column_name")>>),
           T("CLOSE_PAR")>>),
      While(<<Switch(<<<<T("ON_"), OneOf({"DELETE_", "UPDATE_"}),
                         Switch(<<<<T("SET_"), OneOf({"DEFAULT_", "NULL_"})>>,
                                  <<T("CASCADE_")>>, <<T("RESTRICT_")>>,
                                  <<T("NO_"), T("ACTION_")>>>>)>>,
                       <<T("MATCH_"), R("name")>>>>)>>),
      Maybe(<<If(<<T("NOT_")>>), T("DEFERRABLE_"),
              If(<<T("INITIALLY_"), OneOf({"DEFERRED_", "IMMEDIATE_"})>>)>>)>>

conflict_clause ==
    <<T("ON_"), T("CONFLICT_"),
      OneOf({"ABORT_", "FAIL_", "IGNORE_", "REPLACE_", "ROLLBACK_"})>>

create_trigger_stmt ==
    <<T("CREATE_"), If(<<OneOf({"TEMP_", "TEMPORARY_"})>>), T("TRIGGER_"),
      Maybe(<<T("IF_"), T("NOT_"), T("EXISTS_")>>),
      Maybe(<<R("schema_name"), T("DOT")>>), R("trigger_name"),
      Switch(<<<<T("BEFORE_")>>, <<T("AFTER_")>>, <<T("INSTEAD_"), T("OF_")>>, <<>>>>),
      Switch(<<<<T("DELETE_")>>, <<T("INSERT_")>>,
               <<T("UPDATE_"),
                 If(<<T("OF_"), R("column_name"),
                      While(<<T("COMMA"), R("column_name")>>)>>)>>>>), T("ON_"),
      R("table_name"), If(<<T("FOR_"), T("EACH_"), T("ROW_")>>),
      If(<<T("WHEN_"), R("expr")>>), T("BEGIN_"),
      DoWhile(<<Predict(<<<<R("update_stmt")>>, <<R("insert_stmt")>>,
                          <<R("delete_stmt")>>, <<R("select_stmt")>>>>), T("SCOL")>>),
      T("END_")>>

create_view_stmt ==
    <<T("CREATE_"), If(<<OneOf({"TEMP_", "TEMPORARY_"})>>), T("VIEW_"),
      Maybe(<<T("IF_"), T("NOT_"), T("EXISTS_")>>),
      Maybe(<<R("schema_name"), T("DOT")>>), R("view_name"),
      If(<<T("OPEN_PAR"), R("column_name"), While(<<T("COMMA"), R("column_name")>>),
           T("CLOSE_PAR")>>), T("AS_"), R("select_stmt")>>

create_virtual_table_stmt ==
    <<T("CREATE_"), T("VIRTUAL_"), T("TABLE_"),
      Maybe(<<T("IF_"), T("NOT_"), T("EXISTS_")>>),
      Maybe(<<R("schema_name"), T("DOT")>>), R("table_name"), T("USING_"),
      R("module_name"),
      If(<<T("OPEN_PAR"), R("module_argument"),
           While(<<T("COMMA"), R("module_argument")>>), T("CLOSE_PAR")>>)>>

detach_stmt == <<T("DETACH_"), Maybe(<<T("DATABASE_")>>), R("schema_name")>>

drop_stmt ==
    <<T("DROP_"), OneOf({"INDEX_", "TABLE_", "TRIGGER_", "VIEW_"}),
      Maybe(<<T("IF_"), T("EXISTS_")>>), Maybe(<<R("schema_name"), T("DOT")>>),
      R("any_name")>>

pragma_stmt ==
    <<T("PRAGMA_"), Maybe(<<R("schema_name"), T("DOT")>>), R("pragma_name"),
      Switch(<<<<T("ASSIGN"), R("pragma_value")>>,
               <<T("OPEN_PAR"), R("pragma_value"), T("CLOSE_PAR")>>, <<>>>>)>>

pragma_value ==
    <<Predict(<<<<R("signed_number")>>, <<R("name")>>, <<T("STRING_LITERAL")>>>>)>>

reindex_stmt ==
    <<T("REINDEX_"),
      Predict(<<<<R("collation_name")>>,
                <<Maybe(<<R("schema_name"), T("DOT")>>),
                  Predict(<<<<R("table_name")>>, <<R("index_name")>>>>)>>, <<>>>>)>>

vacuum_stmt ==
    <<T("VACUUM_"), If(<<R("schema_name")>>), If(<<T("INTO_"), R("filename")>>)>>

module_argument == <<While(<<R("module_argument_outer")>>)>>

module_argument_outer ==
    <<Switch(<<<<NoneOf({"CLOSE_PAR", "COMMA", "OPEN_PAR", "UNEXPECTED_CHAR"})>>,
               <<T("OPEN_PAR"), While(<<R("module_argument_inner")>>), T("CLOSE_PAR")>>>>)>>

module_argument_inner ==
    <<Switch(<<<<NoneOf({"CLOSE_PAR", "OPEN_PAR", "UNEXPECTED_CHAR"})>>,
               <<T("OPEN_PAR"), While(<<R("module_argument_inner")>>), T("CLOSE_PAR")>>>>)>>
=============================================================================
