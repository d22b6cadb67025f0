------------------------------ MODULE SQLQuery ------------------------------
(***************************************************************************)
(* SELECT, VALUES, INSERT, UPDATE and DELETE in the SQL grammar            *)
(* (lib/parser/SQLiteParser.cpp).                                          *)
(***************************************************************************)
EXTENDS Grammar

select_stmt ==
    <<If(<<R("with_clause")>>), R("select_core"),
      While(<<R("compound_operator"), R("select_core")>>), If(<<R("order_clause")>>),
      If(<<R("limit_clause")>>)>>

select_core ==
    <<Switch(<<<<T("SELECT_"), If(<<OneOf({"ALL_", "DISTINCT_"})>>), R("result_column"),
                 While(<<T("COMMA"), R("result_column")>>),
                 If(<<T("FROM_"), R("join_clause")>>), If(<<T("WHERE_"), R("expr")>>),
                 If(<<T("GROUP_"), T("BY_"), R("expr"),
                      While(<<T("COMMA"), R("expr")>>),
                      If(<<T("HAVING_"), R("expr")>>)>>),
                 If(<<T("WINDOW_"), R("window_name"), T("AS_"), R("window_defn"),
                      While(<<T("COMMA"), R("window_name"), T("AS_"),
                              R("window_defn")>>)>>)>>, <<R("values_clause")>>>>)>>

result_column ==
    <<Predict(<<<<T("STAR")>>, <<R("table_name"), T("DOT"), T("STAR")>>,
                <<R("expr"), Maybe(<<If(<<T("AS_")>>), R("column_alias")>>)>>>>)>>

join_clause ==
    <<R("table_or_subquery"),
      While(<<R("join_operator"), R("table_or_subquery"),
              Maybe(<<R("join_constraint")>>)>>)>>

table_or_subquery ==
    <<Predict(<<<<Maybe(<<R("schema_name"), T("DOT")>>), R("table_name"),
                  Predict(<<<<T("AS_"), R("table_alias")>>,
                            <<R("table_alias_excluding_joins")>>, <<>>>>),
                  Switch(<<<<T("INDEXED_"), T("BY_"), R("index_name")>>,
                           <<T("NOT_"), T("INDEXED_")>>, <<>>>>)>>,
                <<Maybe(<<R("schema_name"), T("DOT")>>), R("table_function_name"),
                  T("OPEN_PAR"), R("expr"), While(<<T("COMMA"), R("expr")>>),
                  T("CLOSE_PAR"), Maybe(<<If(<<T("AS_")>>), R("table_alias")>>)>>,
                <<T("OPEN_PAR"), R("join_clause"), T("CLOSE_PAR")>>,
                <<T("OPEN_PAR"), R("select_stmt"), T("CLOSE_PAR"),
                  Maybe(<<If(<<T("AS_")>>), R("table_alias")>>)>>>>)>>

join_operator ==
    <<Switch(<<<<T("COMMA")>>,
               <<If(<<T("NATURAL_")>>),
                 Switch(<<<<OneOf({"FULL_", "LEFT_", "RIGHT_"}), If(<<T("OUTER_")>>)>>,
                          <<T("INNER_")>>, <<T("CROSS_")>>, <<>>>>), T("JOIN_")>>>>)>>

join_constraint ==
    <<Switch(<<<<T("ON_"), R("expr")>>,
               <<T("USING_"), T("OPEN_PAR"), R("column_name"),
                 While(<<T("COMMA"), R("column_name")>>), T("CLOSE_PAR")>>>>)>>

compound_operator ==
    <<Switch(<<<<T("UNION_"), If(<<T("ALL_")>>)>>, <<T("INTERSECT_")>>,
               <<T("EXCEPT_")>>>>)>>

values_clause == <<T("VALUES_"), R("value_row"), While(<<T("COMMA"), R("value_row")>>)>>

value_row ==
    <<T("OPEN_PAR"), R("expr"), While(<<T("COMMA"), R("expr")>>), T("CLOSE_PAR")>>

with_clause ==
    <<T("WITH_"), Maybe(<<T("RECURSIVE_")>>), R("common_table_expression"),
      While(<<T("COMMA"), R("common_table_expression")>>)>>

common_table_expression ==
    <<R("cte_table_name"), T("AS_"), If(<<If(<<T("NOT_")>>), T("MATERIALIZED_")>>),
      T("OPEN_PAR"), R("select_stmt"), T("CLOSE_PAR")>>

cte_table_name ==
    <<R("table_name"),
      If(<<T("OPEN_PAR"), R("column_name"), While(<<T("COMMA"), R("column_name")>>),
           T("CLOSE_PAR")>>)>>

insert_stmt ==
    <<If(<<R("with_clause")>>),
      Predict(<<<<T("INSERT_")>>, <<T("REPLACE_")>>,
                <<T("INSERT_"), T("OR_"),
                  OneOf({"ABORT_", "FAIL_", "IGNORE_", "REPLACE_", "ROLLBACK_"})>>>>),
      T("INTO_"), Maybe(<<R("schema_name"), T("DOT")>>), R("table_name"),
      If(<<T("AS_"), R("table_alias")>>),
      If(<<T("OPEN_PAR"), R("column_name"), While(<<T("COMMA"), R("column_name")>>),
           T("CLOSE_PAR")>>),
      Switch(<<<<R("select_stmt"), While(<<R("upsert_clause")>>)>>,
               <<T("DEFAULT_"), T("VALUES_")>>>>), If(<<R("returning_clause")>>)>>

upsert_clause ==
    <<T("ON_"), T("CONFLICT_"),
      If(<<T("OPEN_PAR"), R("indexed_column"),
           While(<<T("COMMA"), R("indexed_column")>>), T("CLOSE_PAR"),
           If(<<T("WHERE_"), R("expr")>>)>>), T("DO_"),
      Switch(<<<<T("NOTHING_")>>,
               <<T("UPDATE_"), T("SET_"),
                 Switch(<<<<R("column_name")>>, <<R("column_name_list")>>>>),
                 T("ASSIGN"), R("expr"),
                 While(<<T("COMMA"),
                         Switch(<<<<R("column_name")>>, <<R("column_name_list")>>>>),
                         T("ASSIGN"), R("expr")>>), If(<<T("WHERE_"), R("expr")>>)>>>>)>>

returning_clause ==
    <<T("RETURNING_"),
      Switch(<<<<T("STAR")>>,
               <<R("expr"), If(<<If(<<T("AS_")>>), R("column_alias")>>)>>>>),
      While(<<T("COMMA"),
              Switch(<<<<T("STAR")>>,
                       <<R("expr"), If(<<If(<<T("AS_")>>), R("column_alias")>>)>>>>)>>)>>

update_stmt ==
    <<If(<<R("with_clause")>>), T("UPDATE_"),
      If(<<T("OR_"), OneOf({"ABORT_", "FAIL_", "IGNORE_", "REPLACE_", "ROLLBACK_"})>>),
      R("qualified_table_name"), T("SET_"),
      Switch(<<<<R("column_name")>>, <<R("column_name_list")>>>>), T("ASSIGN"),
      R("expr"),
      While(<<T("COMMA"), Switch(<<<<R("column_name")>>, <<R("column_name_list")>>>>),
              T("ASSIGN"), R("expr")>>), If(<<T("FROM_"), R("join_clause")>>),
      If(<<T("WHERE_"), R("expr")>>), If(<<R("returning_clause")>>),
      If(<<R("order_clause")>>), If(<<R("limit_clause")>>)>>

column_name_list ==
    <<T("OPEN_PAR"), R("column_name"), While(<<T("COMMA"), R("column_name")>>),
      T("CLOSE_PAR")>>

delete_stmt ==
    <<If(<<R("with_clause")>>), T("DELETE_"), T("FROM_"), R("qualified_table_name"),
      If(<<T("WHERE_"), R("expr")>>), If(<<R("returning_clause")>>),
      If(<<R("order_clause")>>), If(<<R("limit_clause")>>)>>

qualified_table_name ==
    <<Maybe(<<R("schema_name"), T("DOT")>>), R("table_name"),
      If(<<T("AS_"), R("alias")>>),
      Switch(<<<<T("INDEXED_"), T("BY_"), R("index_name")>>,
               <<T("NOT_"), T("INDEXED_")>>, <<>>>>)>>
=============================================================================
