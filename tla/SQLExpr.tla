------------------------------- MODULE SQLExpr -------------------------------
(***************************************************************************)
(* Expressions in the SQL grammar (lib/parser/SQLiteParser.cpp), one rule per*)
(* level of precedence, with the window and ordering clauses they contain. *)
(***************************************************************************)
EXTENDS Grammar

expr == <<R("expr_or")>>
expr_or == <<R("expr_and"), While(<<T("OR_"), R("expr_and")>>)>>
expr_and == <<R("expr_not"), While(<<T("AND_"), R("expr_not")>>)>>
expr_not == <<Repeat(<<T("NOT_")>>), R("expr_binary")>>

expr_binary ==
    <<R("expr_comparison"),
      Repeat(<<Predict(<<<<OneOf({"ASSIGN", "EQ", "NOT_EQ1", "NOT_EQ2"}),
                           R("expr_comparison")>>,
                         <<T("IS_"), Maybe(<<T("NOT_")>>),
                           If(<<T("DISTINCT_"), T("FROM_")>>), R("expr_comparison")>>,
                         <<If(<<T("NOT_")>>), T("BETWEEN_"), R("expr_comparison"),
                           T("AND_"), R("expr_comparison")>>,
                         <<If(<<T("NOT_")>>), T("IN_"),
                           Predict(<<<<T("OPEN_PAR"),
                                       Predict(<<<<R("select_stmt")>>,
                                                 <<R("expr_comparison"),
                                                   While(<<T("COMMA"),
                                                           R("expr_comparison")>>)>>,
                                                 <<>>>>), T("CLOSE_PAR")>>,
                                     <<Maybe(<<R("schema_name"), T("DOT")>>),
                                       R("table_name")>>,
                                     <<Maybe(<<R("schema_name"), T("DOT")>>),
                                       R("table_function_name"), T("OPEN_PAR"),
                                       If(<<R("expr_comparison"),
                                            While(<<T("COMMA"), R("expr_comparison")>>)>>),
                                       T("CLOSE_PAR")>>>>)>>,
                         <<If(<<T("NOT_")>>),
                           Switch(<<<<T("LIKE_"), R("expr_comparison"),
                                      If(<<T("ESCAPE_"), R("expr_comparison")>>)>>,
                                    <<OneOf({"GLOB_", "MATCH_", "REGEXP_"}),
                                      R("expr_comparison")>>>>)>>, <<T("ISNULL_")>>,
                         <<T("NOTNULL_")>>, <<T("NOT_"), T("NULL_")>>>>)>>)>>

expr_comparison ==
    <<R("expr_bitwise"),
      While(<<OneOf({"LT", "LT_EQ", "GT", "GT_EQ"}), R("expr_bitwise")>>)>>

expr_bitwise ==
    <<R("expr_addition"),
      While(<<OneOf({"LT2", "GT2", "AMP", "PIPE"}), R("expr_addition")>>)>>

expr_addition ==
    <<R("expr_multiplication"),
      While(<<OneOf({"PLUS", "MINUS"}), R("expr_multiplication")>>)>>

\* Mutant: addition and multiplication on one level.
expr_multiplication_mutant_level ==
    <<R("expr_string"),
      While(<<OneOf({"STAR", "DIV", "MOD", "PLUS", "MINUS"}), R("expr_string")>>)>>

expr_multiplication ==
    <<R("expr_string"), While(<<OneOf({"STAR", "DIV", "MOD"}), R("expr_string")>>)>>

expr_string ==
    <<R("expr_collate"),
      While(<<OneOf({"PIPE2", "JPTR", "JPTR2"}), R("expr_collate")>>)>>

expr_collate == <<R("expr_unary"), Repeat(<<T("COLLATE_"), R("collation_name")>>)>>
expr_unary == <<While(<<OneOf({"PLUS", "MINUS", "TILDE"})>>), R("expr_base")>>

expr_base ==
    <<Predict(<<<<R("literal_value")>>, <<T("BIND_PARAMETER")>>,
                <<Maybe(<<R("schema_name"), T("DOT")>>), R("table_name"), T("DOT"),
                  R("column_name")>>, <<R("column_name_excluding_string")>>,
                <<If(<<If(<<T("NOT_")>>), T("EXISTS_")>>), T("OPEN_PAR"),
                  R("select_stmt"), T("CLOSE_PAR")>>, <<R("raise_function")>>,
                <<R("expr_recursive")>>>>)>>

expr_recursive ==
    <<Predict(<<<<R("function_name"), T("OPEN_PAR"),
                  Switch(<<<<If(<<T("DISTINCT_")>>), R("expr"),
                             While(<<T("COMMA"), R("expr")>>),
                             If(<<R("order_clause")>>)>>, <<T("STAR")>>, <<>>>>),
                  T("CLOSE_PAR"), Maybe(<<R("percentile_clause")>>),
                  If(<<R("filter_clause")>>), If(<<R("over_clause")>>)>>,
                <<T("OPEN_PAR"), R("expr"), While(<<T("COMMA"), R("expr")>>),
                  T("CLOSE_PAR")>>,
                <<T("CAST_"), T("OPEN_PAR"), R("expr"), T("AS_"), R("type_name"),
                  T("CLOSE_PAR")>>,
                <<T("CASE_"), If(<<R("expr")>>),
                  DoWhile(<<T("WHEN_"), R("expr"), T("THEN_"), R("expr")>>),
                  If(<<T("ELSE_"), R("expr")>>), T("END_")>>>>)>>

raise_function ==
    <<T("RAISE_"), T("OPEN_PAR"),
      Switch(<<<<T("IGNORE_")>>,
               <<OneOf({"ABORT_", "FAIL_", "ROLLBACK_"}), T("COMMA"),
                 R("error_message")>>>>), T("CLOSE_PAR")>>

literal_value ==
    <<OneOf({"CURRENT_DATE_", "CURRENT_TIME_", "CURRENT_TIMESTAMP_", "FALSE_", "NULL_",
             "TRUE_", "NUMERIC_LITERAL", "STRING_LITERAL", "BLOB_LITERAL"})>>

signed_number == <<If(<<OneOf({"PLUS", "MINUS"})>>), T("NUMERIC_LITERAL")>>

type_name ==
    <<LazyPlus(<<R("name")>>),
      Predict(<<<<T("OPEN_PAR"), R("signed_number"), T("CLOSE_PAR")>>,
                <<T("OPEN_PAR"), R("signed_number"), T("COMMA"), R("signed_number"),
                  T("CLOSE_PAR")>>, <<>>>>)>>

percentile_clause ==
    <<T("WITHIN_"), T("GROUP_"), T("OPEN_PAR"), T("ORDER_"), T("BY_"), R("expr"),
      T("CLOSE_PAR")>>

filter_clause == <<T("FILTER_"), T("OPEN_PAR"), T("WHERE_"), R("expr"), T("CLOSE_PAR")>>

over_clause ==
    <<T("OVER_"),
      Switch(<<<<R("window_name")>>,
               <<T("OPEN_PAR"), Maybe(<<R("base_window_name")>>),
                 If(<<T("PARTITION_"), T("BY_"), R("expr"),
                      While(<<T("COMMA"), R("expr")>>)>>), If(<<R("order_clause")>>),
                 If(<<R("frame_spec")>>), T("CLOSE_PAR")>>>>)>>

window_defn ==
    <<T("OPEN_PAR"), Maybe(<<R("base_window_name")>>),
      If(<<T("PARTITION_"), T("BY_"), R("expr"), While(<<T("COMMA"), R("expr")>>)>>),
      If(<<R("order_clause")>>), If(<<R("frame_spec")>>), T("CLOSE_PAR")>>

frame_spec ==
    <<R("frame_clause"),
      If(<<T("EXCLUDE_"),
           Switch(<<<<T("NO_"), T("OTHERS_")>>, <<T("CURRENT_"), T("ROW_")>>,
                    <<T("GROUP_")>>, <<T("TIES_")>>>>)>>)>>

frame_clause ==
    <<OneOf({"GROUPS_", "RANGE_", "ROWS_"}),
      Switch(<<<<R("frame_single")>>,
               <<T("BETWEEN_"), R("frame_left"), T("AND_"), R("frame_right")>>>>)>>

frame_left ==
    <<Predict(<<<<R("expr"), T("PRECEDING_")>>, <<R("expr"), T("FOLLOWING_")>>,
                <<T("CURRENT_"), T("ROW_")>>>>)>>

frame_right ==
    <<Predict(<<<<R("expr"), T("PRECEDING_")>>, <<R("expr"), T("FOLLOWING_")>>,
                <<T("CURRENT_"), T("ROW_")>>>>)>>

frame_single ==
    <<Predict(<<<<R("expr"), T("PRECEDING_")>>, <<T("CURRENT_"), T("ROW_")>>>>)>>

order_clause ==
    <<T("ORDER_"), T("BY_"), R("ordering_term"),
      While(<<T("COMMA"), R("ordering_term")>>)>>

ordering_term ==
    <<R("expr"), If(<<T("COLLATE_"), R("collation_name")>>), If(<<R("asc_desc")>>),
      If(<<T("NULLS_"), OneOf({"FIRST_", "LAST_"})>>)>>

asc_desc == <<OneOf({"ASC_", "DESC_"})>>

limit_clause ==
    <<T("LIMIT_"), R("expr"), If(<<OneOf({"COMMA", "OFFSET_"}), R("expr")>>)>>

error_message == <<R("expr")>>
filename == <<R("expr")>>
=============================================================================
