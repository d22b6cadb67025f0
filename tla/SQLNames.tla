------------------------------ MODULE SQLNames ------------------------------
(***************************************************************************)
(* Names in the SQL grammar (lib/parser/SQLiteParser.cpp): an identifier, a*)
(* string, or one of the keywords that fall back to an identifier where no *)
(* rule expects them as keywords.                                          *)
(***************************************************************************)
EXTENDS Grammar

fallback_excluding_conflicts ==
    <<OneOf({"ABORT_", "ACTION_", "AFTER_", "ALWAYS_", "ANALYZE_", "ASC_", "ATTACH_",
             "BEFORE_", "BEGIN_", "BY_", "CASCADE_", "CAST_", "COLUMN_", "CONFLICT_",
             "CURRENT_", "CURRENT_DATE_", "CURRENT_TIME_", "CURRENT_TIMESTAMP_",
             "DATABASE_", "DEFERRED_", "DESC_", "DETACH_", "DO_", "EACH_", "END_",
             "EXCEPT_", "EXCLUDE_", "EXCLUSIVE_", "EXPLAIN_", "FAIL_", "FALSE_",
             "FIRST_", "FOLLOWING_", "FOR_", "GENERATED_", "GLOB_", "GROUPS_", "IF_",
             "IGNORE_", "IMMEDIATE_", "INITIALLY_", "INSTEAD_", "INTERSECT_", "KEY_",
             "LAST_", "LIKE_", "MATCH_", "MATERIALIZED_", "NO_", "NULLS_", "OF_",
             "OFFSET_", "OTHERS_", "PARTITION_", "PLAN_", "PRAGMA_", "PRECEDING_",
             "QUERY_", "RANGE_", "RECURSIVE_", "REGEXP_", "REINDEX_", "RELEASE_",
             "RENAME_", "REPLACE_", "RESTRICT_", "ROLLBACK_", "ROW_", "ROWID_", "ROWS_",
             "SAVEPOINT_", "STORED_", "STRICT_", "TEMP_", "TEMPORARY_", "TIES_",
             "TRIGGER_", "TRUE_", "UNBOUNDED_", "UNION_", "VACUUM_", "VIEW_",
             "VIRTUAL_", "WITH_", "WITHIN_", "WITHOUT_"})>>

join_keyword ==
    <<OneOf({"CROSS_", "FULL_", "INDEXED_", "INNER_", "LEFT_", "NATURAL_", "OUTER_",
             "RIGHT_"})>>

fallback ==
    <<Switch(<<<<R("fallback_excluding_conflicts")>>, <<R("join_keyword")>>,
               <<T("RAISE_")>>>>)>>

any_name ==
    <<Switch(<<<<T("IDENTIFIER")>>, <<R("fallback")>>, <<T("STRING_LITERAL")>>>>)>>

any_name_excluding_raise ==
    <<Switch(<<<<T("IDENTIFIER")>>, <<R("fallback_excluding_conflicts")>>,
               <<R("join_keyword")>>, <<T("STRING_LITERAL")>>>>)>>

any_name_excluding_joins ==
    <<Switch(<<<<T("IDENTIFIER")>>, <<R("fallback_excluding_conflicts")>>,
               <<T("RAISE_")>>, <<T("STRING_LITERAL")>>>>)>>

any_name_excluding_string == <<Switch(<<<<T("IDENTIFIER")>>, <<R("fallback")>>>>)>>
name == <<R("any_name")>>
function_name == <<R("any_name_excluding_raise")>>
schema_name == <<R("any_name")>>
table_name == <<R("any_name")>>
table_or_index_name == <<R("any_name")>>
column_name == <<R("any_name")>>
column_name_excluding_string == <<R("any_name_excluding_string")>>
column_alias == <<R("any_name")>>
collation_name == <<R("any_name")>>
foreign_table == <<R("any_name")>>
index_name == <<R("any_name")>>
trigger_name == <<R("any_name")>>
view_name == <<R("any_name")>>
module_name == <<R("any_name")>>
pragma_name == <<R("any_name")>>
savepoint_name == <<R("any_name")>>
table_alias == <<R("any_name")>>
table_alias_excluding_joins == <<R("any_name_excluding_joins")>>
window_name == <<R("any_name")>>
alias == <<R("any_name")>>
base_window_name == <<R("any_name")>>
table_function_name == <<R("any_name")>>
=============================================================================
