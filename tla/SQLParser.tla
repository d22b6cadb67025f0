------------------------------ MODULE SQLParser ------------------------------
(***************************************************************************)
(* The recursive descent parser (lib/parser/SQLiteParser.cpp) at work on   *)
(* one text: a stack with a context for every rule function that has been  *)
(* called and not returned, what is left to run in each, and the parse     *)
(* tree built so far.                                                      *)
(*                                                                         *)
(* The ANTLR runtime is external.  adaptivePredict takes the alternative   *)
(* with the lowest number from which the rest of the text can be derived,  *)
(* in the context of the whole stack.  The first error ends the parse: the *)
(* runtime's attempts to go on after one are not modelled.                 *)
(***************************************************************************)
EXTENDS SQLNames, SQLExpr, SQLQuery, SQLStatements, Integers, SequencesExt

Rules ==
    [parse |-> parse, sql_stmt_list |-> sql_stmt_list, sql_stmt |-> sql_stmt,
     alter_table_stmt |-> alter_table_stmt, analyze_stmt |-> analyze_stmt,
     attach_stmt |-> attach_stmt, begin_stmt |-> begin_stmt,
     commit_stmt |-> commit_stmt, rollback_stmt |-> rollback_stmt,
     savepoint_stmt |-> savepoint_stmt, release_stmt |-> release_stmt,
     create_index_stmt |-> create_index_stmt, indexed_column |-> indexed_column,
     create_table_stmt |-> create_table_stmt, table_options |-> table_options,
     column_def |-> column_def, type_name |-> type_name,
     column_constraint |-> column_constraint, signed_number |-> signed_number,
     table_constraint |-> table_constraint,
     foreign_key_clause |-> foreign_key_clause, conflict_clause |-> conflict_clause,
     create_trigger_stmt |-> create_trigger_stmt,
     create_view_stmt |-> create_view_stmt,
     create_virtual_table_stmt |-> create_virtual_table_stmt,
     with_clause |-> with_clause,
     common_table_expression |-> common_table_expression,
     cte_table_name |-> cte_table_name, delete_stmt |-> delete_stmt,
     detach_stmt |-> detach_stmt, drop_stmt |-> drop_stmt, expr |-> expr,
     expr_or |-> expr_or, expr_and |-> expr_and, expr_not |-> expr_not,
     expr_binary |-> expr_binary, expr_comparison |-> expr_comparison,
     expr_bitwise |-> expr_bitwise, expr_addition |-> expr_addition,
     expr_multiplication |-> expr_multiplication, expr_string |-> expr_string,
     expr_collate |-> expr_collate, expr_unary |-> expr_unary,
     expr_base |-> expr_base, expr_recursive |-> expr_recursive,
     raise_function |-> raise_function, literal_value |-> literal_value,
     percentile_clause |-> percentile_clause, value_row |-> value_row,
     values_clause |-> values_clause, insert_stmt |-> insert_stmt,
     returning_clause |-> returning_clause, upsert_clause |-> upsert_clause,
     pragma_stmt |-> pragma_stmt, pragma_value |-> pragma_value,
     reindex_stmt |-> reindex_stmt, select_stmt |-> select_stmt,
     join_clause |-> join_clause, select_core |-> select_core,
     table_or_subquery |-> table_or_subquery, result_column |-> result_column,
     join_operator |-> join_operator, join_constraint |-> join_constraint,
     compound_operator |-> compound_operator, update_stmt |-> update_stmt,
     column_name_list |-> column_name_list,
     qualified_table_name |-> qualified_table_name, vacuum_stmt |-> vacuum_stmt,
     filter_clause |-> filter_clause, window_defn |-> window_defn,
     over_clause |-> over_clause, frame_spec |-> frame_spec,
     frame_clause |-> frame_clause, order_clause |-> order_clause,
     limit_clause |-> limit_clause, ordering_term |-> ordering_term,
     asc_desc |-> asc_desc, frame_left |-> frame_left, frame_right |-> frame_right,
     frame_single |-> frame_single, error_message |-> error_message,
     filename |-> filename, module_argument |-> module_argument,
     module_argument_outer |-> module_argument_outer,
     module_argument_inner |-> module_argument_inner,
     fallback_excluding_conflicts |-> fallback_excluding_conflicts,
     join_keyword |-> join_keyword, fallback |-> fallback, name |-> name,
     function_name |-> function_name, schema_name |-> schema_name,
     table_name |-> table_name, table_or_index_name |-> table_or_index_name,
     column_name |-> column_name,
     column_name_excluding_string |-> column_name_excluding_string,
     column_alias |-> column_alias, collation_name |-> collation_name,
     foreign_table |-> foreign_table, index_name |-> index_name,
     trigger_name |-> trigger_name, view_name |-> view_name,
     module_name |-> module_name, pragma_name |-> pragma_name,
     savepoint_name |-> savepoint_name, table_alias |-> table_alias,
     table_alias_excluding_joins |-> table_alias_excluding_joins,
     window_name |-> window_name, alias |-> alias,
     base_window_name |-> base_window_name,
     table_function_name |-> table_function_name,
     any_name_excluding_raise |-> any_name_excluding_raise,
     any_name_excluding_joins |-> any_name_excluding_joins,
     any_name_excluding_string |-> any_name_excluding_string, any_name |-> any_name]

\* The token types of the parser that reach it: comments and spaces do not.
TokenTypes ==
    {"SCOL", "DOT", "OPEN_PAR", "CLOSE_PAR", "COMMA", "ASSIGN", "STAR", "PLUS",
     "MINUS", "TILDE", "PIPE2", "DIV", "MOD", "LT2", "GT2", "AMP", "PIPE", "LT",
     "LT_EQ", "GT", "GT_EQ", "EQ", "NOT_EQ1", "NOT_EQ2", "JPTR", "JPTR2",
     "ABORT_", "ACTION_", "ADD_", "AFTER_", "ALL_", "ALTER_", "ALWAYS_",
     "ANALYZE_", "AND_", "AS_", "ASC_", "ATTACH_", "AUTOINCREMENT_", "BEFORE_",
     "BEGIN_", "BETWEEN_", "BY_", "CASCADE_", "CASE_", "CAST_", "CHECK_",
     "COLLATE_", "COLUMN_", "COMMIT_", "CONFLICT_", "CONSTRAINT_", "CREATE_",
     "CROSS_", "CURRENT_", "CURRENT_DATE_", "CURRENT_TIME_",
     "CURRENT_TIMESTAMP_", "DATABASE_", "DEFAULT_", "DEFERRABLE_", "DEFERRED_",
     "DELETE_", "DESC_", "DETACH_", "DISTINCT_", "DO_", "DROP_", "EACH_",
     "ELSE_", "END_", "ESCAPE_", "EXCEPT_", "EXCLUDE_", "EXCLUSIVE_", "EXISTS_",
     "EXPLAIN_", "FAIL_", "FALSE_", "FILTER_", "FIRST_", "FOLLOWING_", "FOR_",
     "FOREIGN_", "FROM_", "FULL_", "GENERATED_", "GLOB_", "GROUP_", "GROUPS_",
     "HAVING_", "IF_", "IGNORE_", "IMMEDIATE_", "IN_", "INDEX_", "INDEXED_",
     "INITIALLY_", "INNER_", "INSERT_", "INSTEAD_", "INTERSECT_", "INTO_",
     "IS_", "ISNULL_", "JOIN_", "KEY_", "LAST_", "LEFT_", "LIKE_", "LIMIT_",
     "MATCH_", "MATERIALIZED_", "NATURAL_", "NO_", "NOT_", "NOTHING_",
     "NOTNULL_", "NULL_", "NULLS_", "OF_", "OFFSET_", "ON_", "OR_", "ORDER_",
     "OTHERS_", "OUTER_", "OVER_", "PARTITION_", "PLAN_", "PRAGMA_",
     "PRECEDING_", "PRIMARY_", "QUERY_", "RAISE_", "RANGE_", "RECURSIVE_",
     "REFERENCES_", "REGEXP_", "REINDEX_", "RELEASE_", "RENAME_", "REPLACE_",
     "RESTRICT_", "RETURNING_", "RIGHT_", "ROLLBACK_", "ROW_", "ROWID_",
     "ROWS_", "SAVEPOINT_", "SELECT_", "SET_", "STORED_", "STRICT_", "TABLE_",
     "TEMP_", "TEMPORARY_", "THEN_", "TIES_", "TO_", "TRANSACTION_", "TRIGGER_",
     "TRUE_", "UNBOUNDED_", "UNION_", "UNIQUE_", "UPDATE_", "USING_", "VACUUM_",
     "VALUES_", "VIEW_", "VIRTUAL_", "WHEN_", "WHERE_", "WINDOW_", "WITH_",
     "WITHIN_", "WITHOUT_", "IDENTIFIER", "NUMERIC_LITERAL", "BIND_PARAMETER",
     "STRING_LITERAL", "BLOB_LITERAL", "UNEXPECTED_CHAR", "EOF"}

CONSTANTS Texts,     \* token sequences to parse, each token a type and its text
          Sentences  \* those that are SQL

VARIABLES input,     \* the tokens, with EOF at the end
          pos,       \* the next token
          stack,     \* the contexts, the running rule's last
          result     \* "running", "error", or the tree of the whole text

vars == <<input, pos, stack, result>>

Context(r) == [rule |-> r, rest |-> Rules[r], kids |-> <<>>]

\* The lexer ends every text with EOF.
WithEOF(t) == Append(t, [type |-> "EOF", text |-> "<EOF>"])

Init == /\ input \in {WithEOF(t) : t \in Texts}
        /\ pos = 1
        /\ stack = <<Context("parse")>>
        /\ result = [state |-> "running"]

Matches(p, t) == IF p.kind = "match" THEN t \in p.set ELSE t \notin p.set \cup {"EOF"}

\* Can a sequence of parts be empty, and which tokens can it start with?
RECURSIVE CanBeEmpty(_), FirstOf(_)
CanBeEmpty(s) ==
    \A i \in DOMAIN s :
        CASE s[i].kind \in {"match", "exclude"} -> FALSE
          [] s[i].kind = "rule" -> CanBeEmpty(Rules[s[i].rule])
          [] OTHER -> \E alt \in ToSet(Alternatives(s[i])) : CanBeEmpty(alt)

FirstOf(s) ==
    IF s = <<>> THEN {}
    ELSE LET p == Head(s)
         IN  (CASE p.kind \in {"match", "exclude"} -> {t \in TokenTypes : Matches(p, t)}
                [] p.kind = "rule" -> FirstOf(Rules[p.rule])
                [] OTHER -> UNION {FirstOf(alt) : alt \in ToSet(Alternatives(p))})
             \cup (IF CanBeEmpty(<<p>>) THEN FirstOf(Tail(s)) ELSE {})

FirstOfRule == [r \in DOMAIN Rules |-> FirstOf(Rules[r])]
EmptyRules  == {r \in DOMAIN Rules : CanBeEmpty(Rules[r])}

\* FirstOf, with the rules looked up.
RECURSIVE Starts(_, _)
Starts(s, t) ==
    /\ s # <<>>
    /\ LET p == Head(s)
       IN  CASE p.kind \in {"match", "exclude"} -> Matches(p, t)
             [] p.kind = "rule" -> \/ t \in FirstOfRule[p.rule]
                                   \/ p.rule \in EmptyRules /\ Starts(Tail(s), t)
             [] OTHER -> \E alt \in ToSet(Alternatives(p)) :
                             \/ Starts(alt, t)
                             \/ CanBeEmpty(alt) /\ Starts(Tail(s), t)

\* Where can a text the part p describes end, if it starts at the i-th token,
\* and one the parts s describe, if it starts at one of the tokens S?
RECURSIVE PartEnds(_, _), EndsOf(_, _)
PartEnds(p, i) ==
    CASE p.kind \in {"match", "exclude"} ->
             IF Matches(p, input[i].type) THEN {i + 1} ELSE {}
      [] p.kind = "rule" ->
             IF p.rule \in EmptyRules \/ input[i].type \in FirstOfRule[p.rule]
               THEN EndsOf(Rules[p.rule], {i}) ELSE {}
      [] OTHER -> UNION {EndsOf(alt, {i}) : alt \in ToSet(Alternatives(p))}

EndsOf(s, S) ==
    LET after[n \in 0..Len(s)] ==
            IF n = 0 THEN S ELSE UNION {PartEnds(p, i) : p \in {s[n]}, i \in after[n - 1]}
    IN  after[Len(s)]

Running == result.state = "running"
Top     == Last(stack)
Part    == Head(Top.rest)
LA      == input[pos].type
Becomes(ctx) == stack' = [stack EXCEPT ![Len(stack)] = ctx]

\* match, consume: the token becomes a leaf of the rule's tree.
Match ==
    /\ Running /\ Top.rest # <<>>
    /\ Part.kind \in {"match", "exclude"} /\ Matches(Part, LA)
    /\ Becomes([Top EXCEPT !.rest = Tail(@), !.kids = Append(@, [leaf |-> pos])])
    /\ pos' = pos + 1
    /\ UNCHANGED <<input, result>>

\* A rule function is called (enterRule).
EnterRule ==
    /\ Running /\ Top.rest # <<>> /\ Part.kind = "rule"
    /\ stack' = Append([stack EXCEPT ![Len(stack)].rest = Tail(@)], Context(Part.rule))
    /\ UNCHANGED <<input, pos, result>>

Tree(ctx) == [rule |-> ctx.rule, kids |-> ctx.kids]

\* A rule function returns (exitRule): its tree goes to its caller.
ExitRule ==
    /\ Running /\ Top.rest = <<>>
    /\ UNCHANGED <<input, pos>>
    /\ IF Len(stack) = 1
         THEN /\ result' = [state |-> "accepted", tree |-> Tree(Top)]
              /\ stack' = <<>>
         ELSE /\ stack' = [Front(stack) EXCEPT ![Len(stack) - 1].kids = Append(@, Tree(Top))]
              /\ UNCHANGED result

\* Mutant: a loop or an optional part is entered by its second token.
OneTokenChoices_mutant(alts) ==
    {k \in DOMAIN alts : alts[k] = <<>>} \cup
    {k \in DOMAIN alts : pos < Len(input) /\ Starts(alts[k], input[pos + 1].type)}

\* The alternatives that start with the next token; without one, an empty one.
OneTokenChoices(alts) ==
    LET starting == {k \in DOMAIN alts : Starts(alts[k], LA)}
    IN  IF starting # {} THEN starting ELSE {k \in DOMAIN alts : alts[k] = <<>>}

\* adaptivePredict.  If the next token leaves one alternative, that one; or
\* else those after which the callers' parts describe the rest of the text.
Predicted(alts) ==
    LET open  == {k \in DOMAIN alts : Starts(alts[k], LA) \/ CanBeEmpty(alts[k])}
        after == Tail(Top.rest) \o
                 FlattenSeq(Reverse([i \in 1..(Len(stack) - 1) |-> stack[i].rest]))
    IN  IF Cardinality(open) = 1 THEN open
        ELSE {k \in open : \E s \in {alts[k] \o after} : EndsOf(s, {pos}) # {}}

Decision(p) == IF ByOneToken(p) THEN OneTokenChoices(Alternatives(p))
               ELSE Predicted(Alternatives(p))

\* A decision, on the next token or by adaptivePredict: of several
\* alternatives the one with the lowest number.  Without one, and at a token
\* that does not match, a RecognitionException.
Decide ==
    /\ Running /\ Top.rest # <<>> /\ (ByOneToken(Part) \/ ByPrediction(Part))
    /\ \E choices \in {Decision(Part)} :
           \/ /\ choices # {}
              /\ Becomes([Top EXCEPT !.rest = Alternatives(Part)[Min(choices)] \o Tail(@)])
              /\ UNCHANGED result
           \/ /\ choices = {}
              /\ result' = [state |-> "error"]
              /\ UNCHANGED stack
    /\ UNCHANGED <<input, pos>>

Mismatch ==
    /\ Running /\ Top.rest # <<>>
    /\ Part.kind \in {"match", "exclude"} /\ ~Matches(Part, LA)
    /\ result' = [state |-> "error"]
    /\ UNCHANGED <<input, pos, stack>>

Finished == ~Running /\ UNCHANGED vars

Next == Match \/ EnterRule \/ ExitRule \/ Decide \/ Mismatch \/ Finished

Spec == Init /\ [][Next]_vars /\ WF_vars(Next)
-----------------------------------------------------------------------------
\* A text the grammar describes is never lost on the way: decisions made on
\* one token (switch and loop conditions on LA(1)) leave the rest of the
\* text derivable just as predicted ones do.  So a parse ends in an error
\* only for a text the grammar does not describe.
NeverLost == result.state = "error" => EndsOf(parse, {1}) = {}

\* Every parse ends: the statements of the language are accepted, and nothing
\* else is.
VerdictRight ==
    <>[](/\ ~Running
         /\ (result.state = "accepted") = (Front(input) \in Sentences))
=============================================================================
