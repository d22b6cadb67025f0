------------------------------ MODULE FrontEnd ------------------------------
(***************************************************************************)
(* From a statement's text to the call it makes on the catalog: the parser,*)
(* ASTBuilder (lib/ast), Binder (lib/binder) and DDLExecutor               *)
(* (lib/executor).  The program that hands the parser's tree to the        *)
(* builder, and its node to the binder, is not in the repository: here it  *)
(* is the order of the steps.                                              *)
(***************************************************************************)
EXTENDS SQLPrecedence

CONSTANT Declared    \* the texts whose trees the program hands on, and what each says

VARIABLES node,      \* what ASTBuilder made of the tree, or None
          bound,     \* what Binder made of the node, or None
          called,    \* the call on CatalogManager, or None
          ending,    \* "", "crash", or "unknown type"
          meant      \* for the properties: what the text says; None if the
                     \* program does not hand its tree on

feVars == <<vars, node, bound, called, ending, meant>>

None == [kind |-> "none"]

FEInit == /\ Init
          /\ node = None /\ bound = None /\ called = None
          /\ ending = ""
          /\ meant \in {IF d = {} THEN None ELSE (CHOOSE x \in d : TRUE).says :
                          d \in {{x \in Declared : x.text = Front(input)}}}
-----------------------------------------------------------------------------
(***************************************************************************)
(* The accessors of a generated context: the children of a rule, the tokens*)
(* of a type among the children, and getText, which runs the texts of all  *)
(* tokens below together without the spaces between them.                  *)
(***************************************************************************)
IsTree(k) == "rule" \in DOMAIN k
Children(tree, r) == SelectSeq(tree.kids, LAMBDA k : IsTree(k) /\ k.rule = r)
HasToken(tree, t) == \E i \in DOMAIN tree.kids :
                         ~IsTree(tree.kids[i]) /\ input[tree.kids[i].leaf].type = t

RECURSIVE getText(_)
getText(k) == IF IsTree(k) THEN FoldLeft(LAMBDA s, c : s \o getText(c), "", k.kids)
              ELSE input[k.leaf].text

\* The tree of the statement: parse, sql_stmt_list, sql_stmt, statement.
Statement == Last(result.tree.kids[1].kids[1].kids)

Accepted == result.state = "accepted" /\ node = None /\ ending = "" /\ meant # None

(***************************************************************************)
(* ASTBuilder.  The two flags of a ColumnDef are not initialized, so a     *)
(* flag that no constraint sets may hold either value.  type_name() is a   *)
(* null pointer for a column without a type.                               *)
(***************************************************************************)
Constrained(def, t) == \E i \in DOMAIN Children(def, "column_constraint") :
                           HasToken(Children(def, "column_constraint")[i], t)

\* Mutant: only the last constraint of a column counts.
ColumnDefs_mutant_last(def) ==
    LET Counts(t) == /\ Children(def, "column_constraint") # <<>>
                     /\ HasToken(Last(Children(def, "column_constraint")), t)
    IN  {[name           |-> getText(Children(def, "column_name")[1]),
          datatype_str   |-> getText(Children(def, "type_name")[1]),
          is_primary_key |-> pk, is_nullable |-> null] :
             pk   \in IF Counts("PRIMARY_") THEN {TRUE} ELSE BOOLEAN,
             null \in IF Counts("NULL_") THEN {TRUE} ELSE BOOLEAN}

ColumnDefs(def) ==
    {[name           |-> getText(Children(def, "column_name")[1]),
      datatype_str   |-> getText(Children(def, "type_name")[1]),
      is_primary_key |-> pk, is_nullable |-> null] :
         pk   \in IF Constrained(def, "PRIMARY_") THEN {TRUE} ELSE BOOLEAN,
         null \in IF Constrained(def, "NULL_") THEN {TRUE} ELSE BOOLEAN}

\* All the choices of one element from each of a sequence of sets
RECURSIVE Choose1(_)
Choose1(sets) ==
    IF sets = <<>> THEN {<<>>}
    ELSE {<<x>> \o rest : x \in Head(sets), rest \in Choose1(Tail(sets))}

visitCreate_table_stmt ==
    LET defs == Children(Statement, "column_def")
    IN  /\ Accepted /\ Statement.rule = "create_table_stmt"
        /\ IF \E i \in DOMAIN defs : Children(defs[i], "type_name") = <<>>
             THEN ending' = "crash" /\ UNCHANGED node
             ELSE /\ \E columns \in Choose1([i \in DOMAIN defs |-> ColumnDefs(defs[i])]) :
                         node' = [kind    |-> "CREATE_TABLE",
                                  name    |-> getText(Children(Statement, "table_name")[1]),
                                  columns |-> columns]
                  /\ UNCHANGED ending
        /\ UNCHANGED <<vars, bound, called, meant>>

visitDrop_stmt ==
    /\ Accepted /\ Statement.rule = "drop_stmt"
    /\ node' = [kind |-> "DROP_TABLE", name |-> getText(Children(Statement, "any_name")[1])]
    /\ UNCHANGED <<vars, bound, called, ending, meant>>

\* Statements of the other kinds have no visit function of their own.
Unsupported ==
    /\ Accepted /\ Statement.rule \notin {"create_table_stmt", "drop_stmt"}
    /\ UNCHANGED feVars
-----------------------------------------------------------------------------
(***************************************************************************)
(* Binder: the types by name, in capitals.                                 *)
(***************************************************************************)
TYPE_MAP == [INTEGER |-> "INTEGER", INT |-> "INTEGER", TEXT |-> "TEXT",
             BOOLEAN |-> "BOOLEAN", BOOL |-> "BOOLEAN"]

small == "abcdefghijklmnopqrstuvwxyz"
large == "ABCDEFGHIJKLMNOPQRSTUVWXYZ"

\* std::transform with ::toupper, letter by letter, whatever the mix of cases.
toupper(s) ==
    LET Char(w, i) == SubSeq(w, i, i)
        Upper(c) == IF \E j \in 1 .. Len(small) : Char(small, j) = c
                    THEN Char(large, CHOOSE j \in 1 .. Len(small) : Char(small, j) = c) ELSE c
    IN  FoldLeft(LAMBDA w, i : w \o Upper(Char(s, i)), "", [i \in 1 .. Len(s) |-> i])

BoundColumn(c) == [name |-> c.name, is_primary_key |-> c.is_primary_key,
                   is_nullable |-> c.is_nullable, type |-> TYPE_MAP[toupper(c.datatype_str)]]

bind_create_table ==
    /\ node.kind = "CREATE_TABLE" /\ bound = None /\ ending = ""
    /\ IF \A i \in DOMAIN node.columns : toupper(node.columns[i].datatype_str) \in DOMAIN TYPE_MAP
         THEN /\ bound' = [kind |-> "CREATE_TABLE", name |-> node.name,
                           columns |-> [i \in DOMAIN node.columns |-> BoundColumn(node.columns[i])]]
              /\ UNCHANGED ending
         ELSE ending' = "unknown type" /\ UNCHANGED bound
    /\ UNCHANGED <<vars, node, called, meant>>

bind_drop_table ==
    /\ node.kind = "DROP_TABLE" /\ bound = None
    /\ bound' = [kind |-> "DROP_TABLE", name |-> node.name]
    /\ UNCHANGED <<vars, node, called, ending, meant>>

\* DDLExecutor
execute_create_table ==
    /\ bound.kind = "CREATE_TABLE" /\ called = None
    /\ called' = [kind |-> "create_table", name |-> bound.name, tbl_name |-> bound.name,
                  columns |-> bound.columns]
    /\ UNCHANGED <<vars, node, bound, ending, meant>>

execute_drop_table ==
    /\ bound.kind = "DROP_TABLE" /\ called = None
    /\ called' = [kind |-> "drop_table", name |-> bound.name]
    /\ UNCHANGED <<vars, node, bound, ending, meant>>

Parsing == /\ Match \/ EnterRule \/ ExitRule \/ Decide \/ Mismatch
           /\ UNCHANGED <<node, bound, called, ending, meant>>

Done == \/ called # None \/ ending # "" \/ result.state = "error"
        \/ result.state = "accepted" /\ meant = None

FEFinished == Done /\ UNCHANGED feVars

FENext == \/ Parsing \/ visitCreate_table_stmt \/ visitDrop_stmt \/ Unsupported
          \/ bind_create_table \/ bind_drop_table
          \/ execute_create_table \/ execute_drop_table \/ FEFinished

FESpec == FEInit /\ [][FENext]_feVars /\ WF_feVars(FENext)
-----------------------------------------------------------------------------
NoType(c)  == c.type = "none"
Unknown(c) == c.type = "unknown"
Some(P(_)) == \E i \in DOMAIN meant.columns : P(meant.columns[i])

\* The columns that reach CatalogManager are those the text declares: in
\* order with their types, and with the flags that PRIMARY KEY and NULL
\* constraints set, wherever they stand among the others.
ColumnsAsDeclared ==
    /\ Len(called.columns) = Len(meant.columns)
    /\ \A i \in DOMAIN meant.columns :
           LET c == called.columns[i]
               d == meant.columns[i]
           IN  /\ c.name = d.name /\ c.type = d.type
               /\ d.primary => c.is_primary_key
               /\ d.null = "NULL" => c.is_nullable

\* Every text the program hands on, but one with a column without a type, is
\* answered: with a syntax error, an exception for an unknown type and no call,
\* or the call it asks for, through the tree, the AST node and the bound
\* statement: of a CREATE TABLE, a table under its name without the schema's,
\* with the columns it declares (ast.cpp 5-35, binder.cpp 17-62, ddl.cpp 7-34).
Answered ==
    <>[](meant # None =>
            CASE meant.kind = "wrong" -> result.state = "error"
              [] meant.kind = "other" -> result.state = "accepted" /\ called = None
              [] meant.kind = "drop" -> called = [kind |-> "drop_table", name |-> meant.name]
              [] OTHER -> \/ Some(NoType)
                          \/ Some(Unknown) /\ ending = "unknown type" /\ called = None
                          \/ /\ ~Some(Unknown)
                             /\ called.kind = "create_table" /\ called.name = meant.name
                             /\ ColumnsAsDeclared)
=============================================================================
