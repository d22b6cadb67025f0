---------------------------- MODULE SQLPrecedence ----------------------------
(***************************************************************************)
(* The parser on the query SELECT e, for an expression e: its tree against *)
(* the grouping the operators' precedence asks for.                        *)
(***************************************************************************)
EXTENDS SQLParser, Integers, FiniteSets

CONSTANT Queries     \* the texts that are such queries

\* The binary operators from the loosest to the tightest, one of a level
\* standing for the others.
Levels  == <<"OR_", "AND_", "NOT_", "ASSIGN", "LT", "AMP", "PLUS", "STAR", "PIPE2">>
LevelOf(t) == CHOOSE l \in DOMAIN Levels : Levels[l] = t

Type(i)      == input[i].type
Between(a, b, S) == {i \in a..b : Type(i) \in S}

\* The operators of a..b outside parentheses; a sign is not one.
Depth(a, i)  == Cardinality(Between(a, i, {"OPEN_PAR"})) - Cardinality(Between(a, i, {"CLOSE_PAR"}))
Splits(a, b) == {i \in Between(a, b, ToSet(Levels) \ {"NOT_"}) : Depth(a, i) = 0}
Loosest(a, b) == {i \in Splits(a, b) : \A j \in Splits(a, b) : LevelOf(Type(i)) <= LevelOf(Type(j))}

\* The ranges between the positions of S, which cut a..b.
Pieces(a, b, S) ==
    {<<Max({a} \cup {i + 1 : i \in {j \in S : j < k}}),
       Min({b} \cup {i - 1 : i \in {j \in S : j >= k}})>> : k \in S \cup {b + 1}}

\* The ranges of tokens that are expressions of their own if a..b is one:
\* a..b splits at its loosest operators, all of a level at once.  NOT takes
\* what is tighter than itself, a sign takes one operand.
RECURSIVE Groups(_, _)
Groups(a, b) ==
    LET cut == Loosest(a, b)
        parts == CASE cut # {} /\ \A i \in cut : LevelOf(Type(i)) < LevelOf("NOT_") -> Pieces(a, b, cut)
                   [] OTHER -> IF Type(a) = "NOT_" THEN {<<a + 1, b>>}
                               ELSE IF cut # {} THEN Pieces(a, b, cut)
                               ELSE IF Type(a) = "MINUS" THEN {<<a + 1, b>>}
                               ELSE IF Type(a) = "OPEN_PAR" THEN {<<a + 1, b - 1>>} ELSE {}
    IN  {<<a, b>>} \cup UNION {Groups(q[1], q[2]) : q \in parts}

\* NOT may only start an operand of OR and AND.
NotInPlace(t) ==
    \A i \in 2..Len(t) : t[i].type = "NOT_" =>
        t[i - 1].type \in {"SELECT_", "OR_", "AND_", "NOT_", "OPEN_PAR"}

\* The ranges of the nodes of a tree that belong to expression rules.
ExprRules == {"expr", "expr_or", "expr_and", "expr_not", "expr_binary", "expr_comparison",
              "expr_bitwise", "expr_addition", "expr_multiplication", "expr_string",
              "expr_collate", "expr_unary", "expr_base"}

RECURSIVE Leaves(_), Spans(_)
Leaves(tree) == IF "leaf" \in DOMAIN tree THEN {tree.leaf}
                ELSE UNION {Leaves(tree.kids[i]) : i \in DOMAIN tree.kids}
Spans(tree) ==
    IF "leaf" \in DOMAIN tree THEN {}
    ELSE (IF tree.rule \in ExprRules THEN {<<Min(Leaves(tree)), Max(Leaves(tree))>>} ELSE {})
         \cup UNION {Spans(tree.kids[i]) : i \in DOMAIN tree.kids}

\* An expression with NOT in its place is accepted, and the ranges its tree
\* puts under one expression node are the groups the precedence asks for:
\* the chain of rule functions expr_or .. expr_unary nests as the operators
\* bind, whatever operators stand side by side.
GroupsAsOperatorsBind ==
    ~Running /\ Front(input) \in Queries =>
        IF NotInPlace(input)
          THEN /\ result.state = "accepted"
               /\ Spans(result.tree) = Groups(2, Len(input) - 1)
          ELSE result.state = "error"
=============================================================================
