----------------------------- MODULE MCFrontEnd -----------------------------
(***************************************************************************)
(* The parser on statements of every kind and slips (MCSQLTexts) and on    *)
(* expressions of up to three operators with signs, NOT and parentheses;   *)
(* the whole front end on CREATE TABLE statements put together from a few  *)
(* columns and clauses, on DROP statements and on texts that are neither.  *)
(***************************************************************************)
EXTENDS FrontEnd, MCSQLTexts

W(t, s)  == <<[type |-> t, text |-> s]>>
Key(t)   == W(t, t)
Id(s)    == W("IDENTIFIER", s)
Lp       == W("OPEN_PAR", "(")
Rp       == W("CLOSE_PAR", ")")
Comma    == W("COMMA", ",")

\* A column: its text and what it declares; null is what it says of NULL.
Col(n, words, type, rest, primary, null) ==
    [text |-> Id(n) \o words \o rest,
     says |-> [name |-> n, type |-> type, primary |-> primary, null |-> null]]

PrimaryKey == Key("PRIMARY_") \o Key("KEY_")
NotNull    == Key("NOT_") \o Key("NULL_")

Cols == { Col("a", Id("Integer"), "INTEGER", PrimaryKey, TRUE, ""),
          Col("b", Id("TEXT"), "TEXT", NotNull \o Key("UNIQUE_"), FALSE, "NOT NULL"),
          Col("c", <<>>, "none", <<>>, FALSE, ""),
          Col("d", Id("double") \o Id("precision"), "unknown", <<>>, FALSE, ""),
          Col("e", Id("bool"), "BOOLEAN", PrimaryKey \o Key("DEFAULT_") \o Key("NULL_"), TRUE, ""),
          Col("f", Id("Int"), "INTEGER", Key("NULL_") \o Key("UNIQUE_"), FALSE, "NULL"),
          Col("g", Id("text") \o Lp \o W("NUMERIC_LITERAL", "9") \o Rp, "unknown", <<>>, FALSE, "") }

Heads == { Key("CREATE_") \o Key("TABLE_") \o Id("t"),
           Key("CREATE_") \o Key("TEMP_") \o Key("TABLE_") \o Key("IF_") \o Key("NOT_")
               \o Key("EXISTS_") \o Id("s") \o W("DOT", ".") \o Id("t") }

Tails == { <<>>, Comma \o Key("PRIMARY_") \o Key("KEY_") \o Lp \o Id("a") \o Rp }

Create(head, cols, tail) ==
    [text |-> head \o Lp \o FoldLeft(LAMBDA s, c : s \o Comma \o c.text, cols[1].text, Tail(cols))
                   \o tail \o Rp,
     says |-> [kind |-> "create", name |-> "t", columns |-> [i \in DOMAIN cols |-> cols[i].says]]]

Creates == {Create(h, cols, t) : h \in Heads, t \in Tails,
                                 cols \in {<<c>> : c \in Cols} \cup {<<c, d>> : c, d \in Cols}}

Others ==
    { [text |-> Key("CREATE_") \o Key("TABLE_") \o Id("t") \o Key("AS_") \o Key("SELECT_")
                    \o W("NUMERIC_LITERAL", "1"),
       says |-> [kind |-> "create", name |-> "t", columns |-> <<>>]],
      [text |-> Key("DROP_") \o Key("TABLE_") \o Key("IF_") \o Key("EXISTS_") \o Id("s")
                    \o W("DOT", ".") \o Id("t"),
       says |-> [kind |-> "drop", name |-> "t"]],
      [text |-> Key("DROP_") \o Key("TABLE_") \o Key("KEY_"), says |-> [kind |-> "drop", name |-> "KEY_"]],
      [text |-> Key("CREATE_") \o Key("TABLE_") \o Id("t") \o Lp \o Rp, says |-> [kind |-> "wrong"]],
      [text |-> Key("BEGIN_") \o Key("TRANSACTION_"), says |-> [kind |-> "other"]],
      [text |-> Key("DROP_") \o Id("t"), says |-> [kind |-> "wrong"]] }

MCDeclared == Creates \cup Others

Tokens(types) == [i \in DOMAIN types |-> [type |-> types[i], text |-> types[i]]]

a   == <<id>>
lp  == <<lpar>>
rp  == <<rpar>>
Ops == {<<t>> : t \in ToSet(Levels) \ {"NOT_"}}
Pre == {<<>>, <<"NOT_">>, <<"MINUS">>}

Exprs == {a \o p \o a \o q \o a \o r \o a : p, q, r \in Ops}
         \cup {f \o a \o p \o g \o a \o q \o a : p, q \in Ops, f, g \in Pre}
         \cup {a \o p \o lp \o f \o a \o q \o a \o rp : p, q \in Ops, f \in Pre}
         \cup {f \o lp \o a \o p \o a \o rp \o q \o a : p, q \in Ops, f \in Pre}

MCQueries == {Tokens(<<"SELECT_">> \o e) : e \in Exprs}

MCTexts == {x.text : x \in MCDeclared} \cup MCQueries \cup {Tokens(s) : s \in Statements \cup Slips}

MCSentences == {x.text : x \in {y \in MCDeclared : y.says.kind # "wrong"}}
               \cup {t \in MCQueries : NotInPlace(t)}
               \cup {Tokens(s) : s \in Statements}
=============================================================================
