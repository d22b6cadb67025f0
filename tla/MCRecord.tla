------------------------------ MODULE MCRecord ------------------------------
(***************************************************************************)
(* The record codec on every table of up to three columns, and on tables   *)
(* whose bitmap ends at, just before and just after a byte.                *)
(***************************************************************************)
EXTENDS Record, SequencesExt

Wide(n) == [i \in 1 .. n |-> [type |-> "BOOLEAN", is_nullable |-> i # 2]]

\* Tables of up to three columns of any kind, and of 7 to 9 and 17 flags.
MCTables == BoundedSeq(Columns, 3) \cup {Wide(n) : n \in {7, 8, 9, 17}}

\* Values whose bytes look like lengths, flags and signs.
ValuesOf(type) ==
    CASE type = "INTEGER" -> {[int |-> 1], [int |-> -300], [int |-> 65537]}
      [] type = "BOOLEAN" -> {[bool |-> TRUE], [bool |-> FALSE]}
      [] type = "TEXT"    -> {[text |-> <<>>], [text |-> <<0>>], [text |-> <<255, 1>>]}

\* Every row of a narrow table; for a wide one, two values, NULL in every
\* subset of four columns around the ends of the bitmap's bytes.
MCRowsOf(cols) ==
    IF Len(cols) <= 3
    THEN {r \in [DOMAIN cols -> UNION {ValuesOf(t) : t \in {"INTEGER", "BOOLEAN", "TEXT"}} \cup {Null}] :
             \A i \in DOMAIN cols : r[i] \in ValuesOf(cols[i].type) \cup {Null}}
    ELSE {[i \in DOMAIN cols |-> IF i \in nulls THEN Null ELSE [bool |-> i \in trues]] :
             nulls \in SUBSET ({1, 2, 7, 8, 9, 16, 17} \cap DOMAIN cols),
             trues \in {{}, DOMAIN cols}}
=============================================================================
