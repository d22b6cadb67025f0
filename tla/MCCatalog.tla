------------------------------ MODULE MCCatalog ------------------------------
(***************************************************************************)
(* The catalog with two names, a table of each being its own or the        *)
(* other's dependent, and leaves of two rows, so that the schema tree      *)
(* splits at the third.                                                    *)
(***************************************************************************)
EXTENDS Catalog

\* The keys of the tree are oids, and its payloads the rows.
MCKeys == 1 .. MaxOid
MCPayloadOf == [k \in MCKeys |-> <<>>]

OneColumn == {<<[type |-> "INTEGER", name |-> "a", is_primary_key |-> TRUE, is_nullable |-> FALSE]>>}

AnyName(n) == Names
=============================================================================
