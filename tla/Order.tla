--------------------------------- MODULE Order ---------------------------------
(***************************************************************************)
(* Finite sets of naturals in increasing order, and sequences with an      *)
(* element left out.  Without is Remove of SequencesExt; that one is built *)
(* on SelectSeq, whose recursive definition the provers cannot expand.     *)
(***************************************************************************)
EXTENDS Integers, Sequences, FiniteSets

\* How many elements of S are not above i, and the element of S with n such.
Rank(S, i) == Cardinality({j \in S : j <= i})
Nth(S, n)  == CHOOSE i \in S : Rank(S, i) = n

\* The elements of S in increasing order, as a std::map iterates over its keys.
InOrder(S) == [n \in 1 .. Cardinality(S) |-> Nth(S, n)]

\* s without the places where x stands.
Without(s, x) ==
    LET kept == {i \in DOMAIN s : s[i] # x}
    IN  [n \in 1 .. Cardinality(kept) |-> s[Nth(kept, n)]]
=============================================================================
