------------------------------- MODULE Grammar -------------------------------
(***************************************************************************)
(* The parts a rule function of the SQL parser is made of.  Every rule of  *)
(* lib/parser/SQLiteParser.cpp is one function; here it is the sequence of *)
(* its parts, in the order the function runs them:                         *)
(*                                                                         *)
(*   T, OneOf, NoneOf   match() or consume() of one token                  *)
(*   R                  a call of another rule's function                  *)
(*   Switch, If, While  a decision on the next token, LA(1)                *)
(*   Predict, Maybe,    a decision left to adaptivePredict, which looks    *)
(*   Repeat, Lazy       as far ahead as it must                            *)
(*                                                                         *)
(* The case labels and bit sets the functions compare LA(1) with are the   *)
(* tokens the alternative can start with, so they are not written down.    *)
(***************************************************************************)
EXTENDS Sequences

T(t)        == [kind |-> "match", set |-> {t}]
OneOf(S)    == [kind |-> "match", set |-> S]
NoneOf(S)   == [kind |-> "exclude", set |-> S]
R(r)        == [kind |-> "rule", rule |-> r]

\* One of the alternatives, each a sequence of parts.  An empty alternative
\* is the exit of an optional part: no case of the switch, or default.
Switch(alts)  == [kind |-> "switch", alts |-> alts]
Predict(alts) == [kind |-> "predict", alts |-> alts]
If(s)         == Switch(<<s, <<>>>>)
Maybe(s)      == Predict(<<s, <<>>>>)

\* A loop.  Lazy is the loop that prefers to end.
While(s)    == [kind |-> "while", body |-> s]
Repeat(s)   == [kind |-> "repeat", body |-> s]
Lazy(s)     == [kind |-> "lazy", body |-> s]
DoWhile(s)  == [kind |-> "group", body |-> s \o <<While(s)>>]
LazyPlus(s) == [kind |-> "group", body |-> s \o <<Lazy(s)>>]

\* The alternatives of a decision, in the order of their numbers.
Alternatives(p) ==
    CASE p.kind \in {"switch", "predict"} -> p.alts
      [] p.kind \in {"while", "repeat"}   -> <<p.body \o <<p>>, <<>>>>
      [] p.kind = "lazy"                  -> <<<<>>, p.body \o <<p>>>>
      [] p.kind = "group"                 -> <<p.body>>

ByOneToken(p)   == p.kind \in {"switch", "while", "group"}
ByPrediction(p) == p.kind \in {"predict", "repeat", "lazy"}
=============================================================================
