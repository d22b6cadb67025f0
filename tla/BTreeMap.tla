------------------------------ MODULE BTreeMap ------------------------------
(***************************************************************************)
(* What BTreeCursor promises its caller (lib/btree/btree.h): an ordered    *)
(* map from keys to payloads and one position in it.  The position is a    *)
(* key of the map, or Off when there is no cell under the cursor.          *)
(***************************************************************************)
EXTENDS Integers, Sequences, FiniteSets

CONSTANTS Keys,        \* a finite set of integers
          PayloadOf,   \* the payload the caller stores under each key
          Off

VARIABLES map,         \* a set of pairs <<key, payload>>
          at

KeysIn(m) == {e[1] : e \in m}

Above(S, k) == {j \in S : j > k}
Below(S, k) == {j \in S : j < k}
Least(S) == IF S = {} THEN Off ELSE CHOOSE k \in S : \A j \in S : k <= j
Greatest(S) == IF S = {} THEN Off ELSE CHOOSE k \in S : \A j \in S : j <= k

Init == map = {} /\ at = Off

(***************************************************************************)
(* The moves.  Each call of the cursor is one action.                      *)
(***************************************************************************)
MoveToFirst == map # {} /\ at' = Least(KeysIn(map)) /\ UNCHANGED map
MoveToLast  == map # {} /\ at' = Greatest(KeysIn(map)) /\ UNCHANGED map
MoveNext    == at # Off /\ at' = Least(Above(KeysIn(map), at)) /\ UNCHANGED map
MovePrev    == at # Off /\ at' = Greatest(Below(KeysIn(map), at)) /\ UNCHANGED map

\* An absent key leaves the cursor on the next one, or on no cell at all.
MoveToKey(k) ==
    /\ at' \in IF k \in KeysIn(map) THEN {k} ELSE {Off, Least(Above(KeysIn(map), k))}
    /\ UNCHANGED map

\* A duplicate key throws, with the cursor on it.
Insert(k) ==
    /\ at' = k
    /\ map' = IF k \in KeysIn(map) THEN map ELSE map \cup {<<k, PayloadOf[k]>>}

\* The cursor goes on to the next key; RemovePastLeaf is what the tree does
\* when the key was the last of its leaf and the leaf stays: no cell is under
\* the cursor although there may be a next key.
Remove == /\ at # Off
          /\ at' = Least(Above(KeysIn(map), at))
          /\ map' = {e \in map : e[1] # at}

RemovePastLeaf == /\ at # Off
                  /\ at' = Off
                  /\ map' = {e \in map : e[1] # at}

Next == \/ MoveToFirst \/ MoveToLast \/ MoveNext \/ MovePrev
        \/ Remove \/ RemovePastLeaf
        \/ \E k \in Keys : MoveToKey(k) \/ Insert(k)

Spec == Init /\ [][Next]_<<map, at>>
=============================================================================
