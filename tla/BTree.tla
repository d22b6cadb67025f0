-------------------------------- MODULE BTree --------------------------------
(***************************************************************************)
(* BTreeCursor (lib/btree): a B+tree in the pages of a Pager, with the     *)
(* cursor that all its operations go through.                              *)
(*                                                                         *)
(* A call is one step.  The restructuring a call sets off is a function of *)
(* a tree T: the database, the root page, and the source line of the first *)
(* assert that failed (0 when none did).  The program is built without     *)
(* NDEBUG, so a failed assert ends it.  Left out are the asserts on the    *)
(* type of a page and on num_cells_ against cells_, which a wrong page     *)
(* would turn into an error of the evaluation here.                        *)
(***************************************************************************)
EXTENDS Pager, FiniteSets, SequencesExt

CONSTANTS Keys,
          PayloadOf,       \* the payload stored under each key, in page chunks
          Off,             \* no cell under the cursor
          leaf_max_cells, leaf_min_cells,
          node_max_cells, node_min_cells,
          MaxPages,        \* bound: pages the file can grow to
          MaxFree          \* bound: pages on the free list

\* Splits leave both halves, and merges the whole, within the limits
\* (leaf_page.h 89-90, node_page.h 81-82: the minimum is half the maximum).
ASSUME LimitsAssumption ==
    /\ leaf_min_cells \in Nat \ {0} /\ node_min_cells \in Nat \ {0}
    /\ leaf_max_cells \in Nat /\ 2 * leaf_min_cells <= leaf_max_cells + 1
    /\ node_max_cells \in Nat /\ 2 * node_min_cells <= node_max_cells
ASSUME KeysAssumption == Keys \subseteq Nat /\ Off \notin Keys
ASSUME BoundsAssumption == MaxPages \in Nat /\ MaxFree \in Nat

VARIABLES db, root_pgno,
          cursor,          \* cursor_: <<page, cell index>> from the root down
          aborted          \* the line of the assert that failed, or 0

vars == <<db, root_pgno, cursor, aborted>>

Tree(d, r) == [db |-> d, root |-> r, failed |-> 0]
Fail(T, line) == [T EXCEPT !.failed = line]

Cells(d, p) == d.file[p].cells
NumCells(d, p) == Len(Cells(d, p))
IsLeaf(d, p) == get_page_type(d, p) = "leaf"

\* The child at index i of a node: the left child of cell i, or right_child_.
Child(d, p, i) == IF i = NumCells(d, p) THEN d.file[p].right
                  ELSE Cells(d, p)[i + 1].child

Init == /\ db = create_page(NewDb, EmptyLeaf)
        /\ root_pgno = 2
        /\ cursor = <<>>
        /\ aborted = 0
-----------------------------------------------------------------------------
(***************************************************************************)
(* Cells of a page are kept in key order.                                  *)
(***************************************************************************)
KeysBelow(cells, k) == SelectSeq(cells, LAMBDA c : c.key < k)

InsertCell(cells, c) ==
    LET lo == Len(KeysBelow(cells, c.key))
    IN  SubSeq(cells, 1, lo) \o <<c>> \o SubSeq(cells, lo + 1, Len(cells))

EraseKey(cells, k) == SelectSeq(cells, LAMBDA c : c.key # k)

\* LeafPageManager
write_cell(d, p, c)  == [d EXCEPT !.file[p].cells = InsertCell(@, c)]
delete_cell(d, p, k) == [d EXCEPT !.file[p].cells = EraseKey(@, k)]

\* NodePageManager; the cell goes in with its left child, which the code sets
\* in a second call.
insert_node_cell(d, p, c) == [d EXCEPT !.file[p].cells = InsertCell(@, c)]
delete_node_cell(d, p, k) == [d EXCEPT !.file[p].cells = EraseKey(@, k)]
set_cell_left_child(d, p, i, q) == [d EXCEPT !.file[p].cells[i + 1].child = q]

update_cell_key(d, p, i, k) == [d EXCEPT !.file[p].cells[i + 1].key = k]

set_node_right_child(d, p, q) == [d EXCEPT !.file[p].right = q]

set_next_page(d, p, q) ==
    IF p = NULL_PAGE THEN d ELSE [d EXCEPT !.file[p].next = q]

set_prev_page(d, p, q) ==
    IF p = NULL_PAGE THEN d ELSE [d EXCEPT !.file[p].prev = q]
-----------------------------------------------------------------------------
(***************************************************************************)
(* Moving the cursor.  The binary searches find, in cells in order, the    *)
(* child whose range holds the key and the first cell not below it.        *)
(***************************************************************************)

find_child_to_traverse(k, cells) ==
    Len(SelectSeq(cells, LAMBDA c : c.key <= k))

find_matching_leaf_cell(k, cells) == Len(KeysBelow(cells, k))

\* The way down from page p to a leaf: leftmost, rightmost, or towards k.
RECURSIVE Descend(_, _, _, _)
Descend(d, p, how, k) ==
    LET n == NumCells(d, p)
    IN  IF IsLeaf(d, p)
        THEN << <<p, CASE how = "first" -> 0
                       [] how = "last"  -> n - 1
                       [] how = "key"   -> find_matching_leaf_cell(k, Cells(d, p))>> >>
        ELSE LET i == CASE how = "first" -> 0
                        [] how = "last"  -> n
                        [] how = "key"   -> find_child_to_traverse(k, Cells(d, p))
             IN  << <<p, i>> >> \o Descend(d, Child(d, p, i), how, k)

PathTo(T, k) == Descend(T.db, T.root, "key", k)

\* current_key(), Off where it throws or asserts
KeyAt(d, path) ==
    IF path = <<>> THEN Off
    ELSE LET top == Last(path)
         IN  IF top[2] < NumCells(d, top[1])
             THEN Cells(d, top[1])[top[2] + 1].key ELSE Off

is_empty == IsLeaf(db, root_pgno) /\ NumCells(db, root_pgno) = 0

MovesTo(path) == /\ aborted = 0
                 /\ cursor' = path
                 /\ UNCHANGED <<db, root_pgno, aborted>>

Aborts(line) == /\ aborted = 0
                /\ aborted' = line
                /\ UNCHANGED <<db, root_pgno, cursor>>

\* The asserts that next and prev start with: the cursor is not empty (its line
\* and the line of the next one are the caller's) and is on a cell of its leaf.
OnCell(empty, past, Move) ==
    \/ cursor = <<>> /\ Aborts(empty)
    \/ cursor # <<>> /\ KeyAt(db, cursor) = Off /\ Aborts(past)
    \/ KeyAt(db, cursor) # Off /\ Move

\* Every page on the way down has a cell (the lines of the asserts on nodes
\* and on the leaf).
MovesOver(path, node, leaf) ==
    LET bare == {i \in DOMAIN path : NumCells(db, path[i][1]) = 0}
    IN  CASE bare = {} -> MovesTo(path)
          [] bare = {Len(path)} -> Aborts(leaf)
          [] OTHER -> Aborts(node)

move_to_first == MovesOver(Descend(db, root_pgno, "first", 0), 36, 49)

\* move_to_last asserts that the root is a node.
move_to_last ==
    IF IsLeaf(db, root_pgno) THEN Aborts(66)
    ELSE MovesOver(Descend(db, root_pgno, "last", 0), 70, 87)

move_to_key(k) == MovesTo(Descend(db, root_pgno, "key", k))

(***************************************************************************)
(* next and prev: along the leaf, or up to the deepest ancestor with a     *)
(* child on that side and down into it; off both ends the stack is empty.  *)
(***************************************************************************)
Turn(depth, step, how) ==
    LET up == cursor[depth]
        to == up[2] + step
    IN  SubSeq(cursor, 1, depth - 1) \o << <<up[1], to>> >>
            \o Descend(db, Child(db, up[1], to), how, 0)

Deepest(S) == CHOOSE i \in S : \A j \in S : j <= i

MoveNext ==
    LET top == Last(cursor)
        open == {i \in 1 .. Len(cursor) - 1 :
                     cursor[i][2] < NumCells(db, cursor[i][1])}
    IN  MovesTo(IF top[2] < NumCells(db, top[1]) - 1
                THEN Append(Front(cursor), <<top[1], top[2] + 1>>)
                ELSE IF open = {} THEN <<>> ELSE Turn(Deepest(open), 1, "first"))

next == OnCell(221, 228, MoveNext)

\* Mutant: from the first cell of a leaf to the first, not the last, of the
\* one before it.
MovePrev_mutant_first ==
    LET top == Last(cursor)
        open == {i \in 1 .. Len(cursor) - 1 : cursor[i][2] > 0}
    IN  MovesTo(IF top[2] > 0
                THEN Append(Front(cursor), <<top[1], top[2] - 1>>)
                ELSE IF open = {} THEN <<>> ELSE Turn(Deepest(open), -1, "first"))

MovePrev ==
    LET top == Last(cursor)
        open == {i \in 1 .. Len(cursor) - 1 : cursor[i][2] > 0}
    IN  MovesTo(IF top[2] > 0
                THEN Append(Front(cursor), <<top[1], top[2] - 1>>)
                ELSE IF open = {} THEN <<>> ELSE Turn(Deepest(open), -1, "last"))

prev == OnCell(159, 167, MovePrev)
-----------------------------------------------------------------------------
(***************************************************************************)
(* insert.  A full page is split into two new pages; the old one is left   *)
(* behind, neither in the tree nor on the free list.                       *)
(***************************************************************************)

\* assign_children_nodes: the child at up is now l and r, r in its old place.
assign_children_nodes(d, up, r) ==
    IF up[2] = NumCells(d, up[1])
    THEN set_node_right_child(d, up[1], r)
    ELSE set_cell_left_child(d, up[1], up[2], r)

\* Its assert: the separator lies on the right side of the old key.
SeparatorFits(d, up, sep) ==
    IF up[2] = NumCells(d, up[1]) THEN Last(Cells(d, up[1])).key < sep
                                  ELSE sep < Cells(d, up[1])[up[2] + 1].key

(***************************************************************************)
(* The two halves l and r of a page go under its parent, the top of path,  *)
(* or under a new root; a parent that is full is split in turn.            *)
(***************************************************************************)
RECURSIVE Attach(_, _, _, _, _)

split_cursor_node(T, path, c) ==
    LET p == Last(path)[1]
        all == InsertCell(Cells(T.db, p), c)
        n == Len(all) \div 2
        l == create_page(T.db, [EmptyNode EXCEPT !.cells = SubSeq(all, 1, n),
                                                 !.right = all[n + 1].child])
        r == create_page(l, [EmptyNode EXCEPT !.cells = SubSeq(all, n + 2, Len(all)),
                                              !.right = T.db.file[p].right])
    IN  Attach([T EXCEPT !.db = r], Front(path), l.total, r.total, all[n + 1].key)

Attach(T, path, l, r, sep) ==
    LET up == Last(path)
        c == [key |-> sep, child |-> l]
        new == create_page(T.db, [EmptyNode EXCEPT !.cells = <<c>>, !.right = r])
        U == [T EXCEPT !.db = assign_children_nodes(T.db, up, r)]
    IN  CASE path = <<>> -> [T EXCEPT !.db = new, !.root = new.total]
          [] path # <<>> /\ ~SeparatorFits(T.db, up, sep) -> Fail(T, 82)
          [] path # <<>> /\ SeparatorFits(T.db, up, sep) ->
                 IF NumCells(U.db, up[1]) = node_max_cells
                 THEN split_cursor_node(U, path, c)
                 ELSE [U EXCEPT !.db = insert_node_cell(U.db, up[1], c)]

\* Mutant: the leaf after the pair still points back at the old page.
split_cursor_leaf_mutant_prev(T, path, c) ==
    LET p == Last(path)[1]
        old == T.db.file[p]
        all == InsertCell(old.cells, c)
        n == (Len(all) + 1) \div 2
        l == T.db.total + 1
        left == [EmptyLeaf EXCEPT !.cells = SubSeq(all, 1, n),
                                  !.prev = old.prev, !.next = l + 1]
        right == [EmptyLeaf EXCEPT !.cells = SubSeq(all, n + 1, Len(all)),
                                   !.prev = l, !.next = old.next]
        d == create_page(create_page(T.db, left), right)
    IN  Attach([T EXCEPT !.db = set_next_page(d, old.prev, l)],
               Front(path), l, l + 1, right.cells[1].key)

split_cursor_leaf(T, path, c) ==
    LET p == Last(path)[1]
        old == T.db.file[p]
        all == InsertCell(old.cells, c)
        n == (Len(all) + 1) \div 2
        l == T.db.total + 1
        left == [EmptyLeaf EXCEPT !.cells = SubSeq(all, 1, n),
                                  !.prev = old.prev, !.next = l + 1]
        right == [EmptyLeaf EXCEPT !.cells = SubSeq(all, n + 1, Len(all)),
                                   !.prev = l, !.next = old.next]
        d == create_page(create_page(T.db, left), right)
    IN  Attach([T EXCEPT !.db = set_prev_page(set_next_page(d, old.prev, l),
                                              old.next, l + 1)],
               Front(path), l, l + 1, right.cells[1].key)

\* The tree becomes T and the cursor path, unless an assert stopped the program.
Becomes(T, path) ==
    IF T.failed # 0
    THEN Aborts(T.failed)
    ELSE /\ aborted = 0
         /\ db' = T.db
         /\ root_pgno' = T.root
         /\ cursor' = path
         /\ UNCHANGED aborted

\* The tree with a new cell: the payload is written first, then the cell.
Inserted(T, k, payload) ==
    LET path == PathTo(T, k)
        leaf == Last(path)[1]
        o == write_overflow_chain(T.db, payload)
        c == [key |-> k, record_page |-> o.page]
    IN  CASE NumCells(T.db, leaf) < leaf_max_cells ->
                 [T EXCEPT !.db = write_cell(o.db, leaf, c)]
          [] NumCells(T.db, leaf) = leaf_max_cells ->
                 LET S == split_cursor_leaf([T EXCEPT !.db = o.db], path, c)
                 IN  IF S.failed = 0 /\ KeyAt(S.db, PathTo(S, k)) # k
                     THEN Fail(S, 381) ELSE S
          [] OTHER -> Fail(T, 373)

\* A duplicate key throws with the cursor already moved.
insert(k) ==
    LET T == Tree(db, root_pgno)
        S == Inserted(T, k, PayloadOf[k])
    IN  IF KeyAt(db, PathTo(T, k)) = k
        THEN MovesTo(PathTo(T, k))
        ELSE S.db.total <= MaxPages /\ Becomes(S, PathTo(S, k))
-----------------------------------------------------------------------------
(***************************************************************************)
(* remove.  A leaf with too few cells left borrows one from a sibling or   *)
(* is merged with one, the left page of the two freed; a node that loses a *)
(* child that way does the same.                                           *)
(***************************************************************************)

\* Mutant: no sibling ever lends a cell.
Lends_mutant_never(d, sib, min) == FALSE

\* A sibling that has a cell to spare
Lends(d, sib, min) == sib # NULL_PAGE /\ NumCells(d, sib) > min
Left(d, up)  == IF up[2] > 0 THEN Child(d, up[1], up[2] - 1) ELSE NULL_PAGE
Right(d, up) == IF up[2] < NumCells(d, up[1]) THEN Child(d, up[1], up[2] + 1)
                                             ELSE NULL_PAGE

Neighbours(d, p, q) == d.file[p].prev = q \/ d.file[p].next = q

\* Mutant: the separator is left as it was.
BorrowLeafRight_mutant_separator(d, up, p) ==
    LET sib == Right(d, up)
        c == Head(Cells(d, sib))
    IN  write_cell(delete_cell(d, sib, c.key), p, c)

\* borrow_leaf_sibling_cell from the left and from the right sibling
BorrowLeafLeft(d, up, p) ==
    LET sib == Left(d, up)
        c == Last(Cells(d, sib))
    IN  update_cell_key(write_cell(delete_cell(d, sib, c.key), p, c),
                        up[1], up[2] - 1, c.key)

BorrowLeafRight(d, up, p) ==
    LET sib == Right(d, up)
        c == Head(Cells(d, sib))
    IN  update_cell_key(write_cell(delete_cell(d, sib, c.key), p, c),
                        up[1], up[2], Cells(d, sib)[2].key)

\* borrow_node_sibling_cell from the left and from the right sibling
BorrowNodeLeft(d, up, p) ==
    LET sib == Left(d, up)
        c == Last(Cells(d, sib))
        sep == Cells(d, up[1])[up[2]].key
        lent == delete_node_cell(set_node_right_child(d, sib, c.child), sib, c.key)
    IN  insert_node_cell(update_cell_key(lent, up[1], up[2] - 1, c.key), p,
                         [key |-> sep, child |-> d.file[sib].right])

BorrowNodeRight(d, up, p) ==
    LET sib == Right(d, up)
        c == Head(Cells(d, sib))
        sep == Cells(d, up[1])[up[2] + 1].key
        lent == delete_node_cell(d, sib, c.key)
    IN  set_node_right_child(
            insert_node_cell(update_cell_key(lent, up[1], up[2], c.key), p,
                             [key |-> sep, child |-> d.file[p].right]), p, c.child)

\* The cell between the two pages to be merged: the page at up and its right
\* sibling, or its left one when it is the rightmost child.
Between(d, up) == IF up[2] = NumCells(d, up[1]) THEN up[2] - 1 ELSE up[2]

MergeCells(cells, more) == FoldLeft(InsertCell, more, cells)

RECURSIVE balance_node(_, _, _)

\* After a merge under node p: an empty root gives way to the merged page, any
\* other node that is too small is balanced in turn.
Shrink(T, path, p, merged) ==
    IF p = T.root
    THEN IF NumCells(T.db, p) = 0
         THEN [T EXCEPT !.db = insert_freelist(T.db, p), !.root = merged]
         ELSE T
    ELSE IF NumCells(T.db, p) < node_min_cells THEN balance_node(T, path, p) ELSE T

merge_with_leaf_sibling(T, path, up) ==
    LET j == Between(T.db, up)
        l == Child(T.db, up[1], j)
        r == Child(T.db, up[1], j + 1)
        before == T.db.file[l].prev
        d1 == [T.db EXCEPT !.file[r].cells = MergeCells(Cells(T.db, l), @)]
        d2 == delete_node_cell(d1, up[1], Cells(T.db, up[1])[j + 1].key)
        d3 == set_next_page(set_prev_page(d2, r, before), before, r)
    IN  CASE NumCells(T.db, l) + NumCells(T.db, r) > leaf_max_cells -> Fail(T, 546)
          [] before # NULL_PAGE /\ T.db.file[before].next # l -> Fail(T, 562)
          [] OTHER -> Shrink([T EXCEPT !.db = insert_freelist(d3, l)], path, up[1], r)

merge_with_node_sibling(T, path, up) ==
    LET j == Between(T.db, up)
        l == Child(T.db, up[1], j)
        r == Child(T.db, up[1], j + 1)
        down == Cells(T.db, up[1])[j + 1].key
        pulled == Append(Cells(T.db, l), [key |-> down, child |-> T.db.file[l].right])
        d1 == [T.db EXCEPT !.file[r].cells = MergeCells(pulled, @)]
        d2 == delete_node_cell(d1, up[1], down)
    IN  IF NumCells(T.db, l) + NumCells(T.db, r) + 1 > node_max_cells
        THEN Fail(T, 466)
        ELSE Shrink([T EXCEPT !.db = insert_freelist(d2, l)], path, up[1], r)

balance_node(T, path, p) ==
    LET up == Last(path)
        l == Left(T.db, up)
        r == Right(T.db, up)
        Small(q) == q # NULL_PAGE /\ NumCells(T.db, q) < node_min_cells
    IN  CASE Small(l) -> Fail(T, 363)
          [] ~Small(l) /\ Lends(T.db, l, node_min_cells) ->
                 [T EXCEPT !.db = BorrowNodeLeft(T.db, up, p)]
          [] ~Small(l) /\ ~Lends(T.db, l, node_min_cells) ->
                 IF Small(r) THEN Fail(T, 363)
                 ELSE IF Lends(T.db, r, node_min_cells)
                 THEN IF Child(T.db, up[1], up[2]) = p
                      THEN [T EXCEPT !.db = BorrowNodeRight(T.db, up, p)]
                      ELSE Fail(T, 390)
                 ELSE merge_with_node_sibling(T, Front(path), up)

\* borrow_from_leaf_sibling, else merge_with_leaf_sibling: path leads to the
\* leaf p.  The first assert of the former rules out the rightmost child.
Refill(T, path, p) ==
    LET up == Last(path)
        l == Left(T.db, up)
        r == Right(T.db, up)
        fromLeft == Lends(T.db, l, leaf_min_cells)
        fromRight == ~fromLeft /\ Lends(T.db, r, leaf_min_cells)
    IN  CASE up[2] = NumCells(T.db, up[1]) -> Fail(T, 332)
          [] up[2] # NumCells(T.db, up[1]) /\ fromLeft ->
                 IF Neighbours(T.db, p, l)
                 THEN [T EXCEPT !.db = BorrowLeafLeft(T.db, up, p)] ELSE Fail(T, 295)
          [] up[2] # NumCells(T.db, up[1]) /\ fromRight ->
                 IF ~Neighbours(T.db, p, r) THEN Fail(T, 295)
                 ELSE IF Cells(T.db, r)[1].key >= Cells(T.db, r)[2].key THEN Fail(T, 313)
                 ELSE [T EXCEPT !.db = BorrowLeafRight(T.db, up, p)]
          [] OTHER -> IF Child(T.db, up[1], up[2]) # p THEN Fail(T, 517)
                      ELSE merge_with_leaf_sibling(T, Front(path), up)

\* The tree without the cell that path leads to, and where the cursor goes.
Removed(T, path) ==
    LET p == Last(path)[1]
        k == KeyAt(T.db, path)
        D == [T EXCEPT !.db = delete_cell(T.db, p, k)]
        S == IF NumCells(D.db, p) >= leaf_min_cells \/ p = T.root
             THEN D ELSE Refill(D, Front(path), p)
    IN  CASE k = Off -> Fail(T, 394)
          [] k # Off /\ S.failed = 0 /\ KeyAt(S.db, PathTo(S, k)) = k -> Fail(S, 423)
          [] OTHER -> S

PathAfter(T, S, path) ==
    IF S.failed # 0 \/ (Len(path) = 1 /\ NumCells(T.db, T.root) = 1) THEN <<>>
    ELSE PathTo(S, KeyAt(T.db, path))

RemoveCell ==
    LET T == Tree(db, root_pgno)
        S == Removed(T, cursor)
    IN  /\ Len(FreePages(S.db)) <= MaxFree
        /\ Becomes(S, PathAfter(T, S, cursor))

remove == IF cursor = <<>> THEN Aborts(386) ELSE RemoveCell

Next == \/ move_to_first \/ move_to_last \/ next \/ prev \/ remove
        \/ \E k \in Keys : move_to_key(k) \/ insert(k)

Spec == Init /\ [][Next]_vars
-----------------------------------------------------------------------------
(***************************************************************************)
(* The tree as a whole, for the properties.                                *)
(***************************************************************************)
\* The pages of the subtree of p in preorder, and its leaves from left to right.
RECURSIVE Subtree(_, _)
Subtree(d, p) ==
    IF IsLeaf(d, p) THEN <<p>>
    ELSE <<p>> \o FlattenSeq([i \in 1 .. NumCells(d, p) + 1 |->
                                 Subtree(d, Child(d, p, i - 1))])

TreePages == Subtree(db, root_pgno)
Leaves == SelectSeq(TreePages, LAMBDA p : IsLeaf(db, p))
AllCells == LET leaves == Leaves
            IN  FlattenSeq([i \in DOMAIN leaves |-> Cells(db, leaves[i])])

\* What the tree holds: every key with the payload its chain spells.
RECURSIVE ContentsBelow(_)
ContentsBelow(p) ==
    IF IsLeaf(db, p)
    THEN {<<c.key, get_payload(db, c.record_page)>> : c \in Range(Cells(db, p))}
    ELSE UNION {ContentsBelow(q) : q \in {Child(db, p, i) : i \in 0 .. NumCells(db, p)}}

Contents == ContentsBelow(root_pgno)

\* Keys of the subtree of p in order, within [lo, hi), every separator between
\* the keys of its two sides, every leaf at the same depth, every page but the
\* root neither too full nor too empty.
RECURSIVE SoundBelow(_, _, _, _)
SoundBelow(p, lo, hi, height) ==
    LET cells == Cells(db, p)
        n == Len(cells)
        Bound(i) == IF i = 0 THEN lo ELSE IF i = n + 1 THEN hi ELSE cells[i].key
    IN  /\ \A i \in 1 .. n : lo <= cells[i].key /\ cells[i].key < hi
        /\ \A i \in 1 .. n - 1 : cells[i].key < cells[i + 1].key
        /\ IF height = 0
           THEN /\ IsLeaf(db, p)
                /\ n <= leaf_max_cells
                /\ p # root_pgno => n >= leaf_min_cells
           ELSE /\ ~IsLeaf(db, p)
                /\ n <= node_max_cells
                /\ n >= IF p = root_pgno THEN 1 ELSE node_min_cells
                /\ \A i \in 0 .. n :
                       SoundBelow(Child(db, p, i), Bound(i), Bound(i + 1), height - 1)

\* The B+tree invariants, after every insert and remove (btree.cpp 354-424,
\* utils.cpp 13-573): order, separators, balance and occupancy.
TreeSound ==
    \E height \in 0 .. db.total :
        SoundBelow(root_pgno, 0, 1 + Max(Keys \cup {0}), height)

\* prev_page and next_page link the leaves from left to right, and nothing
\* else (utils.cpp 146-158, 554-564).
LeafChainSound ==
    LET leaves == Leaves
    IN  \A i \in DOMAIN leaves :
            /\ db.file[leaves[i]].next =
                   IF i = Len(leaves) THEN NULL_PAGE ELSE leaves[i + 1]
            /\ db.file[leaves[i]].prev = IF i = 1 THEN NULL_PAGE ELSE leaves[i - 1]

\* No page is in use twice: the tree, the free list and the overflow chains
\* of the cells have no page in common, and the free list ends (utils.cpp 479,
\* 502, 566-568; pager.cpp 86-108, 251-266).
NoPageTwice ==
    LET free == FreePages(db)
        cells == AllCells
        chains == FlattenSeq([i \in DOMAIN cells |->
                                 LinkedFrom(db, cells[i].record_page, "overflow")])
        last == IF free = <<>> THEN get_free_page_head(db) ELSE db.file[Last(free)].next
    IN  /\ last = NULL_PAGE
        /\ IsInjective(TreePages \o free \o chains)

\* The cursor is on the last cell of its leaf.
AtLeafEnd == LET top == Last(cursor) IN top[2] = NumCells(db, top[1]) - 1

\* The cell under the cursor is one of the least a leaf may have, and its leaf
\* is the rightmost child of its parent.
AtLeanRightmostLeaf ==
    LET up == cursor[Len(cursor) - 1]
    IN  /\ Len(cursor) > 1
        /\ up[2] = NumCells(db, up[1])
        /\ NumCells(db, Last(cursor)[1]) = leaf_min_cells

\* An assert fails only where the caller had no cell under the cursor, or asked
\* for an end of a tree that is empty or (move_to_last) a single leaf, or
\* removes from a rightmost leaf at its minimum.  No assert on the structure of
\* the tree, nor on where a call leaves the cursor, ever fails (btree.cpp 36-87,
\* 159-255, 373-423; utils.cpp 82-92, 292-313, 332, 363-390, 466, 517-562).
AbortCauses ==
    CASE aborted = 0 -> TRUE
      [] aborted = 49 -> is_empty
      [] aborted = 66 -> IsLeaf(db, root_pgno)
      [] aborted \in {159, 221, 386} -> cursor = <<>>
      [] aborted \in {167, 228, 394} -> cursor # <<>> /\ KeyAt(db, cursor) = Off
      [] aborted = 332 -> AtLeanRightmostLeaf
      [] OTHER -> FALSE

Map == INSTANCE BTreeMap WITH map <- Contents, at <- KeyAt(db, cursor)

\* Every call that no assert stops does what the map's call of that name does.
CallsMatch ==
    aborted' = 0 =>
        /\ move_to_first => Map!MoveToFirst
        /\ move_to_last => Map!MoveToLast
        /\ next => Map!MoveNext
        /\ prev => Map!MovePrev
        /\ remove => Map!Remove \/ (AtLeafEnd /\ Map!RemovePastLeaf)
        /\ \A k \in Keys : /\ move_to_key(k) => Map!MoveToKey(k)
                           /\ insert(k) => Map!Insert(k)

\* The tree is an ordered map with a cursor, call by call: what each call does to
\* the keys, to their payloads and to the key under the cursor (btree.cpp 23-424).
\* remove() may leave the cursor on no cell only when it took the last cell of a
\* leaf.
ImplementsMap == Map!Spec /\ [][CallsMatch]_vars
=============================================================================
