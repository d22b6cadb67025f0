------------------------------- MODULE MCBTree -------------------------------
(***************************************************************************)
(* The B+tree on small pages.  Page numbers grow with every split, so two  *)
(* histories that end in the same tree differ in them for ever: the view   *)
(* names each page by its place in the tree, and calls two states the same *)
(* when nothing the code can do tells them apart.  The two invariants that *)
(* speak of page numbers are part of the view.                             *)
(***************************************************************************)
EXTENDS BTree

CONSTANT KeyCount

MCKeys == 1 .. KeyCount

\* Every other payload takes two pages.
MCPayloadOf == [k \in MCKeys |-> IF k % 2 = 0 THEN <<k, k>> ELSE <<k>>]

View ==
    LET pages == TreePages
        Place(p) == SelectInSeq(pages, LAMBDA q : q = p)
        PageView(p) ==
            << [i \in 1 .. NumCells(db, p) |-> Cells(db, p)[i].key],
               IF IsLeaf(db, p) THEN <<Place(db.file[p].prev), Place(db.file[p].next)>>
                                ELSE <<>> >>
        cells == AllCells
    IN  << [i \in DOMAIN pages |-> PageView(pages[i])],
           [i \in DOMAIN cells |-> get_payload(db, cells[i].record_page)],
           [i \in DOMAIN cursor |-> <<Place(cursor[i][1]), cursor[i][2]>>],
           Len(FreePages(db)), aborted, db.total = Len(db.file), NoPageTwice >>
=============================================================================
