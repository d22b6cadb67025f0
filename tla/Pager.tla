-------------------------------- MODULE Pager --------------------------------
(***************************************************************************)
(* The Pager (lib/pager/pager.cpp) and the page managers, as operators on  *)
(* a database value: the pages of the file, in order, and the pager's own  *)
(* page counter.  Page 1 is the header page with the head of the free      *)
(* list; a free page holds the number of the next one.                     *)
(*                                                                         *)
(* A page is what its header and its cells say.  Every call rewrites the   *)
(* page in the file before it returns, so the managers, which are read     *)
(* afresh from the file at every use, keep no state of their own.          *)
(***************************************************************************)
EXTENDS Integers, Sequences

NULL_PAGE == 0

FirstPage(n, head) == [type |-> "first", num_pages |-> n, free_page_head |-> head]
FreePage(next)     == [type |-> "free", next |-> next]
EmptyNode          == [type |-> "node", cells |-> <<>>, right |-> NULL_PAGE]
EmptyLeaf          == [type |-> "leaf", cells |-> <<>>,
                       prev |-> NULL_PAGE, next |-> NULL_PAGE]
OverflowPage(chunk, next) == [type |-> "overflow", chunk |-> chunk, next |-> next]
BlankPage          == [type |-> "blank"]

\* Pager::Pager, on a new file
NewDb == [file |-> <<FirstPage(1, NULL_PAGE)>>, total |-> 1]

get_page_type(db, p) == db.file[p].type
get_free_page_head(db) == db.file[1].free_page_head
set_free_page_head(db, p) == [db EXCEPT !.file[1].free_page_head = p]

\* os_append of one page
AppendPage(db, page) ==
    [file |-> Append(db.file, page), total |-> db.total + 1]

\* Mutant: total_num_pages_ is not brought up to date.
create_page_mutant_uncounted(db, page) ==
    [file |-> Append(db.file, page), total |-> db.total]

\* create_page of a node or a leaf page: at the end of the file, never from
\* the free list.  The page's number is the new total.
create_page(db, page) ==
    LET new == AppendPage(db, page)
    IN  [new EXCEPT !.file[1].num_pages = new.total]

\* create_page of a free page: appended, then made the head of the free list.
create_free_page(db) ==
    set_free_page_head(AppendPage(db, FreePage(get_free_page_head(db))),
                       db.total + 1)

\* Mutant: the head is read again after it was set.
insert_freelist_mutant_head(db, p) ==
    [set_free_page_head(db, p) EXCEPT !.file[p] = FreePage(p)]

insert_freelist(db, p) ==
    [set_free_page_head(db, p) EXCEPT !.file[p] = FreePage(get_free_page_head(db))]

\* pop_freelist: NULL_PAGE when the list is empty; the page itself is not
\* touched and still says it is free.
pop_freelist(db) ==
    LET head == get_free_page_head(db)
    IN  IF head = NULL_PAGE
        THEN [db |-> db, page |-> NULL_PAGE]
        ELSE [db |-> set_free_page_head(db, db.file[head].next), page |-> head]

\* Mutant: the head of the free list stays where it is.
TakePage_mutant_no_pop(db) ==
    LET head == get_free_page_head(db)
    IN  IF head # NULL_PAGE
        THEN [db |-> db, page |-> head]
        ELSE [db |-> AppendPage(db, BlankPage), page |-> db.total + 1]

\* One page for an overflow chain: the head of the free list, or a new one.
\* (The header's num_pages does not hear of the new one.)
TakePage(db) ==
    LET head == get_free_page_head(db)
    IN  IF head # NULL_PAGE
        THEN [db |-> set_free_page_head(db, db.file[head].next), page |-> head]
        ELSE [db |-> AppendPage(db, BlankPage), page |-> db.total + 1]

(***************************************************************************)
(* _write_overflow_chain: all pages are taken first, then written, each    *)
(* with the number of the next.  An empty payload takes none.              *)
(***************************************************************************)
TakePages(db, n) ==
    LET taken[i \in 0 .. n] ==
            IF i = 0
            THEN [db |-> db, pages |-> <<>>]
            ELSE LET t == TakePage(taken[i - 1].db)
                 IN  [db |-> t.db, pages |-> Append(taken[i - 1].pages, t.page)]
    IN  taken[n]

write_overflow_chain(db, chunks) ==
    LET n == Len(chunks)
        t == TakePages(db, n)
        written[i \in 0 .. n] ==
            IF i = 0
            THEN t.db.file
            ELSE [written[i - 1] EXCEPT ![t.pages[i]] =
                     OverflowPage(chunks[i],
                                  IF i < n THEN t.pages[i + 1] ELSE NULL_PAGE)]
    IN  [db   |-> [t.db EXCEPT !.file = written[n]],
         page |-> IF n = 0 THEN NULL_PAGE ELSE t.pages[1]]

\* The pages of one type linked from page p on; no list of distinct pages is
\* longer than the file.
LinkedFrom(db, p, type) ==
    LET walk[q \in 0 .. Len(db.file), fuel \in 0 .. Len(db.file)] ==
            IF fuel = 0 \/ q = NULL_PAGE \/ get_page_type(db, q) # type
            THEN <<>>
            ELSE <<q>> \o walk[db.file[q].next, fuel - 1]
    IN  walk[p, Len(db.file)]

\* LeafPageManager::get_payload: the chunks along the overflow chain from p
get_payload(db, p) ==
    LET chain == LinkedFrom(db, p, "overflow")
    IN  [i \in DOMAIN chain |-> db.file[chain[i]].chunk]

FreePages(db) == LinkedFrom(db, get_free_page_head(db), "free")
=============================================================================
