------------------------------ MODULE PagerCalls ------------------------------
(***************************************************************************)
(* A caller of the Pager (lib/pager/pager.cpp): pages come from the end of *)
(* the file or from the free list, go back to the free list, and hold      *)
(* payloads in overflow chains.  A chain is written in steps, one page of  *)
(* the file at a time, as the two loops of _write_overflow_chain do it;    *)
(* nothing else happens in between but the end of the process.             *)
(*                                                                         *)
(* held, freed and stored are what the caller knows from the calls it has  *)
(* made; the file is never consulted for them.                             *)
(***************************************************************************)
EXTENDS Pager, FiniteSets

CONSTANTS Chunk,      \* the contents of one overflow page
          Payloads,   \* payloads, cut into chunks
          MaxPages    \* bound: pages the file can grow to

ASSUME PayloadsAssumption == Payloads \subseteq Seq(Chunk) \ {<<>>}
ASSUME MaxPagesAssumption == MaxPages \in Nat

VARIABLES db,
          held,       \* pages the caller was given and has not freed
          freed,      \* pages freed and not given out again, oldest first
          job,        \* the chain being written: its chunks, pages, pages done
          stored      \* the chains written, each with its pages and chunks

vars == <<db, held, freed, job, stored>>

Idle == [chunks |-> <<>>, pages |-> <<>>, done |-> 0]

Init == /\ db = NewDb
        /\ held = {}
        /\ freed = <<>>
        /\ job = Idle
        /\ stored = {}

\* The caller is given the page freed last, if there is one.
GiveFreed == freed' = IF freed = <<>> THEN freed ELSE SubSeq(freed, 1, Len(freed) - 1)

\* create_page(PAGER_NODE_PAGE) and create_page(PAGER_LEAF_PAGE)
CreatePage(page) ==
    /\ job = Idle
    /\ db.total < MaxPages
    /\ db' = create_page(db, page)
    /\ held' = held \cup {db.total + 1}
    /\ UNCHANGED <<freed, job, stored>>

\* create_page(PAGER_FREE_PAGE)
CreateFreePage ==
    /\ job = Idle
    /\ db.total < MaxPages
    /\ db' = create_free_page(db)
    /\ freed' = Append(freed, db.total + 1)
    /\ UNCHANGED <<held, job, stored>>

\* insert_freelist of a page the caller holds
InsertFreelist(p) ==
    /\ job = Idle
    /\ db' = insert_freelist(db, p)
    /\ held' = held \ {p}
    /\ freed' = Append(freed, p)
    /\ UNCHANGED <<job, stored>>

\* pop_freelist; on an empty list it returns NULL_PAGE and changes nothing.
PopFreelist ==
    /\ job = Idle
    /\ db' = pop_freelist(db).db
    /\ held' = (held \cup {pop_freelist(db).page}) \ {NULL_PAGE}
    /\ GiveFreed
    /\ UNCHANGED <<job, stored>>

(***************************************************************************)
(* create_page(PAGER_OVERFLOW_PAGE, payload): all pages are taken, then    *)
(* all are written.                                                        *)
(***************************************************************************)
StartChain(chunks) ==
    /\ job = Idle
    /\ db.total + Len(chunks) <= MaxPages
    /\ job' = [chunks |-> chunks, pages |-> <<>>, done |-> 0]
    /\ UNCHANGED <<db, held, freed, stored>>

ChainTakes ==
    /\ Len(job.pages) < Len(job.chunks)
    /\ db' = TakePage(db).db
    /\ job' = [job EXCEPT !.pages = Append(@, TakePage(db).page)]
    /\ GiveFreed
    /\ UNCHANGED <<held, stored>>

\* Mutant: every page is linked to itself.
Following_mutant_self(pages, i) == pages[i]

\* The page that follows the i-th of a chain
Following(pages, i) == IF i < Len(pages) THEN pages[i + 1] ELSE NULL_PAGE

Finished == [pages |-> job.pages, chunks |-> job.chunks]

ChainWrites ==
    LET i == job.done + 1
    IN  /\ Len(job.pages) = Len(job.chunks)
        /\ i <= Len(job.chunks)
        /\ db' = [db EXCEPT !.file[job.pages[i]] =
                     OverflowPage(job.chunks[i], Following(job.pages, i))]
        /\ IF i = Len(job.chunks)
           THEN job' = Idle /\ stored' = stored \cup {Finished}
           ELSE job' = [job EXCEPT !.done = i] /\ UNCHANGED stored
        /\ UNCHANGED <<held, freed>>

Next == \/ \E page \in {EmptyNode, EmptyLeaf} : CreatePage(page)
        \/ CreateFreePage
        \/ \E p \in held : InsertFreelist(p)
        \/ PopFreelist
        \/ \E chunks \in Payloads : StartChain(chunks)
        \/ ChainTakes
        \/ ChainWrites

Spec == Init /\ [][Next]_vars
-----------------------------------------------------------------------------
FirstPages == [type : {"first"}, num_pages : Nat, free_page_head : Nat]
Page == FirstPages \cup [type : {"free"}, next : Nat]
            \cup [type : {"overflow"}, chunk : Chunk, next : Nat]
            \cup {EmptyNode, EmptyLeaf, BlankPage}

\* Types: the counter is the number of pages in the file, and the first page
\* is the header page.
TypeOK ==
    /\ db \in [file : Seq(Page), total : Nat \ {0}]
    /\ db.total = Len(db.file)
    /\ db.file[1] \in FirstPages
    /\ held \subseteq Nat
    /\ freed \in Seq(Nat)
    /\ job \in [chunks : Seq(Chunk), pages : Seq(Nat), done : Nat]
    /\ stored \subseteq [pages : Seq(Nat), chunks : Seq(Chunk)]

\* The list in the file (header page, then free page by free page) is what was
\* freed and not given out since, newest first, and it ends (pager.cpp 86-143,
\* 168-184, 251-256).
FreeListExact ==
    /\ get_free_page_head(db) = IF freed = <<>> THEN NULL_PAGE ELSE freed[Len(freed)]
    /\ \A i \in DOMAIN freed :
           db.file[freed[i]] = FreePage(IF i = 1 THEN NULL_PAGE ELSE freed[i - 1])

Members(seq) == {seq[i] : i \in DOMAIN seq}
Distinct(seq) == \A i, j \in DOMAIN seq : i # j => seq[i] # seq[j]
StoredPages == UNION {Members(s.pages) : s \in stored}

\* Every page but the header is in exactly one place: with the caller, on the
\* free list, in the chain being written or in one already written, and there
\* only once (pager.cpp 251-266).
OneUse ==
    /\ held \cup Members(freed) \cup Members(job.pages) \cup StoredPages = 2 .. db.total
    /\ held \cap Members(freed) = {}
    /\ (held \cup Members(freed)) \cap Members(job.pages) = {}
    /\ (held \cup Members(freed) \cup Members(job.pages)) \cap StoredPages = {}
    /\ Distinct(freed) /\ Distinct(job.pages)
    /\ \A s \in stored : Distinct(s.pages)
    /\ \A s, t \in stored : s # t => Members(s.pages) \cap Members(t.pages) = {}

\* A stored payload reads back for ever, page by page (pager.cpp 268-290,
\* leaf_page_manager.cpp 268-276).
ChainsIntact ==
    \A s \in stored :
        /\ Len(s.pages) = Len(s.chunks)
        /\ \A i \in DOMAIN s.pages :
               LET next == IF i < Len(s.pages) THEN s.pages[i + 1] ELSE NULL_PAGE
               IN  db.file[s.pages[i]] = OverflowPage(s.chunks[i], next)
=============================================================================
