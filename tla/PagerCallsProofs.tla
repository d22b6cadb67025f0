--------------------------- MODULE PagerCallsProofs ---------------------------
(***************************************************************************)
(* Proofs about the pager: for every set of payloads and every number of   *)
(* pages, the free list in the file is what was freed, no page is in two   *)
(* places, and stored payloads stay as they were written.                  *)
(***************************************************************************)
EXTENDS PagerCalls, TLAPS

IsDb(d) == /\ d \in [file : Seq(Page), total : Nat \ {0}]
           /\ d.total = Len(d.file)
           /\ d.file[1] \in FirstPages

\* e is d with the free list headed by h and with the pages in S, past the
\* first one, as they were.
SameBut(e, d, h, S) ==
    /\ IsDb(e)
    /\ get_free_page_head(e) = h
    /\ \A q \in S : e.file[q] = d.file[q]
-----------------------------------------------------------------------------
(***************************************************************************)
(* What the operators of the pager do to a database.                       *)
(***************************************************************************)

\* A write of the header page leaves the rest of the file alone.
LEMMA HeaderWrite ==
    ASSUME NEW d, IsDb(d), NEW first \in FirstPages
    PROVE  /\ SameBut([d EXCEPT !.file[1] = first], d, first.free_page_head,
                      2 .. d.total)
           /\ [d EXCEPT !.file[1] = first].total = d.total
<1> DEFINE file == [d.file EXCEPT ![1] = first]
<1>1. first \in Page
  BY DEF Page
<1>2. /\ file \in Seq(Page) /\ Len(file) = Len(d.file) /\ file[1] = first
      /\ \A q \in 2 .. d.total : file[q] = d.file[q]
  BY <1>1 DEF IsDb
<1>3. [d EXCEPT !.file[1] = first] = [file |-> file, total |-> d.total]
  BY SMTT(60) DEF IsDb
<1> QED
  BY <1>2, <1>3 DEF IsDb, SameBut, get_free_page_head

\* set_free_page_head writes the head into the header page and nothing else.
LEMMA SetHead ==
    ASSUME NEW d, IsDb(d), NEW p \in Nat
    PROVE  /\ SameBut(set_free_page_head(d, p), d, p, 2 .. d.total)
           /\ set_free_page_head(d, p).total = d.total
<1> DEFINE first == [d.file[1] EXCEPT !.free_page_head = p]
<1>1. first \in FirstPages /\ first.free_page_head = p
  BY DEF IsDb, FirstPages
<1>2. set_free_page_head(d, p) = [d EXCEPT !.file[1] = first]
  BY DEF set_free_page_head
<1> QED
  BY <1>1, <1>2, HeaderWrite, ZenonT(60)

\* Appending a page leaves the others and the free list alone.
LEMMA AppendKeeps ==
    ASSUME NEW d, IsDb(d), NEW page \in Page
    PROVE  /\ SameBut(AppendPage(d, page), d, get_free_page_head(d), 2 .. d.total)
           /\ AppendPage(d, page).total = d.total + 1
           /\ AppendPage(d, page).file[d.total + 1] = page
BY DEF IsDb, SameBut, AppendPage, get_free_page_head, FirstPages

\* create_page also counts the page in the header page.
LEMMA CreateKeeps ==
    ASSUME NEW d, IsDb(d), NEW page \in Page
    PROVE  /\ SameBut(create_page(d, page), d, get_free_page_head(d), 2 .. d.total)
           /\ create_page(d, page).total = d.total + 1
<1> DEFINE e == AppendPage(d, page)
<1>1. SameBut(e, d, get_free_page_head(d), 2 .. d.total) /\ e.total = d.total + 1
  BY AppendKeeps
<1> HIDE DEF e
<1> DEFINE first == [e.file[1] EXCEPT !.num_pages = e.total]
<1>2. first \in FirstPages /\ first.free_page_head = get_free_page_head(e)
  BY <1>1 DEF SameBut, IsDb, FirstPages, get_free_page_head
<1>3. create_page(d, page) = [e EXCEPT !.file[1] = first]
  BY DEF create_page, e
<1>4. /\ SameBut(create_page(d, page), e, first.free_page_head, 2 .. e.total)
      /\ create_page(d, page).total = e.total
  <2>1. IsDb(e)
    BY <1>1 DEF SameBut
  <2> HIDE DEF first
  <2> QED
    BY <1>2, <1>3, <2>1, HeaderWrite
<1> QED
  BY <1>1, <1>2, <1>4 DEF SameBut, IsDb

\* Writing one page past the first changes that page only.
LEMMA WriteKeeps ==
    ASSUME NEW d, IsDb(d), NEW q \in 2 .. d.total, NEW page \in Page
    PROVE  /\ SameBut([d EXCEPT !.file[q] = page], d, get_free_page_head(d),
                      (2 .. d.total) \ {q})
           /\ [d EXCEPT !.file[q] = page].total = d.total
           /\ [d EXCEPT !.file[q] = page].file[q] = page
BY SMTT(60) DEF IsDb, SameBut, get_free_page_head, FirstPages
-----------------------------------------------------------------------------
(***************************************************************************)
(* The pages of a list that grows and shrinks at its end.                  *)
(***************************************************************************)

\* Append adds one member, and keeps a list without repetitions so.
LEMMA MembersAppend ==
    ASSUME NEW seq \in Seq(Nat), NEW x \in Nat
    PROVE  /\ Append(seq, x) \in Seq(Nat)
           /\ Members(Append(seq, x)) = Members(seq) \cup {x}
           /\ Distinct(seq) /\ x \notin Members(seq) => Distinct(Append(seq, x))
<1> DEFINE longer == Append(seq, x)
           n == Len(seq)
<1>1. /\ n \in Nat /\ DOMAIN seq = 1 .. n
      /\ longer \in Seq(Nat) /\ DOMAIN longer = 1 .. n + 1
      /\ \A i \in 1 .. n : longer[i] = seq[i]
      /\ longer[n + 1] = x
  OBVIOUS
<1> HIDE DEF longer, n
<1>2. ASSUME NEW i \in 1 .. n + 1, i # n + 1 PROVE i \in 1 .. n
  BY <1>1, <1>2
<1>3. n + 1 \in 1 .. n + 1 /\ 1 .. n \subseteq 1 .. n + 1
  BY <1>1
<1>4. Members(longer) = Members(seq) \cup {x}
  BY <1>1, <1>2, <1>3, Zenon DEF Members
<1>5. ASSUME Distinct(seq), x \notin Members(seq) PROVE Distinct(longer)
  BY <1>1, <1>2, <1>5 DEF Distinct, Members
<1> QED
  BY <1>1, <1>4, <1>5 DEF longer

\* A list without its last element.
LEMMA FrontIs ==
    ASSUME NEW seq \in Seq(Nat), seq # <<>>
    PROVE  /\ Len(seq) \in Nat \ {0}
           /\ Len(seq) # 1 => seq[Len(seq) - 1] \in Nat
           /\ Len(SubSeq(seq, 1, Len(seq) - 1)) = Len(seq) - 1
           /\ DOMAIN SubSeq(seq, 1, Len(seq) - 1) = 1 .. Len(seq) - 1
           /\ \A i \in 1 .. Len(seq) - 1 : SubSeq(seq, 1, Len(seq) - 1)[i] = seq[i]
           /\ (SubSeq(seq, 1, Len(seq) - 1) = <<>> <=> Len(seq) = 1)
<1>1. PICK n \in Nat \ {0} : n = Len(seq) /\ DOMAIN seq = 1 .. n
  OBVIOUS
<1>2. n # 1 => n - 1 \in 1 .. n
  BY <1>1
<1>3. n # 1 => seq[n - 1] \in Nat
  BY <1>1, <1>2
<1> DEFINE front == SubSeq(seq, 1, n - 1)
<1>4. /\ front \in Seq(Nat) /\ Len(front) = n - 1 /\ DOMAIN front = 1 .. n - 1
      /\ \A i \in 1 .. n - 1 : front[i] = seq[i]
  BY <1>1
<1> HIDE DEF front
<1>5. front = <<>> <=> Len(front) = 0
  BY <1>4
<1>6. front = <<>> <=> n = 1
  BY <1>4, <1>5
<1> QED
  BY <1>1, <1>3, <1>4, <1>6 DEF front

\* Dropping the last element of a list without repetitions drops one member.
LEMMA MembersFront ==
    ASSUME NEW seq \in Seq(Nat), seq # <<>>, Distinct(seq)
    PROVE  /\ SubSeq(seq, 1, Len(seq) - 1) \in Seq(Nat)
           /\ seq[Len(seq)] \in Members(seq)
           /\ Members(SubSeq(seq, 1, Len(seq) - 1)) = Members(seq) \ {seq[Len(seq)]}
           /\ Distinct(SubSeq(seq, 1, Len(seq) - 1))
<1> DEFINE n == Len(seq)
           front == SubSeq(seq, 1, n - 1)
<1>1. n \in Nat /\ n # 0 /\ DOMAIN seq = 1 .. n
  OBVIOUS
<1>2. /\ front \in Seq(Nat) /\ DOMAIN front = 1 .. n - 1
      /\ \A i \in 1 .. n - 1 : front[i] = seq[i]
  BY <1>1
<1> HIDE DEF front, n
<1>3. n \in DOMAIN seq /\ n \notin 1 .. n - 1 /\ 1 .. n - 1 \subseteq 1 .. n
  BY <1>1
<1>4. ASSUME NEW i \in 1 .. n, i # n PROVE i \in 1 .. n - 1
  BY <1>1, <1>4
<1>5. Members(front) = Members(seq) \ {seq[n]}
  <2>1. ASSUME NEW x \in Members(front) PROVE x \in Members(seq) /\ x # seq[n]
    <3>1. PICK i \in 1 .. n - 1 : x = seq[i]
      BY <1>2, <2>1, Zenon DEF Members
    <3>2. i \in DOMAIN seq /\ i # n
      BY <1>1, <1>3, <3>1
    <3> QED
      BY <1>3, <3>1, <3>2 DEF Members, Distinct
  <2>2. ASSUME NEW x \in Members(seq), x # seq[n] PROVE x \in Members(front)
    <3>1. PICK i \in 1 .. n : x = seq[i]
      BY <1>1, <2>2, Zenon DEF Members
    <3>2. i \in 1 .. n - 1
      BY <1>4, <2>2, <3>1
    <3> QED
      BY <1>2, <3>1, <3>2 DEF Members
  <2> QED
    BY <2>1, <2>2
<1>6. Distinct(front)
  BY <1>1, <1>2, <1>3 DEF Distinct
<1>7. seq[n] \in Members(seq)
  BY <1>3 DEF Members
<1> QED
  BY <1>2, <1>5, <1>6, <1>7 DEF front, n
-----------------------------------------------------------------------------
(***************************************************************************)
(* The inductive invariant: the properties, and what the chain being       *)
(* written already is.                                                     *)
(***************************************************************************)
Apart(H, F, J, S, N) ==
    /\ H \cup F \cup J \cup S = N
    /\ H \cap F = {}
    /\ (H \cup F) \cap J = {}
    /\ (H \cup F \cup J) \cap S = {}

StoredApart ==
    /\ \A s \in stored : Distinct(s.pages)
    /\ \A s, t \in stored : s # t => Members(s.pages) \cap Members(t.pages) = {}

JobOK ==
    /\ Len(job.pages) <= Len(job.chunks)
    /\ job.chunks # <<>> => job.done < Len(job.chunks)
    /\ job.done # 0 => Len(job.pages) = Len(job.chunks)
    /\ job.chunks = <<>> => job.done = 0
    /\ \A i \in 1 .. job.done :
           db.file[job.pages[i]] = OverflowPage(job.chunks[i], Following(job.pages, i))

IInv == TypeOK /\ FreeListExact /\ OneUse /\ ChainsIntact /\ JobOK

\* OneUse in terms of sets of pages.
LEMMA OneUseIs ==
    OneUse <=> /\ Apart(held, Members(freed), Members(job.pages), StoredPages, 2 .. db.total)
               /\ Distinct(freed) /\ Distinct(job.pages) /\ StoredApart
BY Zenon DEF OneUse, Apart, StoredApart

\* The same of the state after a step.
LEMMA OneUseNext ==
    ASSUME Apart(held', Members(freed'), Members(job'.pages), StoredPages', 2 .. db'.total),
           Distinct(freed'), Distinct(job'.pages), StoredApart'
    PROVE  OneUse'
BY Zenon DEF OneUse, Apart, StoredApart

\* The first state satisfies the invariant.
LEMMA InitHolds == Init => IInv
<1> SUFFICES ASSUME Init PROVE IInv
  OBVIOUS
<1>1. db \in [file : Seq(Page), total : Nat \ {0}] /\ db.file[1] \in FirstPages
      /\ db.total = Len(db.file) /\ get_free_page_head(db) = NULL_PAGE
  <2>1. FirstPage(1, NULL_PAGE) \in FirstPages /\ FirstPages \subseteq Page
    BY DEF FirstPage, FirstPages, Page, NULL_PAGE
  <2> QED
    BY <2>1 DEF Init, NewDb, FirstPage, get_free_page_head
<1>2. TypeOK
  BY <1>1 DEF Init, TypeOK, Idle
<1>3. FreeListExact /\ ChainsIntact /\ JobOK
  BY <1>1 DEF Init, FreeListExact, ChainsIntact, JobOK, Idle
<1>4. OneUse
  BY DEF Init, OneUse, Members, Distinct, StoredPages, Idle, NewDb
<1> QED
  BY <1>2, <1>3, <1>4 DEF IInv
-----------------------------------------------------------------------------
(***************************************************************************)
(* Frames: what a step that leaves certain pages alone does not disturb.   *)
(***************************************************************************)

\* Chains already written stay intact while their pages are not touched.
LEMMA ChainsFrame ==
    ASSUME ChainsIntact, stored' = stored,
           \A q \in StoredPages : db'.file[q] = db.file[q]
    PROVE  ChainsIntact'
<1> SUFFICES ASSUME NEW s \in stored, NEW i \in DOMAIN s.pages
             PROVE  db'.file[s.pages[i]] = db.file[s.pages[i]]
  BY DEF ChainsIntact
<1>1. s.pages[i] \in StoredPages
  BY DEF StoredPages, Members
<1> QED
  BY <1>1

\* So does the free list.
LEMMA ListFrame ==
    ASSUME FreeListExact, freed' = freed,
           get_free_page_head(db') = get_free_page_head(db),
           \A q \in Members(freed) : db'.file[q] = db.file[q]
    PROVE  FreeListExact'
BY DEF FreeListExact, Members, get_free_page_head

\* So does the part of the new chain that is written.
LEMMA JobFrame ==
    ASSUME TypeOK, JobOK, job' = job,
           \A q \in Members(job.pages) : db'.file[q] = db.file[q]
    PROVE  JobOK'
<1>1. ASSUME NEW i \in 1 .. job.done PROVE job.pages[i] \in Members(job.pages)
  BY <1>1 DEF TypeOK, JobOK, Members
<1> QED
  BY <1>1 DEF JobOK, Following

\* The pages in use are pages of the file other than the header page.
LEMMA InUse ==
    ASSUME IInv
    PROVE  /\ IsDb(db)
           /\ held \subseteq 2 .. db.total
           /\ Members(freed) \subseteq 2 .. db.total
           /\ Members(job.pages) \subseteq 2 .. db.total
           /\ StoredPages \subseteq 2 .. db.total
BY DEF IInv, TypeOK, OneUse, IsDb

\* With no list the head is NULL_PAGE; otherwise it is the page freed last.
LEMMA HeadOfList ==
    ASSUME IInv
    PROVE  /\ get_free_page_head(db) = NULL_PAGE <=> freed = <<>>
           /\ freed # <<>> =>
                  /\ get_free_page_head(db) = freed[Len(freed)]
                  /\ freed[Len(freed)] \in Members(freed)
                  /\ db.file[freed[Len(freed)]].next =
                         IF Len(freed) = 1 THEN NULL_PAGE ELSE freed[Len(freed) - 1]
<1>1. ASSUME freed # <<>>
      PROVE  /\ Len(freed) \in DOMAIN freed
             /\ freed[Len(freed)] \in Members(freed)
  BY <1>1 DEF IInv, TypeOK, Members
<1>2. ASSUME freed # <<>> PROVE freed[Len(freed)] \in 2 .. db.total
  BY <1>1, <1>2, InUse
<1>3. ASSUME NEW n PROVE FreePage(n).next = n
  BY DEF FreePage
<1>4. get_free_page_head(db) = IF freed = <<>> THEN NULL_PAGE ELSE freed[Len(freed)]
  BY DEF IInv, FreeListExact
<1>5. ASSUME freed # <<>>
      PROVE  db.file[freed[Len(freed)]] =
                 FreePage(IF Len(freed) = 1 THEN NULL_PAGE ELSE freed[Len(freed) - 1])
  BY <1>1, <1>5 DEF IInv, FreeListExact
<1>6. ASSUME freed # <<>> PROVE freed[Len(freed)] # NULL_PAGE
  BY <1>2, <1>6 DEF NULL_PAGE
<1> QED
  BY <1>1, <1>3, <1>4, <1>5, <1>6
-----------------------------------------------------------------------------
(***************************************************************************)
(* Every step preserves the invariant.                                     *)
(***************************************************************************)

\* A node or a leaf page: the new page is the caller's, the rest is as before.
LEMMA CreatePageStep ==
    ASSUME IInv, NEW page \in {EmptyNode, EmptyLeaf}, CreatePage(page)
    PROVE  IInv'
<1> DEFINE N == 2 .. db.total
           t == db.total + 1
<1>1. /\ IsDb(db) /\ held \subseteq N /\ Members(freed) \subseteq N
      /\ Members(job.pages) \subseteq N /\ StoredPages \subseteq N
  BY InUse
<1>2. page \in Page
  BY DEF Page
<1>3. db' = create_page(db, page) /\ held' = held \cup {t}
      /\ UNCHANGED <<freed, job, stored>>
  BY DEF CreatePage
<1>4. SameBut(db', db, get_free_page_head(db), N) /\ db'.total = t
  BY <1>1, <1>2, <1>3, CreateKeeps
<1>5. TypeOK'
  BY <1>1, <1>3, <1>4 DEF IInv, TypeOK, SameBut, IsDb
<1>6. FreeListExact'
  BY <1>1, <1>3, <1>4, ListFrame DEF IInv, SameBut
<1>7. ChainsIntact' /\ JobOK'
  BY <1>1, <1>3, <1>4, ChainsFrame, JobFrame DEF IInv, SameBut
<1>8. OneUse'
  <2>1. 2 .. db'.total = N \cup {t} /\ t \notin N
    BY <1>1, <1>4 DEF IsDb
  <2>2. StoredPages' = StoredPages
    BY <1>3 DEF StoredPages
  <2> HIDE DEF N, t
  <2>3. held \cup Members(freed) \cup Members(job.pages) \cup StoredPages = N
    BY DEF IInv, OneUse, N
  <2> QED
    BY <1>1, <1>3, <2>1, <2>2, <2>3 DEF IInv, OneUse
<1> QED
  BY <1>5, <1>6, <1>7, <1>8 DEF IInv

\* The list with page p put at its head, for create_free_page and for
\* insert_freelist alike.
LEMMA ListGrows ==
    ASSUME IInv, NEW p \in Nat \ {0}, p \notin Members(freed), freed' = Append(freed, p),
           get_free_page_head(db') = p,
           db'.file[p] = FreePage(get_free_page_head(db)),
           \A q \in Members(freed) : db'.file[q] = db.file[q]
    PROVE  FreeListExact'
<1> DEFINE n == Len(freed)
<1>1. /\ freed \in Seq(Nat) /\ n \in Nat /\ Len(freed') = n + 1 /\ freed' # <<>>
      /\ DOMAIN freed' = 1 .. n + 1 /\ freed'[n + 1] = p
      /\ \A i \in 1 .. n : freed'[i] = freed[i]
  BY SMTT(60) DEF IInv, TypeOK
<1>2. get_free_page_head(db)' = p
  BY DEF get_free_page_head
<1>3. ASSUME NEW i \in 1 .. n
      PROVE  db'.file[freed'[i]] = FreePage(IF i = 1 THEN NULL_PAGE ELSE freed'[i - 1])
  <2>1. freed[i] \in Members(freed)
    BY <1>1 DEF Members
  <2> QED
    BY <1>1, <2>1, SMTT(60) DEF IInv, FreeListExact
<1>4. db'.file[p] = FreePage(IF n + 1 = 1 THEN NULL_PAGE ELSE freed'[n])
  BY <1>1, HeadOfList
<1> QED
  BY <1>1, <1>2, <1>3, <1>4, SMTT(60) DEF FreeListExact

\* A new free page goes from the end of the file to the head of the list.
LEMMA CreateFreePageStep ==
    ASSUME IInv, CreateFreePage
    PROVE  IInv'
<1> DEFINE N == 2 .. db.total
           t == db.total + 1
           h == get_free_page_head(db)
           e == AppendPage(db, FreePage(h))
<1>1. /\ IsDb(db) /\ held \subseteq N /\ Members(freed) \subseteq N
      /\ Members(job.pages) \subseteq N /\ StoredPages \subseteq N
      /\ t \in Nat \ {0}
  BY InUse DEF IsDb
<1>2. h \in Nat /\ FreePage(h) \in Page
  BY <1>1 DEF IsDb, get_free_page_head, FirstPages, Page, FreePage
<1>3. db' = set_free_page_head(e, t) /\ freed' = Append(freed, t)
      /\ UNCHANGED <<held, job, stored>>
  BY DEF CreateFreePage, create_free_page
<1>4. SameBut(e, db, h, N) /\ e.total = t /\ e.file[t] = FreePage(h)
  BY <1>1, <1>2, AppendKeeps
<1> HIDE DEF e
<1>5. SameBut(db', e, t, 2 .. t) /\ db'.total = t
  BY <1>1, <1>3, <1>4, SetHead DEF SameBut
<1>6. /\ IsDb(db') /\ get_free_page_head(db') = t /\ db'.file[t] = FreePage(h)
      /\ \A q \in N : db'.file[q] = db.file[q]
  BY <1>1, <1>4, <1>5 DEF SameBut, IsDb
<1>7. /\ freed' \in Seq(Nat) /\ Members(freed') = Members(freed) \cup {t}
      /\ Distinct(freed')
  <2>1. freed \in Seq(Nat) /\ Distinct(freed) /\ t \notin Members(freed)
    BY <1>1 DEF IInv, TypeOK, OneUse, IsDb
  <2> QED
    BY <1>1, <1>3, <2>1, MembersAppend
<1>8. TypeOK'
  BY <1>3, <1>6, <1>7 DEF IInv, TypeOK, IsDb
<1>9. FreeListExact'
  <2>1. t \notin Members(freed)
    BY <1>1 DEF IsDb
  <2> QED
    BY <1>1, <1>3, <1>6, <2>1, ListGrows
<1>10. ChainsIntact' /\ JobOK'
  BY <1>1, <1>3, <1>6, ChainsFrame, JobFrame DEF IInv
<1>11. OneUse'
  <2>1. 2 .. db'.total = N \cup {t} /\ t \notin N
    BY <1>1, <1>5 DEF IsDb
  <2>2. StoredPages' = StoredPages
    BY <1>3 DEF StoredPages
  <2>4. Apart(held, Members(freed), Members(job.pages), StoredPages, N)
    BY OneUseIs DEF IInv
  <2> HIDE DEF N, t
  <2>5. Apart(held, Members(freed) \cup {t}, Members(job.pages), StoredPages, N \cup {t})
    BY <2>1, <2>4 DEF Apart
  <2>6. Distinct(job'.pages) /\ StoredApart'
    BY <1>3, OneUseIs DEF IInv, StoredApart
  <2> QED
    BY <1>3, <1>7, <2>1, <2>2, <2>5, <2>6, OneUseNext
<1> QED
  BY <1>8, <1>9, <1>10, <1>11 DEF IInv

\* A page of the caller's goes to the head of the list.
LEMMA InsertFreelistStep ==
    ASSUME IInv, NEW p \in held, InsertFreelist(p)
    PROVE  IInv'
<1> DEFINE N == 2 .. db.total
           h == get_free_page_head(db)
           e == set_free_page_head(db, p)
<1>1. /\ IsDb(db) /\ held \subseteq N /\ Members(freed) \subseteq N
      /\ Members(job.pages) \subseteq N /\ StoredPages \subseteq N
      /\ p \in N /\ p \in Nat \ {0}
  BY InUse DEF IsDb
<1>2. h \in Nat /\ FreePage(h) \in Page
  BY <1>1 DEF IsDb, get_free_page_head, FirstPages, Page, FreePage
<1>3. /\ db' = [e EXCEPT !.file[p] = FreePage(h)]
      /\ held' = held \ {p} /\ freed' = Append(freed, p)
      /\ UNCHANGED <<job, stored>>
  BY DEF InsertFreelist, insert_freelist
<1>4. SameBut(e, db, p, N) /\ e.total = db.total
  BY <1>1, SetHead
<1> HIDE DEF e
<1>5. /\ SameBut(db', e, p, N \ {p}) /\ db'.total = db.total
      /\ db'.file[p] = FreePage(h)
  BY <1>1, <1>2, <1>3, <1>4, WriteKeeps DEF SameBut
<1>6. /\ IsDb(db') /\ get_free_page_head(db') = p /\ db'.file[p] = FreePage(h)
      /\ \A q \in N \ {p} : db'.file[q] = db.file[q]
  BY <1>4, <1>5 DEF SameBut
<1>7. p \notin Members(freed) /\ p \notin Members(job.pages) /\ p \notin StoredPages
  BY DEF IInv, OneUse
<1>8. /\ freed' \in Seq(Nat) /\ Members(freed') = Members(freed) \cup {p}
      /\ Distinct(freed')
  BY <1>1, <1>3, <1>7, MembersAppend DEF IInv, TypeOK, OneUse
<1>9. TypeOK'
  BY <1>3, <1>6, <1>8 DEF IInv, TypeOK, IsDb
<1>10. FreeListExact'
  BY <1>1, <1>3, <1>6, <1>7, ListGrows
<1>11. ChainsIntact' /\ JobOK'
  BY <1>1, <1>3, <1>6, <1>7, ChainsFrame, JobFrame DEF IInv
<1>12. OneUse'
  <2>1. StoredPages' = StoredPages
    BY <1>3 DEF StoredPages
  <2>2. Apart(held, Members(freed), Members(job.pages), StoredPages, N)
    BY OneUseIs DEF IInv
  <2>3. 2 .. db'.total = N
    BY <1>5
  <2> HIDE DEF N
  <2>4. Apart(held \ {p}, Members(freed) \cup {p}, Members(job.pages), StoredPages, N)
    BY <1>1, <2>2 DEF Apart
  <2>5. Distinct(job'.pages) /\ StoredApart'
    BY <1>3, OneUseIs, SMTT(60) DEF IInv, StoredApart
  <2> QED
    BY <1>3, <1>8, <2>1, <2>3, <2>4, <2>5, OneUseNext
<1> QED
  BY <1>9, <1>10, <1>11, <1>12 DEF IInv

\* The list without its head, for pop_freelist and for the pages of a chain.
LEMMA ListShrinks ==
    ASSUME IInv, freed # <<>>, freed' = SubSeq(freed, 1, Len(freed) - 1),
           db' = set_free_page_head(db, db.file[freed[Len(freed)]].next)
    PROVE  /\ FreeListExact'
           /\ IsDb(db') /\ db'.total = db.total
           /\ \A q \in 2 .. db.total : db'.file[q] = db.file[q]
<1> DEFINE n == Len(freed)
           h == IF n = 1 THEN NULL_PAGE ELSE freed[n - 1]
<1>1. freed \in Seq(Nat) /\ n \in Nat \ {0}
  BY FrontIs DEF IInv, TypeOK
<1>2. h \in Nat /\ db' = set_free_page_head(db, h)
  <2>1. db.file[freed[n]].next = h
    BY HeadOfList
  <2>3. n # 1 => freed[n - 1] \in Nat
    BY <1>1, FrontIs
  <2> QED
    BY <2>1, <2>3 DEF NULL_PAGE
<1>3. SameBut(db', db, h, 2 .. db.total) /\ db'.total = db.total
  BY <1>2, InUse, SetHead
<1>4. /\ DOMAIN freed' = 1 .. n - 1 /\ Len(freed') = n - 1
      /\ \A i \in 1 .. n - 1 : freed'[i] = freed[i]
      /\ (freed' = <<>> <=> n = 1)
  BY <1>1, FrontIs
<1>5. get_free_page_head(db)' = IF freed' = <<>> THEN NULL_PAGE ELSE freed'[Len(freed')]
  <2>1. get_free_page_head(db)' = h
    BY <1>3 DEF SameBut, get_free_page_head
  <2>2. CASE n = 1
    BY <1>4, <2>1, <2>2
  <2>3. CASE n # 1
    <3>1. n - 1 \in 1 .. n - 1
      <4>1. n \in Nat \ {0}
        BY <1>1
      <4> HIDE DEF n
      <4> QED
        BY <2>3, <4>1
    <3>2. freed'[Len(freed')] = freed[n - 1] /\ freed' # <<>>
      BY <1>4, <2>3, <3>1
    <3> QED
      BY <2>1, <2>3, <3>2
  <2> QED
    BY <2>2, <2>3
<1>6. ASSUME NEW i \in 1 .. n - 1
      PROVE  db'.file[freed'[i]] = FreePage(IF i = 1 THEN NULL_PAGE ELSE freed'[i - 1])
  <2>1. i \in DOMAIN freed /\ freed[i] \in Members(freed)
    BY <1>1 DEF Members
  <2>2. db'.file[freed[i]] = db.file[freed[i]]
    BY <1>3, <2>1, InUse DEF SameBut
  <2> QED
    BY <1>1, <1>4, <2>1, <2>2, SMTT(60) DEF IInv, FreeListExact
<1> QED
  BY <1>3, <1>4, <1>5, <1>6 DEF FreeListExact, SameBut

\* The page at the head of the list goes to the caller.
LEMMA PopFreelistStep ==
    ASSUME IInv, PopFreelist
    PROVE  IInv'
<1> DEFINE N == 2 .. db.total
           p == freed[Len(freed)]
<1>1. /\ IsDb(db) /\ held \subseteq N /\ Members(freed) \subseteq N
      /\ Members(job.pages) \subseteq N /\ StoredPages \subseteq N
      /\ NULL_PAGE \notin N
  BY InUse DEF NULL_PAGE
<1>2. CASE freed = <<>>
  <2>1. pop_freelist(db) = [db |-> db, page |-> NULL_PAGE]
    BY <1>2, HeadOfList DEF pop_freelist
  <2>2. UNCHANGED vars
    <3>1. (held \cup {NULL_PAGE}) \ {NULL_PAGE} = held
      BY <1>1
    <3> QED
      BY <1>2, <2>1, <3>1 DEF PopFreelist, GiveFreed, vars
  <2> QED
    BY <2>2 DEF vars, IInv, TypeOK, FreeListExact, OneUse, ChainsIntact, JobOK,
                StoredPages, get_free_page_head
<1>3. CASE freed # <<>>
  <2>1. p \in Members(freed) /\ p \in N /\ get_free_page_head(db) = p /\ p # NULL_PAGE
    BY <1>1, <1>3, HeadOfList
  <2>2. pop_freelist(db) = [db |-> set_free_page_head(db, db.file[p].next), page |-> p]
    BY <2>1 DEF pop_freelist
  <2>3. /\ db' = set_free_page_head(db, db.file[p].next)
        /\ held' = held \cup {p}
        /\ freed' = SubSeq(freed, 1, Len(freed) - 1)
        /\ UNCHANGED <<job, stored>>
    <3>1. (held \cup {p}) \ {NULL_PAGE} = held \cup {p}
      BY <1>1, <2>1
    <3> HIDE DEF p
    <3> QED
      BY <1>3, <2>2, <3>1 DEF PopFreelist, GiveFreed
  <2>4. /\ FreeListExact' /\ IsDb(db') /\ db'.total = db.total
        /\ \A q \in N : db'.file[q] = db.file[q]
    BY <1>3, <2>3, ListShrinks
  <2>5. /\ freed' \in Seq(Nat) /\ Members(freed') = Members(freed) \ {p}
        /\ Distinct(freed')
    BY <1>3, <2>3, MembersFront DEF IInv, TypeOK, OneUse
  <2>6. TypeOK'
    <3>1. N \subseteq Nat
      BY <1>1 DEF IsDb
    <3>2. held' \subseteq Nat
      BY <1>1, <2>1, <2>3, <3>1, Zenon
    <3>3. /\ db' \in [file : Seq(Page), total : Nat \ {0}]
          /\ db'.total = Len(db'.file) /\ db'.file[1] \in FirstPages
      BY <2>4 DEF IsDb
    <3>4. /\ job' \in [chunks : Seq(Chunk), pages : Seq(Nat), done : Nat]
          /\ stored' \subseteq [pages : Seq(Nat), chunks : Seq(Chunk)]
      <4>1. /\ job \in [chunks : Seq(Chunk), pages : Seq(Nat), done : Nat]
            /\ stored \subseteq [pages : Seq(Nat), chunks : Seq(Chunk)]
        BY DEF IInv, TypeOK
      <4> QED
        BY <2>3, <4>1
    <3>5. freed' \in Seq(Nat)
      BY <2>5
    <3> QED
      BY <3>2, <3>3, <3>4, <3>5 DEF TypeOK
  <2>7. ChainsIntact' /\ JobOK'
    BY <1>1, <2>3, <2>4, ChainsFrame, JobFrame DEF IInv
  <2>8. OneUse'
    <3>1. Apart(held, Members(freed), Members(job.pages), StoredPages, N)
      BY OneUseIs DEF IInv
    <3>2. 2 .. db'.total = N
      BY <2>4
    <3> HIDE DEF N, p
    <3>3. Apart(held \cup {p}, Members(freed) \ {p}, Members(job.pages), StoredPages, N)
      BY <2>1, <3>1 DEF Apart
    <3>4. Distinct(job'.pages) /\ StoredApart' /\ StoredPages' = StoredPages
      BY <2>3, OneUseIs DEF IInv, StoredApart, StoredPages
    <3> QED
      BY <2>3, <2>5, <3>2, <3>3, <3>4, OneUseNext
  <2> QED
    BY <2>4, <2>6, <2>7, <2>8 DEF IInv
<1> QED
  BY <1>2, <1>3

\* A chain begins with no page of its own.
LEMMA StartChainStep ==
    ASSUME IInv, NEW chunks \in Payloads, StartChain(chunks)
    PROVE  IInv'
<1>1. chunks \in Seq(Chunk) /\ chunks # <<>>
  BY PayloadsAssumption
<1>2. /\ job.pages = <<>> /\ job'.pages = <<>> /\ job'.chunks = chunks /\ job'.done = 0
      /\ UNCHANGED <<db, held, freed, stored>>
      /\ job' \in [chunks : Seq(Chunk), pages : Seq(Nat), done : Nat]
  BY <1>1 DEF StartChain, Idle
<1>3. TypeOK' /\ FreeListExact' /\ ChainsIntact'
  BY <1>2 DEF IInv, TypeOK, FreeListExact, ChainsIntact, get_free_page_head
<1>4. OneUse'
  BY <1>2 DEF IInv, OneUse, StoredPages
<1>5. JobOK'
  BY <1>1, <1>2 DEF JobOK
<1> QED
  BY <1>3, <1>4, <1>5 DEF IInv

\* A chain takes the head of the list, or a page at the end of the file.
LEMMA ChainTakesStep ==
    ASSUME IInv, ChainTakes
    PROVE  IInv'
<1> DEFINE N == 2 .. db.total
           p == TakePage(db).page
<1>1. /\ IsDb(db) /\ held \subseteq N /\ Members(freed) \subseteq N
      /\ Members(job.pages) \subseteq N /\ StoredPages \subseteq N
  BY InUse
<1>2. /\ db' = TakePage(db).db /\ UNCHANGED <<held, stored>>
      /\ job'.pages = Append(job.pages, p) /\ job'.chunks = job.chunks
      /\ job'.done = job.done /\ Len(job.pages) < Len(job.chunks)
      /\ job' = [job EXCEPT !.pages = Append(@, p)]
  BY DEF ChainTakes, IInv, TypeOK
<1>3. /\ FreeListExact' /\ IsDb(db')
      /\ \A q \in N : db'.file[q] = db.file[q]
      /\ freed' \in Seq(Nat) /\ Distinct(freed')
      /\ p \in Nat /\ p \notin Members(job.pages)
      /\ Apart(held, Members(freed'), Members(job.pages) \cup {p}, StoredPages,
               2 .. db'.total)
  <2>1. CASE freed = <<>>
    <3>1. TakePage(db) = [db |-> AppendPage(db, BlankPage), page |-> db.total + 1]
      BY <2>1, HeadOfList DEF TakePage
    <3>2. db' = AppendPage(db, BlankPage) /\ p = db.total + 1 /\ freed' = freed
      BY <1>2, <2>1, <3>1 DEF ChainTakes, GiveFreed
    <3>3. /\ SameBut(db', db, get_free_page_head(db), N)
          /\ db'.total = db.total + 1
      BY <1>1, <3>2, AppendKeeps DEF Page
    <3>4. FreeListExact'
      BY <1>1, <3>2, <3>3, ListFrame DEF IInv, SameBut
    <3>5. 2 .. db'.total = N \cup {p} /\ p \notin N /\ p \in Nat
      BY <1>1, <3>2, <3>3 DEF IsDb
    <3>6. Apart(held, Members(freed), Members(job.pages), StoredPages, N)
      BY OneUseIs DEF IInv
    <3>7. freed \in Seq(Nat) /\ Distinct(freed)
      BY DEF IInv, TypeOK, OneUse
    <3> HIDE DEF N, p
    <3>8. Apart(held, Members(freed), Members(job.pages) \cup {p}, StoredPages, N \cup {p})
      BY <3>5, <3>6 DEF Apart
    <3> QED
      BY <1>1, <3>2, <3>3, <3>4, <3>5, <3>7, <3>8 DEF SameBut
  <2>2. CASE freed # <<>>
    <3> DEFINE top == freed[Len(freed)]
    <3>1. top \in Members(freed) /\ get_free_page_head(db) = top /\ top # NULL_PAGE
      BY <2>2, HeadOfList
    <3>2. TakePage(db) = [db |-> set_free_page_head(db, db.file[top].next), page |-> top]
      BY <3>1 DEF TakePage
    <3>3. /\ db' = set_free_page_head(db, db.file[top].next) /\ p = top
          /\ freed' = SubSeq(freed, 1, Len(freed) - 1)
      BY <1>2, <2>2, <3>2 DEF ChainTakes, GiveFreed
    <3>4. /\ FreeListExact' /\ IsDb(db') /\ db'.total = db.total
          /\ \A q \in N : db'.file[q] = db.file[q]
      BY <2>2, <3>3, ListShrinks
    <3>5. /\ freed' \in Seq(Nat) /\ Members(freed') = Members(freed) \ {top}
          /\ Distinct(freed')
      BY <2>2, <3>3, MembersFront DEF IInv, TypeOK, OneUse
    <3>6. Apart(held, Members(freed), Members(job.pages), StoredPages, N)
      BY OneUseIs DEF IInv
    <3>7. 2 .. db'.total = N /\ top \in Nat
      BY <1>1, <3>1, <3>4
    <3> HIDE DEF N, p, top
    <3>8. /\ Apart(held, Members(freed) \ {top}, Members(job.pages) \cup {top}, StoredPages, N)
          /\ top \notin Members(job.pages)
      BY <3>1, <3>6 DEF Apart
    <3> QED
      BY <3>3, <3>4, <3>5, <3>7, <3>8
  <2> QED
    BY <2>1, <2>2
<1> HIDE DEF p
<1>4. /\ job'.pages \in Seq(Nat) /\ Members(job'.pages) = Members(job.pages) \cup {p}
      /\ Distinct(job'.pages)
  BY <1>2, <1>3, MembersAppend DEF IInv, TypeOK, OneUse
<1>5. TypeOK'
  BY <1>2, <1>3, <1>4 DEF IInv, TypeOK, IsDb
<1>6. ChainsIntact'
  BY <1>1, <1>2, <1>3, ChainsFrame DEF IInv
<1>7. JobOK'
  <2>1. job.done = 0
    BY <1>2 DEF IInv, TypeOK, JobOK
  <2>2. Len(job'.pages) = Len(job.pages) + 1
    BY <1>2, <1>3 DEF IInv, TypeOK
  <2> QED
    BY <1>2, <2>1, <2>2 DEF IInv, TypeOK, JobOK
<1>8. OneUse'
  <2>1. StoredApart' /\ StoredPages' = StoredPages
    BY <1>2, OneUseIs DEF IInv, StoredApart, StoredPages
  <2> QED
    BY <1>2, <1>3, <1>4, <2>1, OneUseNext
<1> QED
  BY <1>3, <1>5, <1>6, <1>7, <1>8 DEF IInv

\* A chain writes its next page; after the last one it is stored.
LEMMA ChainWritesStep ==
    ASSUME IInv, ChainWrites
    PROVE  IInv'
<1> DEFINE N == 2 .. db.total
           i == job.done + 1
           p == job.pages[i]
           page == OverflowPage(job.chunks[i], Following(job.pages, i))
<1>1. /\ IsDb(db) /\ held \subseteq N /\ Members(freed) \subseteq N
      /\ Members(job.pages) \subseteq N /\ StoredPages \subseteq N
  BY InUse
<1>2. /\ job.chunks \in Seq(Chunk) /\ job.pages \in Seq(Nat) /\ job.done \in Nat
      /\ Len(job.pages) = Len(job.chunks) /\ i \in 1 .. Len(job.chunks)
      /\ i \in 1 .. Len(job.pages)
  BY DEF ChainWrites, IInv, TypeOK
<1>3. /\ db' = [db EXCEPT !.file[p] = page] /\ UNCHANGED <<held, freed>>
      /\ IF i = Len(job.chunks)
         THEN job' = Idle /\ stored' = stored \cup {Finished}
         ELSE job' = [job EXCEPT !.done = i] /\ stored' = stored
  BY DEF ChainWrites
<1>4. p \in Members(job.pages) /\ p \in N
  BY <1>1, <1>2 DEF Members
<1>5. page \in Page
  <2>1. job.chunks[i] \in Chunk /\ Following(job.pages, i) \in Nat
    BY <1>2, SMTT(60) DEF Following, NULL_PAGE
  <2> QED
    BY <2>1 DEF OverflowPage, Page
<1>6. /\ IsDb(db') /\ db'.total = db.total /\ db'.file[p] = page
      /\ get_free_page_head(db') = get_free_page_head(db)
      /\ \A q \in N \ {p} : db'.file[q] = db.file[q]
  BY <1>1, <1>3, <1>4, <1>5, WriteKeeps DEF SameBut
<1>7. p \notin Members(freed) /\ p \notin StoredPages
  BY <1>4 DEF IInv, OneUse
<1>8. FreeListExact'
  BY <1>1, <1>3, <1>6, <1>7, ListFrame DEF IInv
<1>9. \A j \in 1 .. i :
          db'.file[job.pages[j]] = OverflowPage(job.chunks[j], Following(job.pages, j))
  <2>1. ASSUME NEW j \in 1 .. job.done
        PROVE  job.pages[j] \in N \ {p}
    <3>1. j \in DOMAIN job.pages /\ i \in DOMAIN job.pages /\ j # i
      BY <1>2
    <3>2. job.pages[j] # p
      BY <3>1 DEF IInv, OneUse, Distinct
    <3>3. job.pages[j] \in Members(job.pages)
      BY <3>1 DEF Members
    <3> QED
      BY <1>1, <3>2, <3>3
  <2>2. ASSUME NEW j \in 1 .. job.done
        PROVE  db'.file[job.pages[j]] = OverflowPage(job.chunks[j], Following(job.pages, j))
    BY <1>6, <2>1 DEF IInv, JobOK
  <2>3. ASSUME NEW j \in 1 .. i PROVE j \in 1 .. job.done \/ j = i
    BY <1>2
  <2> QED
    BY <1>6, <2>2, <2>3
<1>10. \A s \in stored :
           /\ Len(s.pages) = Len(s.chunks)
           /\ \A j \in DOMAIN s.pages :
                  db'.file[s.pages[j]] = OverflowPage(s.chunks[j], Following(s.pages, j))
  <2>1. ASSUME NEW s \in stored, NEW j \in DOMAIN s.pages
        PROVE  db'.file[s.pages[j]] = db.file[s.pages[j]]
    <3>1. s.pages[j] \in StoredPages
      BY DEF StoredPages, Members
    <3> QED
      BY <1>1, <1>6, <1>7, <3>1
  <2> QED
    BY <2>1 DEF IInv, ChainsIntact, Following
<1>11. CASE i = Len(job.chunks)
  <2>1. /\ job' = Idle /\ stored' = stored \cup {Finished}
        /\ Finished.pages = job.pages /\ Finished.chunks = job.chunks
        /\ Finished \in [pages : Seq(Nat), chunks : Seq(Chunk)]
    BY <1>2, <1>3, <1>11 DEF Finished
  <2>2. TypeOK'
    BY <1>3, <1>6, <2>1, SMTT(60) DEF IInv, TypeOK, IsDb, Idle
  <2>3. ChainsIntact'
    <3>1. DOMAIN job.pages = 1 .. i
      BY <1>2, <1>11
    <3> QED
      BY <1>2, <1>9, <1>10, <2>1, <3>1 DEF ChainsIntact, Following
  <2>4. JobOK'
    BY <2>1 DEF JobOK, Idle
  <2>5. OneUse'
    <3>1. /\ StoredPages' = StoredPages \cup Members(job.pages)
          /\ job'.pages = <<>> /\ Members(job'.pages) = {} /\ Distinct(job'.pages)
      BY <2>1 DEF StoredPages, Idle, Members, Distinct
    <3>2. Apart(held, Members(freed), Members(job.pages), StoredPages, N)
      BY OneUseIs DEF IInv
    <3>3. 2 .. db'.total = N
      BY <1>6
    <3> HIDE DEF N
    <3>4. Apart(held, Members(freed), {}, StoredPages \cup Members(job.pages), N)
      BY <3>2 DEF Apart
    <3>5. StoredApart'
      <4>1. Distinct(job.pages) /\ StoredApart
        BY OneUseIs DEF IInv
      <4>2. ASSUME NEW s \in stored PROVE Members(s.pages) \cap Members(job.pages) = {}
        BY <3>2 DEF Apart, StoredPages
      <4> QED
        BY <2>1, <4>1, <4>2 DEF StoredApart
    <3>6. Distinct(freed)
      BY OneUseIs DEF IInv
    <3> QED
      BY <1>3, <3>1, <3>3, <3>4, <3>5, <3>6, OneUseNext
  <2> QED
    BY <1>8, <2>2, <2>3, <2>4, <2>5 DEF IInv
<1>12. CASE i # Len(job.chunks)
  <2>1. /\ job'.pages = job.pages /\ job'.chunks = job.chunks /\ job'.done = i
        /\ job' \in [chunks : Seq(Chunk), pages : Seq(Nat), done : Nat]
        /\ stored' = stored
    <3>1. /\ job \in [chunks : Seq(Chunk), pages : Seq(Nat), done : Nat]
          /\ i \in Nat
      BY <1>2 DEF IInv, TypeOK
    <3>2. job' = [job EXCEPT !.done = i] /\ stored' = stored
      BY <1>3, <1>12
    <3> HIDE DEF i
    <3> QED
      BY <3>1, <3>2
  <2>2. TypeOK'
    BY <1>3, <1>6, <2>1 DEF IInv, TypeOK, IsDb
  <2>3. ChainsIntact'
    BY <1>10, <2>1 DEF ChainsIntact, Following
  <2>4. JobOK'
    BY <1>2, <1>9, <1>12, <2>1 DEF JobOK
  <2>5. OneUse'
    BY <1>3, <1>6, <2>1 DEF IInv, OneUse, StoredPages
  <2> QED
    BY <1>8, <2>2, <2>3, <2>4, <2>5 DEF IInv
<1> QED
  BY <1>11, <1>12
-----------------------------------------------------------------------------
\* The invariant is inductive.
LEMMA NextHolds == IInv /\ [Next]_vars => IInv'
<1> SUFFICES ASSUME IInv, [Next]_vars PROVE IInv'
  OBVIOUS
<1>1. ASSUME NEW page \in {EmptyNode, EmptyLeaf}, CreatePage(page) PROVE IInv'
  BY <1>1, CreatePageStep
<1>2. CASE CreateFreePage
  BY <1>2, CreateFreePageStep
<1>3. ASSUME NEW p \in held, InsertFreelist(p) PROVE IInv'
  BY <1>3, InsertFreelistStep
<1>4. CASE PopFreelist
  BY <1>4, PopFreelistStep
<1>5. ASSUME NEW chunks \in Payloads, StartChain(chunks) PROVE IInv'
  BY <1>5, StartChainStep
<1>6. CASE ChainTakes
  BY <1>6, ChainTakesStep
<1>7. CASE ChainWrites
  BY <1>7, ChainWritesStep
<1>8. CASE UNCHANGED vars
  BY <1>8 DEF vars, IInv, TypeOK, FreeListExact, OneUse, ChainsIntact, JobOK,
              StoredPages, get_free_page_head
<1> QED
  BY <1>1, <1>2, <1>3, <1>4, <1>5, <1>6, <1>7, <1>8 DEF Next

\* The invariant holds throughout.
LEMMA InvariantHolds == Spec => []IInv
BY InitHolds, NextHolds, PTL DEF Spec

\* The pager's counter is always the number of pages in the file, and its fields
\* keep their types, for any payloads and any number of pages.
THEOREM PagerTypeCorrect == Spec => []TypeOK
BY InvariantHolds, PTL DEF IInv

\* The free list in the file is, after every call and between the writes of a
\* chain, what was freed and not given out again (pager.cpp 86-143, 251-256).
THEOREM FreeListAlwaysExact == Spec => []FreeListExact
BY InvariantHolds, PTL DEF IInv

\* No page is ever lost or given to two users (pager.cpp 162-293).
THEOREM PagesUsedOnce == Spec => []OneUse
BY InvariantHolds, PTL DEF IInv

\* No later call touches a page of a stored payload (pager.cpp 226-293).
THEOREM PayloadsStay == Spec => []ChainsIntact
BY InvariantHolds, PTL DEF IInv
=============================================================================
