---------------------------- MODULE StorageProofs ----------------------------
(***************************************************************************)
(* The storage engine, for any tables, pages, segment size and cache: the  *)
(* pages of every sound table are where they should be and what they       *)
(* should be, over every call, failure, death and restart.                 *)
(***************************************************************************)
EXTENDS StorageCalls, FileCacheLemmas, OrderProofs

(***************************************************************************)
(* A table cut into segments.                                              *)
(***************************************************************************)

\* How many of n pages lie in segment s, for a segment that is not past them.
SegLen(n, s) == IF (s + 1) * segment_size <= n THEN segment_size ELSE n % segment_size

\* The pages of segment s.
Segment(pages, s) == [j \in 1 .. SegLen(Len(pages), s) |-> pages[s * segment_size + j]]

LastSeg(n) == (n - 1) \div segment_size

LEMMA DivMod ==
    ASSUME NEW p \in Nat
    PROVE  /\ p \div segment_size \in Nat /\ p % segment_size \in Nat
           /\ p % segment_size < segment_size
           /\ p = (p \div segment_size) * segment_size + (p % segment_size)
BY SegmentSizeAssumption

LEMMA DivUnique ==
    ASSUME NEW p \in Nat, NEW q \in Nat, NEW r \in Nat,
           r < segment_size, p = q * segment_size + r
    PROVE  p \div segment_size = q /\ p % segment_size = r
BY SegmentSizeAssumption

LEMMA Distribute ==
    ASSUME NEW a \in Nat, NEW b \in Nat
    PROVE  /\ a * segment_size \in Nat
           /\ (a + 1) * segment_size = a * segment_size + segment_size
           /\ a < b => (a + 1) * segment_size <= b * segment_size
           /\ a <= b => a * segment_size <= b * segment_size
<1>1. segment_size \in Nat /\ segment_size > 0
    BY SegmentSizeAssumption
<1>2. a * segment_size \in Nat /\ b * segment_size \in Nat
    BY <1>1
<1>3. (a + 1) * segment_size = a * segment_size + segment_size
    BY <1>1
<1>4. a <= b => a * segment_size <= b * segment_size
    <2>1. a <= b => (b - a) \in Nat /\ (b - a) * segment_size \in Nat
        BY <1>1
    <2>2. b * segment_size = a * segment_size + (b - a) * segment_size
        BY <1>1
    <2> QED
        BY <1>2, <2>1, <2>2
<1>5. a < b => (a + 1) * segment_size <= b * segment_size
    <2>1. a < b => (b - (a + 1)) \in Nat /\ (b - (a + 1)) * segment_size \in Nat
        BY <1>1
    <2>2. b * segment_size = (a + 1) * segment_size + (b - (a + 1)) * segment_size
        BY <1>1
    <2>3. (a + 1) * segment_size \in Nat
        BY <1>1
    <2> QED
        BY <1>2, <2>1, <2>2, <2>3
<1> QED
    BY <1>2, <1>3, <1>4, <1>5

\* A segment that starts within the n pages ends with the last of them or is
\* full.
LEMMA SegLenIs ==
    ASSUME NEW n \in Nat, NEW s \in Nat, s * segment_size <= n
    PROVE  /\ SegLen(n, s) \in Nat /\ SegLen(n, s) <= segment_size
           /\ s * segment_size + SegLen(n, s) <= n
           /\ (s + 1) * segment_size <= n => SegLen(n, s) = segment_size
           /\ (s + 1) * segment_size > n => SegLen(n, s) = n - s * segment_size
<1>1. segment_size \in Nat /\ segment_size > 0 /\ s * segment_size \in Nat
      /\ (s + 1) * segment_size = s * segment_size + segment_size
    BY SegmentSizeAssumption, Distribute
<1>2. (s + 1) * segment_size > n => n % segment_size = n - s * segment_size
    <2>1. (s + 1) * segment_size > n => n - s * segment_size \in Nat
                                        /\ n - s * segment_size < segment_size
                                        /\ n = s * segment_size + (n - s * segment_size)
        BY <1>1
    <2> QED
        BY <2>1, DivUnique
<1> QED
    BY <1>1, <1>2 DEF SegLen

LEMMA LastSegIs ==
    ASSUME NEW n \in Nat, n # 0
    PROVE  /\ LastSeg(n) \in Nat /\ LastSeg(n) * segment_size \in Nat
           /\ LastSeg(n) * segment_size < n
           /\ n <= LastSeg(n) * segment_size + segment_size
<1> DEFINE m == n - 1
<1>1. m \in Nat /\ n = m + 1
    OBVIOUS
<1> HIDE DEF m
<1>2. /\ m \div segment_size \in Nat /\ m % segment_size \in Nat
      /\ m % segment_size < segment_size
      /\ m = (m \div segment_size) * segment_size + (m % segment_size)
    BY <1>1, DivMod
<1>3. LastSeg(n) = m \div segment_size
    BY DEF LastSeg, m
<1>4. LastSeg(n) * segment_size \in Nat /\ segment_size \in Nat
    BY <1>2, <1>3, Distribute, SegmentSizeAssumption
<1> QED
    BY <1>1, <1>2, <1>3, <1>4

\* Page p of n lies in a segment that is not past the last one.
LEMMA PagePlace ==
    ASSUME NEW n \in Nat, NEW p \in 0 .. n - 1
    PROVE  LET s == p \div segment_size
               j == (p % segment_size) + 1
           IN  /\ s \in 0 .. LastSeg(n)
               /\ s * segment_size <= n
               /\ s * segment_size + j = p + 1
               /\ j \in 1 .. SegLen(n, s)
<1> DEFINE s == p \div segment_size
<1> DEFINE r == p % segment_size
<1> DEFINE z == LastSeg(n)
<1>1. s \in Nat /\ r \in Nat /\ r < segment_size /\ p = s * segment_size + r
    BY DivMod
<1>0. n # 0 /\ p \in Nat /\ p < n /\ segment_size \in Nat
    BY SegmentSizeAssumption
<1>2. z \in Nat /\ z * segment_size \in Nat /\ n <= z * segment_size + segment_size
    BY <1>0, LastSegIs
<1> HIDE DEF s, r, z
<1>3. s <= z
    <2> SUFFICES ASSUME z < s PROVE FALSE
        BY <1>1, <1>2
    <2>1. (z + 1) * segment_size <= s * segment_size
          /\ (z + 1) * segment_size = z * segment_size + segment_size
        BY <1>1, <1>2, Distribute
    <2>2. z * segment_size \in Nat /\ s * segment_size \in Nat
        BY <1>1, <1>2, Distribute
    <2> QED
        BY <1>0, <1>1, <1>2, <2>1, <2>2
<1>4. s * segment_size \in Nat
    BY <1>1, Distribute
<1>5. s * segment_size <= n /\ s * segment_size + (r + 1) = p + 1
    BY <1>0, <1>1, <1>4
<1>6. r + 1 \in 1 .. SegLen(n, s)
    <2>1. /\ SegLen(n, s) \in Nat
          /\ (s + 1) * segment_size <= n => SegLen(n, s) = segment_size
          /\ (s + 1) * segment_size > n => SegLen(n, s) = n - s * segment_size
        BY <1>1, <1>5, SegLenIs
    <2>2. (s + 1) * segment_size \in Nat
        BY <1>1, Distribute
    <2>3. (s + 1) * segment_size <= n \/ (s + 1) * segment_size > n
        BY <2>2
    <2> QED
        BY <1>0, <1>1, <1>4, <2>1, <2>3
<1> QED
    BY <1>1, <1>2, <1>3, <1>5, <1>6 DEF s, r, z

LEMMA SegStarts ==
    ASSUME NEW n \in Nat, n # 0, NEW s \in 0 .. LastSeg(n)
    PROVE  /\ s * segment_size < n /\ s \in Nat /\ LastSeg(n) \in Nat
           /\ s * segment_size \in Nat
<1>1. LastSeg(n) \in Nat /\ LastSeg(n) * segment_size \in Nat
      /\ LastSeg(n) * segment_size < n
    BY LastSegIs
<1>2. s \in Nat /\ s <= LastSeg(n)
    BY <1>1
<1>3. s * segment_size \in Nat /\ s * segment_size <= LastSeg(n) * segment_size
    BY <1>1, <1>2, Distribute
<1> QED
    BY <1>1, <1>2, <1>3
-----------------------------------------------------------------------------
(***************************************************************************)
(* The bytes of files, and what writing a page makes of them.              *)
(***************************************************************************)
MetaType == [last : Nat, total : Nat]
Bytes    == Values \cup {Zero, Short} \cup MetaType
PageType == [head : Bytes, body : Bytes]

\* Pages that are all there to their last byte.
AllWhole(pages) == \A i \in DOMAIN pages : pages[i].body # Short

Retitled(pages, h) == [pages EXCEPT ![1] = Page(h, pages[1].body)]

LEMMA PageTypes ==
    /\ ZeroPage \in PageType /\ ZeroPage.body # Short
    /\ \A v \in Values : Page(v, v) \in PageType /\ Page(v, v).body # Short
    /\ \A m \in MetaType : Page(m, Zero) \in PageType /\ Page(m, Zero).body # Short
    /\ \A m \in MetaType : Page(m, Short) \in PageType
    /\ \A m \in MetaType, g \in PageType : Page(m, g.body) \in PageType
    /\ \A m, g : Page(m, g.body).body = g.body
BY ValuesAssumption DEF ZeroPage, Page, PageType, Bytes

LEMMA WriteTypes ==
    ASSUME NEW file \in Seq(PageType), NEW p \in Nat, NEW page \in PageType
    PROVE  WritePage(file, p, page) \in Seq(PageType)
<1> DEFINE size == IF p < Len(file) THEN Len(file) ELSE p + 1
<1> DEFINE w == WritePage(file, p, page)
<1>1. size \in Nat /\ Len(file) \in Nat /\ DOMAIN file = 1 .. Len(file)
    OBVIOUS
<1>2. w = [i \in 1 .. size |->
              IF i = p + 1 THEN page
              ELSE IF i <= Len(file)
                THEN IF i < size /\ file[i].body = Short THEN Page(file[i].head, Zero) ELSE file[i]
                ELSE ZeroPage]
    BY DEF WritePage
<1>3. ASSUME NEW i \in 1 .. Len(file)
      PROVE  file[i] \in PageType /\ Page(file[i].head, Zero) \in PageType
    <2>1. file[i] \in PageType
        BY <1>1
    <2> QED
        BY <2>1 DEF PageType, Page, Bytes
<1> HIDE DEF size
<1>4. ASSUME NEW i \in 1 .. size PROVE w[i] \in PageType
    <2>1. i \in Nat /\ i >= 1 /\ (i <= Len(file) => i \in 1 .. Len(file))
        BY <1>1
    <2> QED
        BY <1>2, <1>3, <2>1, PageTypes
<1>5. w \in [1 .. size -> PageType]
    BY <1>2, <1>4
<1> QED
    BY <1>1, <1>5

LEMMA HeadTypes ==
    ASSUME NEW file \in Seq(PageType), NEW m \in MetaType
    PROVE  WriteHead(file, m) \in Seq(PageType)
<1>1. CASE file = <<>>
    BY <1>1, PageTypes DEF WriteHead
<1>2. CASE file # <<>>
    <2>1. 1 \in DOMAIN file /\ file[1] \in PageType
        BY <1>2
    <2>2. Page(m, file[1].body) \in PageType
        BY <2>1, PageTypes
    <2> QED
        BY <1>2, <2>1, <2>2 DEF WriteHead
<1> QED
    BY <1>1, <1>2

\* A write into a whole file, or right after it, changes one page.
LEMMA WriteInto ==
    ASSUME NEW file \in Seq(PageType), AllWhole(file), NEW p \in 0 .. Len(file), NEW page
    PROVE  WritePage(file, p, page) =
              [i \in 1 .. (IF p < Len(file) THEN Len(file) ELSE Len(file) + 1) |->
                  IF i = p + 1 THEN page ELSE file[i]]
<1> DEFINE size == IF p < Len(file) THEN Len(file) ELSE p + 1
<1>1. Len(file) \in Nat /\ p \in Nat /\ p <= Len(file) /\ DOMAIN file = 1 .. Len(file)
      /\ size = (IF p < Len(file) THEN Len(file) ELSE Len(file) + 1)
    OBVIOUS
<1>2. WritePage(file, p, page) =
          [i \in 1 .. size |->
              IF i = p + 1 THEN page
              ELSE IF i <= Len(file)
                THEN IF i < size /\ file[i].body = Short THEN Page(file[i].head, Zero) ELSE file[i]
                ELSE ZeroPage]
    BY DEF WritePage
<1>3. ASSUME NEW i \in 1 .. size, i # p + 1 PROVE i <= Len(file) /\ file[i].body # Short
    <2>1. i \in 1 .. Len(file)
        BY <1>1, <1>3
    <2> QED
        BY <1>1, <2>1 DEF AllWhole
<1> QED
    BY <1>1, <1>2, <1>3
-----------------------------------------------------------------------------
LEMMA SegmentIs ==
    ASSUME NEW pages \in Seq(PageType), AllWhole(pages), NEW s \in Nat,
           s * segment_size <= Len(pages)
    PROVE  LET g == Segment(pages, s)
           IN  /\ g \in Seq(PageType) /\ AllWhole(g)
               /\ Len(g) = SegLen(Len(pages), s) /\ DOMAIN g = 1 .. SegLen(Len(pages), s)
               /\ \A j \in 1 .. SegLen(Len(pages), s) :
                      g[j] = pages[s * segment_size + j] /\ s * segment_size + j \in DOMAIN pages
<1> DEFINE n == Len(pages)
<1> DEFINE l == SegLen(n, s)
<1> DEFINE g == Segment(pages, s)
<1>1. n \in Nat /\ DOMAIN pages = 1 .. n /\ s * segment_size \in Nat
    BY Distribute
<1>2. l \in Nat /\ s * segment_size + l <= n
    BY <1>1, SegLenIs
<1>3. g = [j \in 1 .. l |-> pages[s * segment_size + j]]
    BY DEF Segment
<1> HIDE DEF g, l, n
<1>4. ASSUME NEW j \in 1 .. l
      PROVE  s * segment_size + j \in DOMAIN pages
    BY <1>1, <1>2
<1>5. \A j \in 1 .. l : /\ pages[s * segment_size + j] \in PageType
                         /\ pages[s * segment_size + j].body # Short
    BY <1>1, <1>4 DEF AllWhole
<1>6. g \in [1 .. l -> PageType]
    BY <1>3, <1>5
<1>7. g \in Seq(PageType) /\ Len(g) = l /\ DOMAIN g = 1 .. l
    BY <1>2, <1>6
<1>8. AllWhole(g)
    BY <1>3, <1>5, <1>7 DEF AllWhole
<1> QED
    BY <1>3, <1>4, <1>7, <1>8 DEF g, l, n

\* A page more: it goes behind the last segment, which it may start.
LEMMA SegmentGrows ==
    ASSUME NEW pages \in Seq(PageType), AllWhole(pages), NEW page \in PageType
    PROVE  LET n == Len(pages)
               q == n \div segment_size
           IN  /\ WritePage(Segment(pages, q), n % segment_size, page)
                      = Segment(Append(pages, page), q)
               /\ \A s \in Nat : s < q => Segment(Append(pages, page), s) = Segment(pages, s)
<1> DEFINE n == Len(pages)
<1> DEFINE q == n \div segment_size
<1> DEFINE r == n % segment_size
<1> DEFINE more == Append(pages, page)
<1> DEFINE o == q * segment_size
<1>0. n \in Nat /\ DOMAIN pages = 1 .. n
    OBVIOUS
<1>1. /\ n \in Nat /\ DOMAIN pages = 1 .. n /\ q \in Nat /\ r \in Nat /\ r < segment_size
      /\ n = o + r
    <2> HIDE DEF n
    <2> QED
        BY <1>0, DivMod
<1>2. /\ Len(more) = n + 1 /\ more[n + 1] = page /\ \A i \in 1 .. n : more[i] = pages[i]
    OBVIOUS
<1>3. /\ o \in Nat /\ segment_size \in Nat
      /\ (q + 1) * segment_size = o + segment_size
    BY <1>1, Distribute, SegmentSizeAssumption
<1> HIDE DEF n, r, more, o, q
<1>4. SegLen(n, q) = r
    <2>1. o <= n /\ (q + 1) * segment_size > n /\ n - o = r
        BY <1>1, <1>3
    <2> QED
        BY <1>1, <2>1, SegLenIs DEF o
<1>5. SegLen(n + 1, q) = r + 1
    <2>1. n + 1 \in Nat /\ o <= n + 1 /\ n + 1 - o = r + 1
        BY <1>1, <1>3
    <2>2. CASE (q + 1) * segment_size > n + 1
        <3>1. PICK x \in Nat : x = n + 1
            BY <1>1
        <3>2. q * segment_size <= x /\ (q + 1) * segment_size > x
            BY <2>1, <2>2, <3>1 DEF o
        <3>3. SegLen(x, q) = x - q * segment_size
            BY <1>1, <3>2, SegLenIs
        <3>4. SegLen(x, q) = x - o
            BY <3>3 DEF o
        <3> QED
            BY <1>1, <1>3, <2>1, <3>1, <3>4
    <2>3. CASE (q + 1) * segment_size <= n + 1
        <3>1. SegLen(n + 1, q) = segment_size
            BY <1>1, <2>1, <2>3, SegLenIs DEF o
        <3> QED
            BY <1>1, <1>3, <2>3, <3>1
    <2> QED
        BY <1>1, <1>3, <2>2, <2>3
<1>6. WritePage(Segment(pages, q), r, page) = Segment(more, q)
    <2> DEFINE g == Segment(pages, q)
    <2>1. /\ g \in Seq(PageType) /\ AllWhole(g) /\ Len(g) = r
          /\ \A j \in 1 .. r : g[j] = pages[o + j] /\ o + j \in 1 .. n
        <3>1. q * segment_size <= Len(pages) /\ SegLen(Len(pages), q) = r
            BY <1>1, <1>3, <1>4 DEF o, n
        <3> QED
            BY <1>1, <3>1, SegmentIs DEF o
    <2> HIDE DEF g
    <2>2. WritePage(g, r, page) = [i \in 1 .. r + 1 |-> IF i = r + 1 THEN page ELSE g[i]]
        <3>1. r \in 0 .. Len(g) /\ ~(r < Len(g))
            BY <1>1, <2>1
        <3>2. WritePage(g, r, page) =
                  [i \in 1 .. (IF r < Len(g) THEN Len(g) ELSE Len(g) + 1) |->
                      IF i = r + 1 THEN page ELSE g[i]]
            BY <2>1, <3>1, WriteInto
        <3>3. (IF r < Len(g) THEN Len(g) ELSE Len(g) + 1) = r + 1
            BY <2>1, <3>1
        <3> QED
            BY <3>2, <3>3
    <2>3. Segment(more, q) = [j \in 1 .. r + 1 |-> more[o + j]]
        BY <1>2, <1>5 DEF Segment, o
    <2>4. ASSUME NEW j \in 1 .. r + 1
          PROVE  (IF j = r + 1 THEN page ELSE g[j]) = more[o + j]
        <3>1. CASE j = r + 1
            <4>1. o + j = n + 1
                BY <1>1, <1>3, <3>1
            <4> QED
                BY <1>2, <3>1, <4>1
        <3>2. CASE j # r + 1
            <4>1. j \in 1 .. r
                BY <1>1, <3>2
            <4> QED
                BY <1>2, <2>1, <3>2, <4>1
        <3> QED
            BY <3>1, <3>2
    <2> QED
        BY <2>2, <2>3, <2>4 DEF g
<1>7. ASSUME NEW s \in Nat, s < q PROVE Segment(more, s) = Segment(pages, s)
    <2>1. /\ s * segment_size \in Nat /\ (s + 1) * segment_size <= o
          /\ (s + 1) * segment_size = s * segment_size + segment_size
        BY <1>1, <1>7, Distribute DEF o
    <2>2. /\ s * segment_size <= n /\ (s + 1) * segment_size <= n
          /\ s * segment_size <= n + 1 /\ (s + 1) * segment_size <= n + 1 /\ n + 1 \in Nat
        BY <1>1, <1>3, <2>1
    <2>3. SegLen(n, s) = segment_size /\ SegLen(n + 1, s) = segment_size
        BY <1>1, <2>2, SegLenIs
    <2>4. \A j \in 1 .. segment_size : s * segment_size + j \in 1 .. n
        BY <1>1, <1>3, <2>1, <2>2
    <2>5. Segment(pages, s) = [j \in 1 .. segment_size |-> pages[s * segment_size + j]]
        BY <2>3 DEF Segment, n
    <2>6. Segment(more, s) = [j \in 1 .. segment_size |-> more[s * segment_size + j]]
        BY <1>2, <2>3 DEF Segment
    <2> QED
        BY <1>2, <2>4, <2>5, <2>6
<1> QED
    BY <1>6, <1>7 DEF n, q, r, more

\* A page written again.
LEMMA SegmentChanges ==
    ASSUME NEW pages \in Seq(PageType), AllWhole(pages), NEW page \in PageType,
           NEW p \in 0 .. Len(pages) - 1
    PROVE  LET q == p \div segment_size
               new == [pages EXCEPT ![p + 1] = page]
           IN  /\ WritePage(Segment(pages, q), p % segment_size, page) = Segment(new, q)
               /\ \A s \in Nat : s # q /\ s * segment_size <= Len(pages)
                                  => Segment(new, s) = Segment(pages, s)
<1> DEFINE n == Len(pages)
<1> DEFINE q == p \div segment_size
<1> DEFINE r == p % segment_size
<1> DEFINE new == [pages EXCEPT ![p + 1] = page]
<1> DEFINE o == q * segment_size
<1>0. n \in Nat /\ DOMAIN pages = 1 .. n /\ p \in Nat /\ p < n
    OBVIOUS
<1>1. /\ n \in Nat /\ DOMAIN pages = 1 .. n /\ p \in Nat /\ p < n
      /\ q \in Nat /\ r \in Nat /\ r < segment_size /\ p = o + r
    BY <1>0, DivMod
<1>2. /\ new \in Seq(PageType) /\ Len(new) = n /\ new[p + 1] = page
      /\ \A i \in 1 .. n : i # p + 1 => new[i] = pages[i]
    BY <1>1
<1>3. o \in Nat /\ segment_size \in Nat /\ o <= n /\ r + 1 \in 1 .. SegLen(n, q)
    BY <1>1, Distribute, SegmentSizeAssumption, PagePlace
<1> HIDE DEF n, r, new, o, q
<1>6. WritePage(Segment(pages, q), r, page) = Segment(new, q)
    <2> DEFINE g == Segment(pages, q)
    <2> DEFINE l == SegLen(n, q)
    <2>1. /\ g \in Seq(PageType) /\ AllWhole(g) /\ Len(g) = l
          /\ \A j \in 1 .. l : g[j] = pages[o + j] /\ o + j \in 1 .. n
        BY <1>1, <1>3, SegmentIs DEF o, n
    <2>0. l \in Nat
        BY <2>1
    <2> HIDE DEF g, l
    <2>2. WritePage(g, r, page) = [i \in 1 .. l |-> IF i = r + 1 THEN page ELSE g[i]]
        <3>1. r \in 0 .. Len(g) /\ r < Len(g)
            BY <1>1, <1>3, <2>0, <2>1 DEF l
        <3> QED
            BY <2>1, <3>1, WriteInto
    <2>3. Segment(new, q) = [j \in 1 .. l |-> new[o + j]]
        BY <1>2 DEF Segment, o, l
    <2>4. ASSUME NEW j \in 1 .. l
          PROVE  (IF j = r + 1 THEN page ELSE g[j]) = new[o + j]
        <3>1. CASE j = r + 1
            <4>1. o + j = p + 1
                BY <1>1, <1>3, <3>1
            <4> QED
                BY <1>2, <3>1, <4>1
        <3>2. CASE j # r + 1
            <4>1. o + j # p + 1
                BY <1>1, <1>3, <2>0, <3>2
            <4> QED
                BY <1>2, <2>1, <3>2, <4>1
        <3> QED
            BY <3>1, <3>2
    <2> QED
        BY <2>2, <2>3, <2>4 DEF g
<1>7. ASSUME NEW s \in Nat, s # q, s * segment_size <= n
      PROVE  Segment(new, s) = Segment(pages, s)
    <2> DEFINE l == SegLen(n, s)
    <2> DEFINE b == s * segment_size
    <2>1. /\ b \in Nat /\ l \in Nat /\ l <= segment_size
          /\ \A j \in 1 .. l : b + j \in 1 .. n
        BY <1>1, <1>7, Distribute, SegLenIs, SegmentIs DEF n
    <2>2. b + segment_size <= o \/ o + segment_size <= b
        <3>1. s < q => (s + 1) * segment_size <= o /\ (s + 1) * segment_size = b + segment_size
            BY <1>1, Distribute DEF o
        <3>2. q < s => (q + 1) * segment_size <= b /\ (q + 1) * segment_size = o + segment_size
            BY <1>1, Distribute DEF o
        <3> QED
            BY <1>1, <1>7, <3>1, <3>2
    <2> HIDE DEF b
    <2>3. \A j \in 1 .. l : b + j # p + 1
        BY <1>1, <1>3, <2>1, <2>2
    <2>5. Segment(pages, s) = [j \in 1 .. l |-> pages[b + j]]
        BY DEF Segment, n, b
    <2>6. Segment(new, s) = [j \in 1 .. l |-> new[b + j]]
        BY <1>2 DEF Segment, b
    <2> HIDE DEF l
    <2> QED
        BY <1>2, <2>1, <2>3, <2>5, <2>6
<1> QED
    BY <1>6, <1>7 DEF n, q, r, new

\* The metadata written to page 0.
LEMMA SegmentRetitled ==
    ASSUME NEW pages \in Seq(PageType), AllWhole(pages), pages # <<>>, NEW m \in MetaType
    PROVE  /\ Retitled(pages, m) \in Seq(PageType) /\ AllWhole(Retitled(pages, m))
           /\ Len(Retitled(pages, m)) = Len(pages)
           /\ WriteHead(Segment(pages, 0), m) = Segment(Retitled(pages, m), 0)
           /\ \A s \in Nat : s # 0 /\ s * segment_size <= Len(pages)
                              => Segment(Retitled(pages, m), s) = Segment(pages, s)
<1> DEFINE page == Page(m, pages[1].body)
<1> DEFINE new == Retitled(pages, m)
<1>1. Len(pages) \in Nat /\ 1 \in DOMAIN pages /\ DOMAIN pages = 1 .. Len(pages)
      /\ pages[1] \in PageType /\ 0 \in 0 .. Len(pages) - 1 /\ pages[1].body # Short
    BY DEF AllWhole
<1>2. page \in PageType /\ page.body # Short
    BY <1>1, PageTypes
<1> HIDE DEF page
<1>z. PICK z \in 0 .. Len(pages) - 1 : z = 0
    BY <1>1
<1>3. new = [pages EXCEPT ![z + 1] = page]
    BY <1>z DEF Retitled, page
<1>4. new \in Seq(PageType) /\ AllWhole(new) /\ Len(new) = Len(pages)
    BY <1>1, <1>2, <1>3, <1>z DEF AllWhole
<1>5. 0 \div segment_size = 0 /\ 0 % segment_size = 0
    BY SegmentSizeAssumption
<1>6. /\ WritePage(Segment(pages, 0), 0, page) = Segment(new, 0)
      /\ \A s \in Nat : s # 0 /\ s * segment_size <= Len(pages)
                         => Segment(new, s) = Segment(pages, s)
    <2> HIDE DEF new
    <2>1. z \div segment_size = 0 /\ z % segment_size = 0
        BY <1>z, <1>5
    <2> QED
        BY <1>2, <1>3, <2>1, SegmentChanges
<1> HIDE DEF new
<1>7. WriteHead(Segment(pages, 0), m) = WritePage(Segment(pages, 0), 0, page)
    <2> DEFINE g == Segment(pages, 0)
    <2>1. 0 * segment_size = 0 /\ 0 \in Nat
        BY SegmentSizeAssumption
    <2>2. 1 \in 1 .. SegLen(Len(pages), 0)
        BY <1>1, <1>5, PagePlace
    <2>3. g \in Seq(PageType) /\ AllWhole(g) /\ 1 \in DOMAIN g /\ g[1] = pages[1]
          /\ Len(g) > 0 /\ DOMAIN g = 1 .. Len(g)
        BY <1>1, <2>1, <2>2, SegmentIs
    <2> HIDE DEF g
    <2>4. WritePage(g, 0, page) = [i \in 1 .. Len(g) |-> IF i = 1 THEN page ELSE g[i]]
        BY <2>3, WriteInto
    <2>5. WriteHead(g, m) = [g EXCEPT ![1] = page]
        BY <2>3 DEF WriteHead, page
    <2> QED
        BY <2>3, <2>4, <2>5 DEF g
<1> QED
    BY <1>4, <1>6, <1>7 DEF new
-----------------------------------------------------------------------------
(***************************************************************************)
(* What always holds of a file system and of an engine, and what holds of  *)
(* a sound table.                                                          *)
(***************************************************************************)
OpenKeys(e) == DOMAIN e.cache.filecache_

\* Each name has a file of its own and lies in a directory that is there.
DiskOK(fs) ==
    /\ fs.dirs \subseteq Tables /\ IsFiniteSet(fs.dirs)
    /\ DOMAIN fs.names \subseteq Keys /\ IsFiniteSet(DOMAIN fs.names)
    /\ \A n \in DOMAIN fs.names : /\ n = <<n[1], n[2]>> /\ n[1] \in fs.dirs
                                  /\ fs.names[n] \in DOMAIN fs.data
    /\ \A m, n \in DOMAIN fs.names : m # n => fs.names[m] # fs.names[n]
    /\ DOMAIN fs.data \subseteq FileIds
    /\ \A i \in DOMAIN fs.data : fs.data[i] \in Seq(PageType)

HasCache(c) == \E s : Represents(c, s) /\ Len(s) <= max_size_

\* A cached file is not the file of any other name.
CacheOK(e) ==
    /\ HasCache(e.cache)
    /\ \A k \in OpenKeys(e) : FileOf(e.cache, k) \in DOMAIN e.fs.data
    /\ \A k \in OpenKeys(e), n \in DOMAIN e.fs.names :
           n # k => FileOf(e.cache, k) # e.fs.names[n]

MetaOK(meta) == /\ DOMAIN meta \subseteq Tables /\ IsFiniteSet(DOMAIN meta)
                /\ \A t \in DOMAIN meta : meta[t] \in MetaType

\* Every file has a name or is open.
NoneAdrift(e) ==
    DOMAIN e.fs.data \subseteq {e.fs.names[n] : n \in DOMAIN e.fs.names}
                               \cup {FileOf(e.cache, k) : k \in OpenKeys(e)}

EngineOK(e) == DiskOK(e.fs) /\ CacheOK(e) /\ MetaOK(e.meta) /\ NoneAdrift(e)

\* The files of table t hold exactly these pages.
OnDisk(fs, t, pages) ==
    /\ t \in fs.dirs
    /\ pages \in Seq(PageType) /\ pages # <<>> /\ AllWhole(pages)
    /\ \A s : <<t, s>> \in DOMAIN fs.names <=> s \in 0 .. LastSeg(Len(pages))
    /\ \A s \in 0 .. LastSeg(Len(pages)) : fs.data[fs.names[<<t, s>>]] = Segment(pages, s)

\* The open files of t are the ones its names lead to.
OpenRight(e, t) ==
    \A k \in OpenKeys(e) :
        k[1] = t => k \in DOMAIN e.fs.names /\ FileOf(e.cache, k) = e.fs.names[k]

TableOK(e, t, pages) == OnDisk(e.fs, t, pages) /\ OpenRight(e, t)
-----------------------------------------------------------------------------
LEMMA CacheGet ==
    ASSUME NEW c, HasCache(c), NEW k \in DOMAIN c.filecache_
    PROVE  /\ HasCache(get(c, k)) /\ DOMAIN get(c, k).filecache_ = DOMAIN c.filecache_
           /\ \A j \in DOMAIN c.filecache_ : FileOf(get(c, k), j) = FileOf(c, j)
<1>1. PICK s : Represents(c, s) /\ Len(s) <= max_size_
    BY DEF HasCache
<1>2. PICK i \in DOMAIN s : s[i] = k
    BY <1>1 DEF Represents
<1>3. /\ Represents(get(c, k), Moved(s, i))
      /\ DOMAIN get(c, k).filecache_ = DOMAIN c.filecache_
      /\ SameFiles(c, get(c, k), DOMAIN c.filecache_)
    BY <1>1, <1>2, GetRepresents
<1>4. Len(Moved(s, i)) = Len(s)
    <2>1. Moved(s, i) \in Seq(Keys) /\ s \in Seq(Keys)
        BY <1>1, <1>3 DEF Represents
    <2>2. DOMAIN Moved(s, i) = DOMAIN s
        BY DEF Moved
    <2> QED
        BY <2>1, <2>2
<1> QED
    BY <1>1, <1>3, <1>4 DEF HasCache, SameFiles

LEMMA CachePut ==
    ASSUME NEW c, HasCache(c), NEW k \in Keys, k \notin DOMAIN c.filecache_, NEW f
    PROVE  LET d == put(c, k, f)
           IN  /\ HasCache(d) /\ k \in DOMAIN d.filecache_ /\ FileOf(d, k) = f
               /\ \A j \in DOMAIN d.filecache_ :
                      j # k => j \in DOMAIN c.filecache_ /\ FileOf(d, j) = FileOf(c, j)
<1>1. PICK s : Represents(c, s) /\ Len(s) <= max_size_
    BY DEF HasCache
<1>2. s \in Seq(Keys) /\ Len(s) \in Nat /\ c.size_ = Len(s) /\ max_size_ \in Nat \ {0}
    BY <1>1, MaxSizeAssumption DEF Represents
<1> DEFINE b == IF c.size_ = max_size_ THEN Evict(c) ELSE c
<1>3. put(c, k, f) = Add(b, k, f)
    BY DEF put, exists
<1>4. \E u : /\ Represents(b, u) /\ Len(u) < max_size_
             /\ DOMAIN b.filecache_ \subseteq DOMAIN c.filecache_
             /\ \A j \in DOMAIN b.filecache_ : FileOf(b, j) = FileOf(c, j)
    <2>1. CASE c.size_ = max_size_
        <3>0. Len(s) > 0 /\ b = Evict(c)
            BY <1>2, <2>1
        <3> HIDE DEF b
        <3>1. /\ Represents(b, SubSeq(s, 1, Len(s) - 1))
              /\ DOMAIN b.filecache_ = DOMAIN c.filecache_ \ {s[Len(s)]}
              /\ SameFiles(c, b, DOMAIN c.filecache_ \ {s[Len(s)]})
            BY <1>1, <3>0, EvictRepresents
        <3>2. Len(SubSeq(s, 1, Len(s) - 1)) < max_size_
            BY <1>2, <2>1
        <3> QED
            BY <3>1, <3>2 DEF SameFiles
    <2>2. CASE c.size_ # max_size_
        BY <1>1, <1>2, <2>2
    <2> QED
        BY <2>1, <2>2
<1> HIDE DEF b
<1>5. PICK u : /\ Represents(b, u) /\ Len(u) < max_size_
               /\ DOMAIN b.filecache_ \subseteq DOMAIN c.filecache_
               /\ \A j \in DOMAIN b.filecache_ : FileOf(b, j) = FileOf(c, j)
    BY <1>4
<1>6. /\ Represents(Add(b, k, f), <<k>> \o u)
      /\ DOMAIN Add(b, k, f).filecache_ = DOMAIN b.filecache_ \cup {k}
      /\ FileOf(Add(b, k, f), k) = f
      /\ SameFiles(b, Add(b, k, f), DOMAIN b.filecache_)
    BY <1>5, AddRepresents
<1>7. Len(<<k>> \o u) <= max_size_
    <2>1. u \in Seq(Keys) /\ Len(u) \in Nat
        BY <1>5 DEF Represents
    <2>2. Len(<<k>> \o u) = Len(u) + 1
        BY <2>1
    <2> QED
        BY <1>2, <1>5, <2>1, <2>2
<1>8. HasCache(put(c, k, f))
    BY <1>3, <1>6, <1>7 DEF HasCache
<1> QED
    BY <1>3, <1>5, <1>6, <1>8 DEF SameFiles

LEMMA CacheEmpty == HasCache(EmptyCache) /\ DOMAIN EmptyCache.filecache_ = {}
<1>1. Len(<<>>) <= max_size_
    BY MaxSizeAssumption
<1> QED
    BY <1>1, EmptyRepresents DEF HasCache, EmptyCache

\* The open files are at most max_size_ many.
LEMMA FewOpen ==
    ASSUME NEW c, HasCache(c)
    PROVE  LET F == {FileOf(c, k) : k \in DOMAIN c.filecache_}
           IN  IsFiniteSet(F) /\ Cardinality(F) \in Nat /\ Cardinality(F) <= max_size_
<1> DEFINE F == {FileOf(c, k) : k \in DOMAIN c.filecache_}
<1>1. PICK s : Represents(c, s) /\ Len(s) <= max_size_
    BY DEF HasCache
<1>2. s \in Seq(Keys) /\ Len(s) \in Nat /\ max_size_ \in Nat /\ DOMAIN s = 1 .. Len(s)
      /\ DOMAIN c.filecache_ = {s[i] : i \in 1 .. Len(s)}
    BY <1>1, MaxSizeAssumption DEF Represents
<1> DEFINE g == [i \in 1 .. Len(s) |-> FileOf(c, s[i])]
<1>3. g \in Surjection(1 .. Len(s), F)
    BY <1>2 DEF Surjection
<1>4. IsFiniteSet(1 .. Len(s)) /\ Cardinality(1 .. Len(s)) = Len(s)
    BY <1>2, FS_Interval
<1> HIDE DEF F, g
<1>5. IsFiniteSet(F) /\ Cardinality(F) <= Len(s)
    BY <1>3, <1>4, FS_Surjection
<1>6. Cardinality(F) \in Nat
    BY <1>5, FS_CardinalityType
<1> QED
    BY <1>1, <1>2, <1>5, <1>6 DEF F

LEMMA NewFileIs ==
    ASSUME NEW e, EngineOK(e)
    PROVE  NewFile(e.fs) \in FileIds /\ NewFile(e.fs) \notin DOMAIN e.fs.data
<1> DEFINE N == {e.fs.names[n] : n \in DOMAIN e.fs.names}
<1> DEFINE F == {FileOf(e.cache, k) : k \in DOMAIN e.cache.filecache_}
<1> DEFINE D == DOMAIN e.fs.data
<1>1. IsFiniteSet(F) /\ Cardinality(F) \in Nat /\ Cardinality(F) <= max_size_
    BY FewOpen DEF EngineOK, CacheOK
<1>2. IsFiniteSet(N) /\ Cardinality(N) <= Cardinality(DOMAIN e.fs.names)
    <2> DEFINE g == [n \in DOMAIN e.fs.names |-> e.fs.names[n]]
    <2>1. g \in Surjection(DOMAIN e.fs.names, N)
        BY DEF Surjection
    <2>2. IsFiniteSet(DOMAIN e.fs.names)
        BY DEF EngineOK, DiskOK
    <2> HIDE DEF g, N
    <2> QED
        BY <2>1, <2>2, FS_Surjection
<1>3. D \subseteq N \cup F
    BY DEF EngineOK, NoneAdrift, OpenKeys
<1> HIDE DEF N, F
<1>4. /\ IsFiniteSet(N \cup F)
      /\ Cardinality(N \cup F) <= Cardinality(N) + Cardinality(F)
      /\ Cardinality(N) \in Nat
    <2>1. IsFiniteSet(N \cap F) /\ Cardinality(N \cap F) \in Nat
        BY <1>1, FS_Intersection, FS_CardinalityType
    <2>2. Cardinality(N) \in Nat
        BY <1>2, FS_CardinalityType
    <2>3. /\ IsFiniteSet(N \cup F)
          /\ Cardinality(N \cup F) = Cardinality(N) + Cardinality(F) - Cardinality(N \cap F)
        BY <1>1, <1>2, FS_Union
    <2> QED
        BY <1>1, <2>1, <2>2, <2>3
<1>5. IsFiniteSet(D) /\ Cardinality(D) <= Cardinality(N \cup F) /\ Cardinality(D) \in Nat
      /\ Cardinality(N \cup F) \in Nat
    BY <1>3, <1>4, FS_Subset, FS_CardinalityType
<1> HIDE DEF D
<1>6. ~(FileIds \subseteq D)
    <2> SUFFICES ASSUME FileIds \subseteq D PROVE FALSE
        OBVIOUS
    <2>1. IsFiniteSet(FileIds) /\ Cardinality(FileIds) <= Cardinality(D)
        BY <1>5, FS_Subset
    <2>2. IsFiniteSet(Keys) /\ Cardinality(FileIds) > Cardinality(Keys) + max_size_
        BY <2>1, FileIdsAssumption
    <2>3. Cardinality(DOMAIN e.fs.names) <= Cardinality(Keys)
        BY <2>2, FS_Subset DEF EngineOK, DiskOK
    <2>4. /\ Cardinality(FileIds) \in Nat /\ Cardinality(Keys) \in Nat /\ max_size_ \in Nat
          /\ Cardinality(DOMAIN e.fs.names) \in Nat
        BY <2>1, <2>2, FS_CardinalityType, MaxSizeAssumption DEF EngineOK, DiskOK
    <2> QED
        BY <1>1, <1>2, <1>4, <1>5, <2>1, <2>2, <2>3, <2>4
<1>7. \E i \in FileIds : i \notin DOMAIN e.fs.data
    BY <1>6 DEF D
<1> QED
    BY <1>7, Zenon DEF NewFile
-----------------------------------------------------------------------------
LEMMA EngineFields ==
    /\ \A e, fs : /\ WithFS(e, fs).fs = fs /\ WithFS(e, fs).meta = e.meta
                  /\ WithFS(e, fs).cache = e.cache
    /\ \A e, c : /\ WithCache(e, c).fs = e.fs /\ WithCache(e, c).meta = e.meta
                 /\ WithCache(e, c).cache = c
    /\ \A e, t, m : /\ WithMeta(e, t, m).fs = e.fs
                    /\ WithMeta(e, t, m).meta = Bind(e.meta, t, m)
                    /\ WithMeta(e, t, m).cache = e.cache
BY DEF WithFS, WithCache, WithMeta

LEMMA DiskFields ==
    /\ \A fs, dirs : /\ WithDirs(fs, dirs).dirs = dirs /\ WithDirs(fs, dirs).names = fs.names
                     /\ WithDirs(fs, dirs).data = fs.data
    /\ \A fs, names, data : /\ WithFiles(fs, names, data).dirs = fs.dirs
                            /\ WithFiles(fs, names, data).names = names
                            /\ WithFiles(fs, names, data).data = data
BY DEF WithDirs, WithFiles

\* The system frees files that nobody reaches, and no other.
LEMMA FreedIs ==
    ASSUME NEW fs, DiskOK(fs), NEW used
    PROVE  LET g == Freed(fs, used)
           IN  /\ DiskOK(g) /\ g.dirs = fs.dirs /\ g.names = fs.names
               /\ DOMAIN g.data = DOMAIN fs.data \cap
                                      (used \cup {fs.names[n] : n \in DOMAIN fs.names})
               /\ \A i \in DOMAIN g.data : g.data[i] = fs.data[i]
<1> DEFINE g == Freed(fs, used)
<1> DEFINE R == DOMAIN fs.data \cap (used \cup {fs.names[n] : n \in DOMAIN fs.names})
<1>1. g.dirs = fs.dirs /\ g.names = fs.names /\ g.data = [i \in R |-> fs.data[i]]
    BY DiskFields DEF Freed, Restrict
<1>2. DOMAIN g.data = R /\ \A i \in R : g.data[i] = fs.data[i]
    BY <1>1
<1>3. \A n \in DOMAIN fs.names : fs.names[n] \in R
    BY DEF DiskOK
<1>4. R \subseteq DOMAIN fs.data
    OBVIOUS
<1> HIDE DEF g, R
<1>5. DiskOK(g)
    BY <1>1, <1>2, <1>3, <1>4 DEF DiskOK
<1> QED
    BY <1>1, <1>2, <1>5 DEF g, R

LEMMA TidyIs ==
    ASSUME NEW e, DiskOK(e.fs), CacheOK(e), MetaOK(e.meta)
    PROVE  LET f == Tidy(e)
           IN  /\ EngineOK(f) /\ f.fs.dirs = e.fs.dirs /\ f.fs.names = e.fs.names
               /\ f.cache = e.cache /\ f.meta = e.meta
               /\ DOMAIN f.fs.data \subseteq DOMAIN e.fs.data
               /\ \A n \in DOMAIN e.fs.names : e.fs.names[n] \in DOMAIN f.fs.data
               /\ \A k \in OpenKeys(e) : FileOf(e.cache, k) \in DOMAIN f.fs.data
               /\ \A i \in DOMAIN f.fs.data : f.fs.data[i] = e.fs.data[i]
<1> DEFINE F == {FileOf(e.cache, k) : k \in OpenKeys(e)}
<1> DEFINE f == Tidy(e)
<1>1. f.fs = Freed(e.fs, F) /\ f.meta = e.meta /\ f.cache = e.cache
    BY EngineFields DEF Tidy, OpenKeys
<1> HIDE DEF f
<1>2. /\ DiskOK(f.fs) /\ f.fs.dirs = e.fs.dirs /\ f.fs.names = e.fs.names
      /\ DOMAIN f.fs.data = DOMAIN e.fs.data \cap
                               (F \cup {e.fs.names[n] : n \in DOMAIN e.fs.names})
      /\ \A i \in DOMAIN f.fs.data : f.fs.data[i] = e.fs.data[i]
    BY <1>1, FreedIs
<1>3. \A n \in DOMAIN e.fs.names : e.fs.names[n] \in DOMAIN f.fs.data
    BY <1>2 DEF DiskOK
<1>4. \A k \in OpenKeys(e) : FileOf(e.cache, k) \in DOMAIN f.fs.data
    BY <1>2 DEF CacheOK
<1>5. OpenKeys(f) = OpenKeys(e)
    BY <1>1 DEF OpenKeys
<1>6. CacheOK(f)
    BY <1>1, <1>2, <1>4, <1>5 DEF CacheOK
<1>7. NoneAdrift(f)
    BY <1>1, <1>2, <1>5 DEF NoneAdrift
<1> QED
    BY <1>1, <1>2, <1>3, <1>4, <1>6, <1>7 DEF EngineOK, f

\* open() of a file: a new one is empty and nobody else's.
LEMMA OpenFileIs ==
    ASSUME NEW fs, DiskOK(fs), NEW t \in fs.dirs, NEW s, <<t, s>> \in Keys,
           NewFile(fs) \in FileIds, NewFile(fs) \notin DOMAIN fs.data
    PROVE  LET g == OpenFile(fs, t, s)
           IN  /\ DiskOK(g) /\ g.dirs = fs.dirs
               /\ DOMAIN g.names = DOMAIN fs.names \cup {<<t, s>>}
               /\ \A n \in DOMAIN fs.names : g.names[n] = fs.names[n]
               /\ DOMAIN fs.data \subseteq DOMAIN g.data
               /\ \A i \in DOMAIN fs.data : g.data[i] = fs.data[i]
               /\ <<t, s>> \notin DOMAIN fs.names =>
                      /\ g.names[<<t, s>>] \notin DOMAIN fs.data
                      /\ g.data[g.names[<<t, s>>]] = <<>>
<1> DEFINE k == <<t, s>>
<1> DEFINE i == NewFile(fs)
<1> DEFINE g == OpenFile(fs, t, s)
<1>1. CASE k \in DOMAIN fs.names
    <2>1. g = fs /\ DOMAIN fs.names = DOMAIN fs.names \cup {k}
        BY <1>1 DEF OpenFile, seg_exists
    <2> HIDE DEF g
    <2> QED
        BY <1>1, <2>1 DEF g
<1>2. CASE k \notin DOMAIN fs.names
    <2>1. /\ g.dirs = fs.dirs
          /\ g.names = [n \in DOMAIN fs.names \cup {k} |-> IF n = k THEN i ELSE fs.names[n]]
          /\ g.data = [j \in DOMAIN fs.data \cup {i} |-> IF j = i THEN <<>> ELSE fs.data[j]]
        BY <1>2, DiskFields DEF OpenFile, seg_exists
    <2> HIDE DEF g, i
    <2>0. i \in FileIds /\ i \notin DOMAIN fs.data
        BY DEF i
    <2>2. /\ DOMAIN g.names = DOMAIN fs.names \cup {k} /\ g.names[k] = i
          /\ \A n \in DOMAIN fs.names : g.names[n] = fs.names[n]
        BY <1>2, <2>1
    <2>3. /\ DOMAIN g.data = DOMAIN fs.data \cup {i} /\ g.data[i] = <<>>
          /\ \A j \in DOMAIN fs.data : g.data[j] = fs.data[j]
        BY <2>0, <2>1
    <2>4. k = <<k[1], k[2]>> /\ k[1] \in fs.dirs /\ k \in Keys
        OBVIOUS
    <2> HIDE DEF k
    <2>5. DOMAIN g.names \subseteq Keys /\ IsFiniteSet(DOMAIN g.names)
        <3>1. DOMAIN fs.names \subseteq Keys /\ IsFiniteSet(DOMAIN fs.names)
            BY DEF DiskOK
        <3>2. IsFiniteSet(DOMAIN fs.names \cup {k})
            BY <3>1, FS_AddElement
        <3> QED
            BY <2>2, <2>4, <3>1, <3>2
    <2>6. \A n \in DOMAIN g.names : /\ n = <<n[1], n[2]>> /\ n[1] \in fs.dirs
                                    /\ g.names[n] \in DOMAIN g.data
        BY <2>2, <2>3, <2>4 DEF DiskOK
    <2>7. \A m, n \in DOMAIN g.names : m # n => g.names[m] # g.names[n]
        BY <2>0, <2>2 DEF DiskOK
    <2>8. DOMAIN g.data \subseteq FileIds
        BY <2>0, <2>3 DEF DiskOK
    <2>9. \A j \in DOMAIN g.data : g.data[j] \in Seq(PageType)
        <3>1. <<>> \in Seq(PageType)
            OBVIOUS
        <3>2. \A j \in DOMAIN fs.data : fs.data[j] \in Seq(PageType)
            BY DEF DiskOK
        <3> QED
            BY <2>3, <3>1, <3>2
    <2>10. DiskOK(g)
        BY <2>1, <2>5, <2>6, <2>7, <2>8, <2>9 DEF DiskOK
    <2> QED
        BY <1>2, <2>0, <2>1, <2>2, <2>3, <2>10 DEF g, k
<1> QED
    BY <1>1, <1>2
-----------------------------------------------------------------------------
\* What opening segment k makes of engine e: file i is in hand and in the
\* cache, another file may have left it, and nothing that has a name changed.
Opens(e, f, k, i) ==
    /\ EngineOK(f) /\ f.meta = e.meta /\ f.fs.dirs = e.fs.dirs
    /\ DOMAIN e.fs.names \subseteq DOMAIN f.fs.names
    /\ DOMAIN f.fs.names \subseteq DOMAIN e.fs.names \cup {k}
    /\ \A n \in DOMAIN e.fs.names : /\ f.fs.names[n] = e.fs.names[n]
                                    /\ f.fs.data[f.fs.names[n]] = e.fs.data[e.fs.names[n]]
    /\ k \in OpenKeys(f) /\ FileOf(f.cache, k) = i
    /\ \A j \in OpenKeys(f) :
           j # k => j \in OpenKeys(e) /\ FileOf(f.cache, j) = FileOf(e.cache, j)
    /\ k \in OpenKeys(e) => i = FileOf(e.cache, k) /\ DOMAIN f.fs.names = DOMAIN e.fs.names
    /\ k \notin OpenKeys(e) => k \in DOMAIN f.fs.names /\ i = f.fs.names[k]
    /\ k \notin OpenKeys(e) /\ k \notin DOMAIN e.fs.names => f.fs.data[i] = <<>>

LEMMA OpenCached ==
    ASSUME NEW e, EngineOK(e), NEW t, NEW s, <<t, s>> \in OpenKeys(e)
    PROVE  LET r == open_segment(e, t, s)
           IN  r.out = "ok" /\ Opens(e, r.e, <<t, s>>, r.file)
<1> DEFINE k == <<t, s>>
<1> DEFINE r == open_segment(e, t, s)
<1> DEFINE f == WithCache(e, get(e.cache, k))
<1>1. r = InHand(f, FileOf(e.cache, k))
    BY DEF open_segment, exists, OpenKeys
<1>2. r.out = "ok" /\ r.e = f /\ r.file = FileOf(e.cache, k)
    BY <1>1 DEF InHand
<1>3. f.fs = e.fs /\ f.meta = e.meta /\ f.cache = get(e.cache, k)
    BY EngineFields
<1> HIDE DEF f, r, k
<1>4. /\ HasCache(f.cache) /\ OpenKeys(f) = OpenKeys(e)
      /\ \A j \in OpenKeys(e) : FileOf(f.cache, j) = FileOf(e.cache, j)
    BY <1>3, CacheGet DEF EngineOK, CacheOK, OpenKeys, k
<1>5. CacheOK(f)
    BY <1>3, <1>4 DEF EngineOK, CacheOK
<1>6. NoneAdrift(f)
    BY <1>3, <1>4 DEF EngineOK, NoneAdrift
<1>7. EngineOK(f)
    BY <1>3, <1>5, <1>6 DEF EngineOK
<1>8. k \in OpenKeys(e)
    BY DEF k
<1>9. Opens(e, f, k, r.file)
    BY <1>2, <1>3, <1>4, <1>7, <1>8 DEF Opens
<1> QED
    BY <1>2, <1>9 DEF r, k

LEMMA OpenUncached ==
    ASSUME NEW e, EngineOK(e), NEW t, NEW s, <<t, s>> \in Keys,
           <<t, s>> \notin OpenKeys(e), t \in e.fs.dirs
    PROVE  LET r == open_segment(e, t, s)
           IN  r.out = "ok" /\ Opens(e, r.e, <<t, s>>, r.file)
<1> DEFINE k == <<t, s>>
<1> DEFINE fs == OpenFile(e.fs, t, s)
<1> DEFINE i == fs.names[k]
<1> DEFINE c == put(e.cache, k, i)
<1> DEFINE d == get(c, k)
<1> DEFINE h == WithCache(WithFS(e, fs), d)
<1> DEFINE f == Tidy(h)
<1> DEFINE r == open_segment(e, t, s)
<1>1. r = InHand(f, i)
    BY DEF open_segment, exists, OpenKeys, dir_exists
<1>2. r.out = "ok" /\ r.e = f /\ r.file = i
    BY <1>1 DEF InHand
<1>3. h.fs = fs /\ h.meta = e.meta /\ h.cache = d
    BY EngineFields
<1>4. NewFile(e.fs) \in FileIds /\ NewFile(e.fs) \notin DOMAIN e.fs.data /\ DiskOK(e.fs)
    BY NewFileIs DEF EngineOK
<1>5. /\ DiskOK(fs) /\ fs.dirs = e.fs.dirs
      /\ DOMAIN fs.names = DOMAIN e.fs.names \cup {k}
      /\ \A n \in DOMAIN e.fs.names : fs.names[n] = e.fs.names[n]
      /\ DOMAIN e.fs.data \subseteq DOMAIN fs.data
      /\ \A j \in DOMAIN e.fs.data : fs.data[j] = e.fs.data[j]
      /\ k \notin DOMAIN e.fs.names => i \notin DOMAIN e.fs.data /\ fs.data[i] = <<>>
    BY <1>4, OpenFileIs
<1> HIDE DEF f, h, d, c, fs, r
<1>6. /\ HasCache(c) /\ k \in DOMAIN c.filecache_ /\ FileOf(c, k) = i
      /\ \A j \in DOMAIN c.filecache_ :
             j # k => j \in DOMAIN e.cache.filecache_ /\ FileOf(c, j) = FileOf(e.cache, j)
    BY CachePut DEF c, EngineOK, CacheOK, OpenKeys
<1>7. /\ HasCache(d) /\ DOMAIN d.filecache_ = DOMAIN c.filecache_
      /\ \A j \in DOMAIN c.filecache_ : FileOf(d, j) = FileOf(c, j)
    BY <1>6, CacheGet DEF d
<1>k. k \in Keys /\ k \notin OpenKeys(e)
    OBVIOUS
<1> HIDE DEF k, i
<1>8. /\ k \in OpenKeys(h) /\ FileOf(h.cache, k) = i
      /\ \A j \in OpenKeys(h) :
             j # k => j \in OpenKeys(e) /\ FileOf(h.cache, j) = FileOf(e.cache, j)
    BY <1>3, <1>6, <1>7 DEF OpenKeys
<1>9. i = fs.names[k] /\ i \in DOMAIN fs.data
    <2>1. i = fs.names[k] /\ k \in DOMAIN fs.names
        BY <1>5 DEF i
    <2> QED
        BY <1>5, <2>1 DEF DiskOK
<1>10. CacheOK(h)
    <2>1. \A j \in OpenKeys(h) : FileOf(h.cache, j) \in DOMAIN fs.data
        BY <1>5, <1>8, <1>9 DEF EngineOK, CacheOK
    <2>2. ASSUME NEW j \in OpenKeys(h), NEW n \in DOMAIN fs.names, n # j
          PROVE  FileOf(h.cache, j) # fs.names[n]
        <3>1. CASE j = k
            BY <1>5, <1>8, <1>9, <2>2, <3>1 DEF DiskOK
        <3>2. CASE j # k /\ n \in DOMAIN e.fs.names
            BY <1>5, <1>8, <2>2, <3>2 DEF EngineOK, CacheOK
        <3>3. CASE j # k /\ n \notin DOMAIN e.fs.names
            <4>1. n = k /\ fs.names[n] \notin DOMAIN e.fs.data
                BY <1>5, <1>9, <3>3
            <4>2. FileOf(h.cache, j) \in DOMAIN e.fs.data
                BY <1>8, <3>3 DEF EngineOK, CacheOK
            <4> QED
                BY <4>1, <4>2
        <3> QED
            BY <3>1, <3>2, <3>3
    <2> QED
        BY <1>3, <1>7, <2>1, <2>2 DEF CacheOK
<1>11. /\ EngineOK(f) /\ f.fs.dirs = h.fs.dirs /\ f.fs.names = h.fs.names
       /\ f.cache = h.cache /\ f.meta = h.meta
       /\ \A n \in DOMAIN h.fs.names : h.fs.names[n] \in DOMAIN f.fs.data
       /\ \A j \in DOMAIN f.fs.data : f.fs.data[j] = h.fs.data[j]
    BY <1>3, <1>5, <1>10, TidyIs DEF f, EngineOK
<1>12. OpenKeys(f) = OpenKeys(h)
    BY <1>11 DEF OpenKeys
<1>13. \A n \in DOMAIN e.fs.names : /\ f.fs.names[n] = e.fs.names[n]
                                    /\ f.fs.data[f.fs.names[n]] = e.fs.data[e.fs.names[n]]
    BY <1>3, <1>5, <1>11 DEF EngineOK, DiskOK
<1>14. k \notin DOMAIN e.fs.names => f.fs.data[i] = <<>>
    BY <1>3, <1>5, <1>9, <1>11
<1>15. Opens(e, f, k, i)
    BY <1>3, <1>5, <1>8, <1>9, <1>11, <1>12, <1>13, <1>14, <1>k DEF Opens
<1> QED
    BY <1>2, <1>15 DEF r, k

LEMMA OpenSegmentIs ==
    ASSUME NEW e, EngineOK(e), NEW t, NEW s, <<t, s>> \in Keys
    PROVE  LET r == open_segment(e, t, s)
           IN  \/ r.out = "ok" /\ Opens(e, r.e, <<t, s>>, r.file)
               \/ /\ r = Fails(e, "open failed")
                  /\ <<t, s>> \notin OpenKeys(e) /\ t \notin e.fs.dirs
<1>1. CASE <<t, s>> \in OpenKeys(e)
    BY <1>1, OpenCached
<1>2. CASE <<t, s>> \notin OpenKeys(e) /\ t \in e.fs.dirs
    BY <1>2, OpenUncached
<1>3. CASE <<t, s>> \notin OpenKeys(e) /\ t \notin e.fs.dirs
    BY <1>3 DEF open_segment, exists, OpenKeys, dir_exists
<1> QED
    BY <1>1, <1>2, <1>3

\* Opening a segment leaves a table as it is, unless it is a new one of its.
LEMMA OpenKeeps ==
    ASSUME NEW e, EngineOK(e), NEW f, NEW t, NEW s, NEW i, Opens(e, f, <<t, s>>, i),
           NEW u, NEW pages, TableOK(e, u, pages),
           u # t \/ <<t, s>> \in DOMAIN e.fs.names
    PROVE  TableOK(f, u, pages)
<1> DEFINE k == <<t, s>>
<1>1. \A x : <<u, x>> \in DOMAIN f.fs.names <=> <<u, x>> \in DOMAIN e.fs.names
    BY DEF Opens
<1>2. OnDisk(f.fs, u, pages)
    BY <1>1 DEF Opens, TableOK, OnDisk
<1>3. ASSUME NEW j \in OpenKeys(f), j[1] = u
      PROVE  j \in DOMAIN f.fs.names /\ FileOf(f.cache, j) = f.fs.names[j]
    <2>1. CASE j # k
        BY <1>3, <2>1 DEF Opens, TableOK, OpenRight
    <2>2. CASE j = k /\ k \in OpenKeys(e)
        BY <1>3, <2>2 DEF Opens, TableOK, OpenRight
    <2>3. CASE j = k /\ k \notin OpenKeys(e)
        BY <2>3 DEF Opens
    <2> QED
        BY <2>1, <2>2, <2>3
<1> QED
    BY <1>2, <1>3 DEF TableOK, OpenRight
-----------------------------------------------------------------------------
LEMMA WroteIs ==
    ASSUME NEW e, EngineOK(e), NEW i \in DOMAIN e.fs.data, NEW file \in Seq(PageType)
    PROVE  LET f == Wrote(e, i, file)
           IN  /\ EngineOK(f) /\ f.meta = e.meta /\ f.cache = e.cache
               /\ f.fs.dirs = e.fs.dirs /\ f.fs.names = e.fs.names
               /\ DOMAIN f.fs.data = DOMAIN e.fs.data /\ f.fs.data[i] = file
               /\ \A j \in DOMAIN e.fs.data : j # i => f.fs.data[j] = e.fs.data[j]
<1> DEFINE f == Wrote(e, i, file)
<1>1. /\ f.meta = e.meta /\ f.cache = e.cache
      /\ f.fs.dirs = e.fs.dirs /\ f.fs.names = e.fs.names
      /\ f.fs.data = [e.fs.data EXCEPT ![i] = file]
    BY EngineFields, DiskFields DEF Wrote
<1> HIDE DEF f
<1>2. /\ DOMAIN f.fs.data = DOMAIN e.fs.data /\ f.fs.data[i] = file
      /\ \A j \in DOMAIN e.fs.data : j # i => f.fs.data[j] = e.fs.data[j]
    BY <1>1
<1>3. OpenKeys(f) = OpenKeys(e)
    BY <1>1 DEF OpenKeys
<1>4. DiskOK(f.fs)
    BY <1>1, <1>2 DEF EngineOK, DiskOK
<1>5. CacheOK(f)
    BY <1>1, <1>2, <1>3 DEF EngineOK, CacheOK
<1>6. NoneAdrift(f)
    BY <1>1, <1>2, <1>3 DEF EngineOK, NoneAdrift
<1> QED
    BY <1>1, <1>2, <1>4, <1>5, <1>6 DEF f, EngineOK

\* The file in hand is one of the engine's and has pages in it.
LEMMA InHandIs ==
    ASSUME NEW e, NEW f, NEW k, NEW i, Opens(e, f, k, i)
    PROVE  i \in DOMAIN f.fs.data /\ f.fs.data[i] \in Seq(PageType)
BY DEF Opens, EngineOK, CacheOK, DiskOK

\* A write to an open segment of one table leaves the other tables alone.
LEMMA WroteKeeps ==
    ASSUME NEW e, EngineOK(e), NEW k \in OpenKeys(e), NEW file \in Seq(PageType),
           NEW u, NEW pages, TableOK(e, u, pages), k[1] # u
    PROVE  TableOK(Wrote(e, FileOf(e.cache, k), file), u, pages)
<1> DEFINE i == FileOf(e.cache, k)
<1> DEFINE f == Wrote(e, i, file)
<1>0. i \in DOMAIN e.fs.data
    BY DEF EngineOK, CacheOK
<1>1. /\ f.cache = e.cache /\ f.fs.dirs = e.fs.dirs /\ f.fs.names = e.fs.names
      /\ \A j \in DOMAIN e.fs.data : j # i => f.fs.data[j] = e.fs.data[j]
    BY <1>0, WroteIs
<1> HIDE DEF f
<1>2. ASSUME NEW s, <<u, s>> \in DOMAIN e.fs.names
      PROVE  f.fs.data[f.fs.names[<<u, s>>]] = e.fs.data[e.fs.names[<<u, s>>]]
    <2>1. <<u, s>> # k
        OBVIOUS
    <2>2. e.fs.names[<<u, s>>] # i /\ e.fs.names[<<u, s>>] \in DOMAIN e.fs.data
        BY <1>2, <2>1 DEF EngineOK, CacheOK, DiskOK
    <2> QED
        BY <1>1, <2>2
<1>3. OnDisk(f.fs, u, pages)
    BY <1>1, <1>2 DEF TableOK, OnDisk
<1>4. OpenRight(f, u)
    BY <1>1 DEF TableOK, OpenRight, OpenKeys
<1> QED
    BY <1>3, <1>4 DEF TableOK, f

\* Segment q of a table is opened, and written so that the table now is the
\* pages new.
LEMMA Updated ==
    ASSUME NEW e, EngineOK(e), NEW t \in e.fs.dirs, OpenRight(e, t),
           NEW q, NEW f, NEW i, Opens(e, f, <<t, q>>, i),
           NEW new \in Seq(PageType), new # <<>>, AllWhole(new),
           \A s : (<<t, s>> \in DOMAIN e.fs.names \/ s = q) <=> s \in 0 .. LastSeg(Len(new)),
           \A s \in 0 .. LastSeg(Len(new)) :
               s # q => e.fs.data[e.fs.names[<<t, s>>]] = Segment(new, s),
           NEW file \in Seq(PageType), file = Segment(new, q)
    PROVE  TableOK(Wrote(f, i, file), t, new)
<1> DEFINE k == <<t, q>>
<1> DEFINE g == Wrote(f, i, file)
<1>1. i \in DOMAIN f.fs.data /\ EngineOK(f)
    BY InHandIs DEF Opens
<1>2. /\ g.cache = f.cache /\ g.fs.dirs = f.fs.dirs /\ g.fs.names = f.fs.names
      /\ g.fs.data[i] = file
      /\ \A j \in DOMAIN f.fs.data : j # i => g.fs.data[j] = f.fs.data[j]
    BY <1>1, WroteIs
<1> HIDE DEF g
<1>3. k \in DOMAIN f.fs.names /\ i = f.fs.names[k]
    <2>1. CASE k \in OpenKeys(e)
        <3>1. k \in DOMAIN e.fs.names /\ FileOf(e.cache, k) = e.fs.names[k]
            BY <2>1 DEF OpenRight
        <3> QED
            BY <2>1, <3>1 DEF Opens
    <2>2. CASE k \notin OpenKeys(e)
        BY <2>2 DEF Opens
    <2> QED
        BY <2>1, <2>2
<1>4. \A s : <<t, s>> \in DOMAIN f.fs.names <=> (<<t, s>> \in DOMAIN e.fs.names \/ s = q)
    BY <1>3 DEF Opens
<1>5. ASSUME NEW s \in 0 .. LastSeg(Len(new))
      PROVE  g.fs.data[g.fs.names[<<t, s>>]] = Segment(new, s)
    <2>1. CASE s = q
        BY <1>2, <1>3, <2>1
    <2>2. CASE s # q
        <3>1. <<t, s>> \in DOMAIN e.fs.names /\ <<t, s>> # k
            BY <1>5, <2>2
        <3>2. /\ f.fs.names[<<t, s>>] # i /\ f.fs.names[<<t, s>>] \in DOMAIN f.fs.data
            BY <1>1, <1>3, <1>4, <3>1 DEF EngineOK, DiskOK
        <3>3. f.fs.data[f.fs.names[<<t, s>>]] = e.fs.data[e.fs.names[<<t, s>>]]
            BY <3>1 DEF Opens
        <3> QED
            BY <1>2, <1>5, <2>2, <3>2, <3>3
    <2> QED
        BY <2>1, <2>2
<1>6. OnDisk(g.fs, t, new)
    BY <1>2, <1>4, <1>5 DEF Opens, OnDisk
<1>7. ASSUME NEW j \in OpenKeys(f), j[1] = t
      PROVE  j \in DOMAIN f.fs.names /\ FileOf(f.cache, j) = f.fs.names[j]
    <2>1. CASE j = k
        BY <1>3, <2>1 DEF Opens
    <2>2. CASE j # k
        BY <1>7, <2>2 DEF Opens, OpenRight
    <2> QED
        BY <2>1, <2>2
<1>8. OpenRight(g, t)
    BY <1>2, <1>7 DEF OpenRight, OpenKeys
<1> QED
    BY <1>6, <1>8 DEF TableOK, g

\* Metadata of a table in memory does not touch files.
LEMMA MetaSet ==
    ASSUME NEW e, EngineOK(e), NEW t \in Tables, NEW m \in MetaType
    PROVE  LET f == WithMeta(e, t, m)
           IN  /\ EngineOK(f) /\ f.fs = e.fs /\ f.cache = e.cache
               /\ DOMAIN f.meta = DOMAIN e.meta \cup {t} /\ f.meta[t] = m
               /\ \A u \in DOMAIN e.meta : u # t => f.meta[u] = e.meta[u]
               /\ \A u, pages : TableOK(e, u, pages) => TableOK(f, u, pages)
<1> DEFINE f == WithMeta(e, t, m)
<1>1. f.fs = e.fs /\ f.cache = e.cache /\ f.meta = Bind(e.meta, t, m)
    BY EngineFields
<1> HIDE DEF f
<1>2. /\ DOMAIN f.meta = DOMAIN e.meta \cup {t} /\ f.meta[t] = m
      /\ \A u \in DOMAIN e.meta : u # t => f.meta[u] = e.meta[u]
    BY <1>1 DEF Bind
<1>3. MetaOK(f.meta)
    BY <1>2, FS_AddElement DEF EngineOK, MetaOK
<1>4. EngineOK(f)
    BY <1>1, <1>3 DEF EngineOK, CacheOK, NoneAdrift, OpenKeys
<1>5. \A u, pages : TableOK(e, u, pages) => TableOK(f, u, pages)
    BY <1>1 DEF TableOK, OpenRight, OpenKeys
<1> QED
    BY <1>1, <1>2, <1>4, <1>5 DEF f
-----------------------------------------------------------------------------
(***************************************************************************)
(* The calls, one by one.                                                  *)
(***************************************************************************)

\* A call on table t, which made engine f of engine e, touched no other table.
Spares(e, f, t) ==
    /\ EngineOK(f)
    /\ \A u, pages : u # t /\ TableOK(e, u, pages) => TableOK(f, u, pages)
    /\ \A u \in DOMAIN e.meta : u # t => u \in DOMAIN f.meta /\ f.meta[u] = e.meta[u]

LEMMA KeysOf ==
    ASSUME NEW t \in Tables
    PROVE  /\ MaxPages[t] \in Nat \ {0} /\ PgnoRange \in Nat /\ MaxPages[t] < PgnoRange
           /\ Pages \subseteq Nat /\ 0 .. MaxPages[t] - 1 \subseteq Pages
           /\ \A p \in Pages : <<t, pgno_to_segid(p)>> \in Keys
           /\ pgno_to_segid(0) = 0 /\ <<t, 0>> \in Keys
<1>1. MaxPages[t] \in Nat \ {0} /\ PgnoRange \in Nat /\ MaxPages[t] < PgnoRange
    BY PagesAssumption
<1>2. Pages \subseteq Nat /\ 0 .. MaxPages[t] - 1 \subseteq Pages
    <2>1. \A u \in Tables : MaxPages[u] \in Nat
        BY PagesAssumption
    <2> QED
        BY <2>1 DEF Pages
<1>3. \A p \in Pages : <<t, pgno_to_segid(p)>> \in Keys
    BY KeysAssumption DEF Segments
<1>4. pgno_to_segid(0) = 0
    BY SegmentSizeAssumption DEF pgno_to_segid
<1>5. 0 \in Pages
    BY <1>1, <1>2
<1> QED
    BY <1>1, <1>2, <1>3, <1>4, <1>5

LEMMA SparesSelf ==
    ASSUME NEW e, EngineOK(e), NEW t
    PROVE  Spares(e, e, t)
BY DEF Spares

LEMMA OpenSpares ==
    ASSUME NEW e, EngineOK(e), NEW f, NEW t, NEW s, NEW i, Opens(e, f, <<t, s>>, i)
    PROVE  Spares(e, f, t)
<1>1. \A u, pages : u # t /\ TableOK(e, u, pages) => TableOK(f, u, pages)
    BY OpenKeeps
<1>2. EngineOK(f) /\ f.meta = e.meta /\ f.fs.dirs = e.fs.dirs
    BY DEF Opens
<1> QED
    BY <1>1, <1>2 DEF Spares

LEMMA WriteFields ==
    ASSUME NEW e, NEW f, NEW k, NEW i, Opens(e, f, k, i),
           NEW file \in Seq(PageType), NEW g, g = Wrote(f, i, file)
    PROVE  /\ EngineOK(g) /\ g.meta = e.meta /\ g.fs.dirs = e.fs.dirs
           /\ g.fs.names = f.fs.names
<1>1. EngineOK(f) /\ f.meta = e.meta /\ f.fs.dirs = e.fs.dirs
    BY DEF Opens
<1> QED
    BY <1>1, InHandIs, WroteIs

LEMMA WriteSpares ==
    ASSUME NEW e, EngineOK(e), NEW f, NEW t, NEW s, NEW i, Opens(e, f, <<t, s>>, i),
           NEW file \in Seq(PageType), NEW g, g = Wrote(f, i, file)
    PROVE  Spares(e, g, t)
<1>1. /\ EngineOK(f) /\ f.meta = e.meta /\ f.fs.dirs = e.fs.dirs
      /\ <<t, s>> \in OpenKeys(f) /\ FileOf(f.cache, <<t, s>>) = i
    BY DEF Opens
<1>2. EngineOK(g) /\ g.meta = e.meta
    BY WriteFields
<1>3. ASSUME NEW u, NEW pages, u # t, TableOK(e, u, pages)
      PROVE  TableOK(g, u, pages)
    <2>1. TableOK(f, u, pages)
        BY <1>3, OpenKeeps
    <2>2. <<t, s>>[1] # u
        BY <1>3
    <2> QED
        BY <1>1, <2>1, <2>2, WroteKeeps
<1> QED
    BY <1>2, <1>3 DEF Spares

\* What is in the file in hand, for a segment of a table that is all right.
LEMMA InHandHolds ==
    ASSUME NEW e, NEW f, NEW t, NEW q, NEW i, Opens(e, f, <<t, q>>, i), OpenRight(e, t)
    PROVE  f.fs.data[i] = IF <<t, q>> \in DOMAIN e.fs.names
                            THEN e.fs.data[e.fs.names[<<t, q>>]] ELSE <<>>
<1> DEFINE k == <<t, q>>
<1>1. CASE k \in OpenKeys(e)
    <2>1. k \in DOMAIN e.fs.names /\ FileOf(e.cache, k) = e.fs.names[k]
        BY <1>1 DEF OpenRight
    <2> QED
        BY <1>1, <2>1 DEF Opens
<1>2. CASE k \notin OpenKeys(e)
    BY <1>2 DEF Opens
<1> QED
    BY <1>1, <1>2

LEMMA MadeTableIs ==
    ASSUME NEW e, EngineOK(e), NEW t \in Tables
    PROVE  LET f == MadeTable(e, t)
           IN  /\ EngineOK(f) /\ f.meta = e.meta /\ f.cache = e.cache
               /\ f.fs.dirs = e.fs.dirs \cup {t} /\ f.fs.names = e.fs.names
               /\ f.fs.data = e.fs.data
               /\ \A u, pages : TableOK(e, u, pages) => TableOK(f, u, pages)
<1> DEFINE f == MadeTable(e, t)
<1>1. /\ f.meta = e.meta /\ f.cache = e.cache
      /\ f.fs.dirs = e.fs.dirs \cup {t} /\ f.fs.names = e.fs.names
      /\ f.fs.data = e.fs.data
    BY EngineFields, DiskFields DEF MadeTable, mkdir
<1> HIDE DEF f
<1>2. f.fs.dirs \subseteq Tables /\ IsFiniteSet(f.fs.dirs)
    <2>1. e.fs.dirs \subseteq Tables /\ IsFiniteSet(e.fs.dirs)
        BY DEF EngineOK, DiskOK
    <2>2. IsFiniteSet(e.fs.dirs \cup {t})
        BY <2>1, FS_AddElement
    <2> QED
        BY <1>1, <2>1, <2>2
<1>3. DiskOK(f.fs)
    BY <1>1, <1>2 DEF EngineOK, DiskOK
<1>4. EngineOK(f)
    BY <1>1, <1>3 DEF EngineOK, CacheOK, NoneAdrift, OpenKeys
<1>5. \A u, pages : TableOK(e, u, pages) => TableOK(f, u, pages)
    BY <1>1 DEF TableOK, OpenRight, OpenKeys, OnDisk
<1> QED
    BY <1>1, <1>4, <1>5 DEF f

\* The one page of a table that was just made.
FirstPage == Page(Metadata(0, 1), Zero)

LEMMA FirstPageIs ==
    /\ Metadata(0, 1) \in MetaType
    /\ <<FirstPage>> \in Seq(PageType) /\ <<FirstPage>> # <<>> /\ AllWhole(<<FirstPage>>)
    /\ Len(<<FirstPage>>) = 1 /\ LastSeg(1) = 0
    /\ Segment(<<FirstPage>>, 0) = <<FirstPage>>
    /\ WritePage(<<>>, 0, FirstPage) = <<FirstPage>>
<1>1. Metadata(0, 1) \in MetaType
    BY DEF Metadata, MetaType
<1>2. FirstPage \in PageType /\ FirstPage.body # Short
    BY <1>1, PageTypes DEF FirstPage
<1>3. <<FirstPage>> \in Seq(PageType) /\ <<FirstPage>> # <<>> /\ AllWhole(<<FirstPage>>)
    BY <1>2 DEF AllWhole
<1>4. LastSeg(1) = 0
    BY SegmentSizeAssumption DEF LastSeg
<1>5. SegLen(1, 0) = 1
    BY SegmentSizeAssumption DEF SegLen
<1>6. Segment(<<FirstPage>>, 0) = <<FirstPage>>
    <2>1. Segment(<<FirstPage>>, 0) = [j \in 1 .. 1 |-> <<FirstPage>>[0 * segment_size + j]]
        BY <1>5 DEF Segment
    <2>2. \A j \in 1 .. 1 : 0 * segment_size + j = 1 /\ j = 1
        BY SegmentSizeAssumption
    <2> QED
        BY <2>1, <2>2
<1>7. WritePage(<<>>, 0, FirstPage) = <<FirstPage>>
    <2>0. <<>> \in Seq(PageType)
        OBVIOUS
    <2>1. PICK file \in Seq(PageType) : file = <<>>
        BY <2>0
    <2>2. AllWhole(file) /\ Len(file) = 0
        BY <2>1 DEF AllWhole
    <2>3. PICK z \in 0 .. Len(file) : z = 0
        BY <2>2
    <2>4. PICK page \in PageType : page = FirstPage
        BY <1>2
    <2>5. WritePage(file, z, page) =
              [i \in 1 .. 1 |->
                  IF i = 1 THEN page
                  ELSE IF i <= 0
                    THEN IF i < 1 /\ file[i].body = Short THEN Page(file[i].head, Zero) ELSE file[i]
                    ELSE ZeroPage]
        BY <2>2, <2>3 DEF WritePage
    <2> QED
        BY <2>1, <2>3, <2>4, <2>5
<1> QED
    BY <1>1, <1>3, <1>4, <1>6, <1>7

LEMMA CreateIs ==
    ASSUME NEW e, EngineOK(e), NEW t \in Tables
    PROVE  LET r == create_table(e, t)
           IN  /\ t \in e.fs.dirs => r = Fails(e, "exists")
               /\ t \notin e.fs.dirs =>
                      /\ r.out = "ok" /\ Spares(e, r.e, t)
                      /\ t \in DOMAIN r.e.meta /\ r.e.meta[t] = Metadata(0, 1)
                      /\ (\A k \in OpenKeys(e) : k[1] # t) => TableOK(r.e, t, <<FirstPage>>)
<1> DEFINE r == create_table(e, t)
<1>1. CASE t \in e.fs.dirs
    BY <1>1 DEF create_table, dir_exists
<1>2. CASE t \notin e.fs.dirs
    <2> DEFINE d == MadeTable(e, t)
    <2> DEFINE seg == open_segment(d, t, 0)
    <2> DEFINE file == WritePage(seg.e.fs.data[seg.file], 0, FirstPage)
    <2> DEFINE h == WithMeta(seg.e, t, Metadata(0, 1))
    <2>k. <<t, 0>> \in Keys /\ pgno_to_segid(0) = 0
        BY KeysOf
    <2>1. r = Ok(Wrote(h, seg.file, file))
        BY <1>2, <2>k DEF create_table, dir_exists, FirstPage
    <2>2. /\ EngineOK(d) /\ d.meta = e.meta /\ d.cache = e.cache
          /\ d.fs.dirs = e.fs.dirs \cup {t} /\ d.fs.names = e.fs.names
          /\ d.fs.data = e.fs.data
          /\ \A u, pages : TableOK(e, u, pages) => TableOK(d, u, pages)
        BY MadeTableIs
    <2> HIDE DEF d
    <2>3. seg.out = "ok" /\ Opens(d, seg.e, <<t, 0>>, seg.file)
        BY <2>2, <2>k, OpenSegmentIs
    <2> HIDE DEF seg
    <2>4. file \in Seq(PageType)
        BY <2>3, InHandIs, WriteTypes, PageTypes, FirstPageIs DEF FirstPage
    <2> HIDE DEF file
    <2> DEFINE g == Wrote(seg.e, seg.file, file)
    <2>5. Wrote(h, seg.file, file) = WithMeta(g, t, Metadata(0, 1))
        BY DEF Wrote, WithMeta, WithFS
    <2>6. Spares(d, g, t) /\ g.meta = d.meta
        <3>1. PICK f, i : f = seg.e /\ i = seg.file
            OBVIOUS
        <3>2. Opens(d, f, <<t, 0>>, i)
            BY <2>3, <3>1
        <3>3. g = Wrote(f, i, file)
            BY <3>1
        <3> HIDE DEF g
        <3> QED
            BY <2>2, <2>4, <3>2, <3>3, WriteSpares, WriteFields
    <2>7. /\ EngineOK(r.e) /\ t \in DOMAIN r.e.meta /\ r.e.meta[t] = Metadata(0, 1)
          /\ \A u \in DOMAIN g.meta : u # t => u \in DOMAIN r.e.meta /\ r.e.meta[u] = g.meta[u]
          /\ \A u, pages : TableOK(g, u, pages) => TableOK(r.e, u, pages)
        <3>1. r.e = WithMeta(g, t, Metadata(0, 1))
            BY <2>1, <2>5 DEF Ok
        <3>2. EngineOK(g)
            BY <2>6 DEF Spares
        <3> HIDE DEF g, r
        <3> QED
            BY <3>1, <3>2, MetaSet, FirstPageIs
    <2>8. r.out = "ok"
        BY <2>1 DEF Ok
    <2> HIDE DEF r, g
    <2>9. Spares(e, r.e, t)
        BY <2>2, <2>6, <2>7 DEF Spares
    <2>10. ASSUME \A k \in OpenKeys(e) : k[1] # t
           PROVE  TableOK(r.e, t, <<FirstPage>>)
        <3>1. OpenRight(d, t)
            BY <2>2, <2>10 DEF OpenRight, OpenKeys
        <3>2. \A s : <<t, s>> \notin DOMAIN d.fs.names
            <4> SUFFICES ASSUME NEW s, <<t, s>> \in DOMAIN e.fs.names PROVE FALSE
                BY <2>2
            <4>1. <<t, s>>[1] \in e.fs.dirs
                BY DEF EngineOK, DiskOK
            <4> QED
                BY <1>2, <4>1
        <3>3. seg.e.fs.data[seg.file] = <<>>
            <4>1. PICK f, i : f = seg.e /\ i = seg.file
                OBVIOUS
            <4>2. Opens(d, f, <<t, 0>>, i)
                BY <2>3, <4>1
            <4>3. f.fs.data[i] = <<>>
                BY <3>1, <3>2, <4>2, InHandHolds
            <4> QED
                BY <4>1, <4>3
        <3>4. file = Segment(<<FirstPage>>, 0)
            BY <3>3, FirstPageIs DEF file
        <3>5. t \in d.fs.dirs
            BY <2>2
        <3>6. /\ \A s : (<<t, s>> \in DOMAIN d.fs.names \/ s = 0) <=>
                            s \in 0 .. LastSeg(Len(<<FirstPage>>))
              /\ \A s \in 0 .. LastSeg(Len(<<FirstPage>>)) :
                     s # 0 => d.fs.data[d.fs.names[<<t, s>>]] = Segment(<<FirstPage>>, s)
            <4>1. 0 .. LastSeg(Len(<<FirstPage>>)) = {0}
                BY FirstPageIs
            <4> QED
                BY <3>2, <4>1
        <3>7. TableOK(g, t, <<FirstPage>>)
            <4> DEFINE new == <<FirstPage>>
            <4>1. new \in Seq(PageType) /\ new # <<>> /\ AllWhole(new)
                BY FirstPageIs
            <4>2. /\ \A s : (<<t, s>> \in DOMAIN d.fs.names \/ s = 0) <=>
                            s \in 0 .. LastSeg(Len(new))
                  /\ \A s \in 0 .. LastSeg(Len(new)) :
                     s # 0 => d.fs.data[d.fs.names[<<t, s>>]] = Segment(new, s)
                  /\ file = Segment(new, 0)
                BY <3>4, <3>6
            <4> HIDE DEF new
            <4>3. TableOK(g, t, new)
                BY <2>2, <2>3, <2>4, <3>1, <3>5, <4>1, <4>2, Updated DEF g
            <4> QED
                BY <4>3 DEF new
        <3> QED
            BY <2>7, <3>7
    <2> QED
        BY <1>2, <2>7, <2>8, <2>9, <2>10 DEF r
<1> QED
    BY <1>1, <1>2
-----------------------------------------------------------------------------
LEMMA Outcomes ==
    /\ \A e : Ok(e).e = e /\ Ok(e).out = "ok"
    /\ \A e, why : Fails(e, why).e = e /\ Fails(e, why).out = why
BY DEF Ok, Fails

\* Without metadata of the table nothing is found; a file may be opened.
LEMMA LatestIs ==
    ASSUME NEW e, EngineOK(e), NEW t \in Tables
    PROVE  LET r == get_latest_page(e, t)
           IN  /\ t \in DOMAIN e.meta => r.e = e /\ r.out = "ok" /\ r.last = e.meta[t].last
               /\ t \notin DOMAIN e.meta => /\ r.out \in {"open failed", "assert 104"}
                                            /\ Spares(e, r.e, t) /\ r.e.meta = e.meta
<1> DEFINE r == get_latest_page(e, t)
<1>1. CASE t \in DOMAIN e.meta
    BY <1>1 DEF get_latest_page
<1>2. CASE t \notin DOMAIN e.meta
    <2>1. PICK first : first = open_segment(e, t, 0)
        OBVIOUS
    <2>2. r = IF first.out # "ok" THEN first ELSE Fails(first.e, "assert 104")
        BY <1>2, <2>1, KeysOf DEF get_latest_page
    <2> HIDE DEF r
    <2>3. \/ first.out = "ok" /\ Opens(e, first.e, <<t, 0>>, first.file)
          \/ first = Fails(e, "open failed")
        BY <2>1, OpenSegmentIs, KeysOf
    <2>4. CASE first.out = "ok" /\ Opens(e, first.e, <<t, 0>>, first.file)
        <3>1. r.out = "assert 104" /\ r.e = first.e
            BY <2>2, <2>4, Outcomes
        <3>2. Spares(e, first.e, t)
            BY <2>4, OpenSpares
        <3>3. first.e.meta = e.meta
            BY <2>4 DEF Opens
        <3> QED
            BY <1>2, <3>1, <3>2, <3>3 DEF r
    <2>5. CASE first = Fails(e, "open failed")
        <3>1. first.out = "open failed" /\ first.e = e
            BY <2>5 DEF Fails
        <3>2. r = first
            BY <2>2, <3>1
        <3> QED
            BY <1>2, <3>1, <3>2, SparesSelf DEF r
    <2> QED
        BY <2>3, <2>4, <2>5 DEF r
<1> QED
    BY <1>1, <1>2

\* The page after n pages lies in the last segment or starts the next one.
LEMMA NextSeg ==
    ASSUME NEW n \in Nat, n # 0, NEW q, q = n \div segment_size
    PROVE  /\ q \in Nat /\ LastSeg(n + 1) = q
           /\ \/ LastSeg(n) = q
              \/ LastSeg(n) + 1 = q /\ n = q * segment_size
<1>1. PICK l \in Nat : l = LastSeg(n)
    BY LastSegIs
<1>2. /\ l * segment_size \in Nat /\ l * segment_size < n
      /\ n <= l * segment_size + segment_size /\ segment_size \in Nat
    BY <1>1, LastSegIs, SegmentSizeAssumption
<1>3. q \in Nat
    BY DivMod
<1>4. LastSeg(n + 1) = q
    BY DEF LastSeg
<1>5. CASE n < l * segment_size + segment_size
    <2>1. PICK r \in Nat : r < segment_size /\ n = l * segment_size + r
        <3>1. n - l * segment_size \in Nat /\ n - l * segment_size < segment_size
            BY <1>2, <1>5
        <3>2. n = l * segment_size + (n - l * segment_size)
            BY <1>2
        <3> QED
            BY <3>1, <3>2
    <2>2. n \div segment_size = l
        BY <2>1, DivUnique
    <2> QED
        <3>1. LastSeg(n) = q
            BY <1>1, <2>2
        <3> QED
            BY <1>3, <1>4, <3>1
<1>6. CASE n = l * segment_size + segment_size
    <2>1. PICK m \in Nat : m = l + 1
        OBVIOUS
    <2>2. m * segment_size = l * segment_size + segment_size
        BY <2>1, Distribute
    <2>3. n = m * segment_size + 0 /\ 0 < segment_size
        BY <1>2, <1>6, <2>2, SegmentSizeAssumption
    <2>4. n \div segment_size = m
        BY <2>3, DivUnique
    <2> QED
        BY <1>1, <1>3, <1>4, <1>6, <2>1, <2>2, <2>4
<1> QED
    BY <1>2, <1>5, <1>6

\* A table that counts its pages right, and is within its bound.
Counts(e, t, pages) ==
    /\ t \in DOMAIN e.meta
    /\ e.meta[t] = Metadata(Len(pages) - 1, Len(pages))
    /\ Len(pages) <= MaxPages[t]

\* The segment of the page after the last one is opened and the page written.
LEMMA Grown ==
    ASSUME NEW e, EngineOK(e), NEW t, NEW pages, TableOK(e, t, pages),
           NEW q, q = Len(pages) \div segment_size,
           NEW f, NEW i, Opens(e, f, <<t, q>>, i),
           NEW file, file = WritePage(f.fs.data[i], Len(pages) % segment_size, ZeroPage)
    PROVE  TableOK(Wrote(f, i, file), t, Append(pages, ZeroPage))
<1>1. /\ t \in e.fs.dirs /\ pages \in Seq(PageType) /\ pages # <<>> /\ AllWhole(pages)
      /\ OpenRight(e, t)
      /\ \A s : <<t, s>> \in DOMAIN e.fs.names <=> s \in 0 .. LastSeg(Len(pages))
      /\ \A s \in 0 .. LastSeg(Len(pages)) :
             e.fs.data[e.fs.names[<<t, s>>]] = Segment(pages, s)
    BY DEF TableOK, OnDisk
<1>n. PICK n \in Nat : n = Len(pages) /\ n # 0 /\ DOMAIN pages = 1 .. n
    BY <1>1
<1>2. PICK new : new = Append(pages, ZeroPage)
    OBVIOUS
<1>3. new \in Seq(PageType) /\ new # <<>> /\ AllWhole(new) /\ Len(new) = n + 1
    <2>1. new \in Seq(PageType) /\ Len(new) = n + 1 /\ DOMAIN new = 1 .. n + 1
          /\ new[n + 1] = ZeroPage /\ \A j \in 1 .. n : new[j] = pages[j]
        BY <1>1, <1>2, <1>n, PageTypes
    <2>2. AllWhole(new)
        BY <1>1, <1>n, <2>1, PageTypes DEF AllWhole
    <2>3. new # <<>>
        BY <2>1
    <2> QED
        BY <2>1, <2>2, <2>3
<1>4. /\ WritePage(Segment(pages, q), n % segment_size, ZeroPage) = Segment(new, q)
      /\ \A s \in Nat : s < q => Segment(new, s) = Segment(pages, s)
    BY <1>1, <1>2, <1>n, SegmentGrows, PageTypes
<1>5. PICK l \in Nat : l = LastSeg(n)
    BY <1>n, LastSegIs
<1>6. /\ q \in Nat /\ LastSeg(Len(new)) = q
      /\ \/ l = q
         \/ l + 1 = q /\ n = q * segment_size
    BY <1>3, <1>5, <1>n, NextSeg
<1>7. \A s : (<<t, s>> \in DOMAIN e.fs.names \/ s = q) <=> s \in 0 .. LastSeg(Len(new))
    BY <1>1, <1>5, <1>6, <1>n
<1>8. \A s \in 0 .. LastSeg(Len(new)) :
          s # q => e.fs.data[e.fs.names[<<t, s>>]] = Segment(new, s)
    <2> SUFFICES ASSUME NEW s \in 0 .. q, s # q
                 PROVE  e.fs.data[e.fs.names[<<t, s>>]] = Segment(new, s)
        BY <1>6
    <2>1. s \in Nat /\ s < q /\ s \in 0 .. l
        BY <1>5, <1>6
    <2>2. e.fs.data[e.fs.names[<<t, s>>]] = Segment(pages, s)
        BY <1>1, <1>5, <1>n, <2>1
    <2> QED
        BY <1>4, <2>1, <2>2
<1>9. f.fs.data[i] = Segment(pages, q)
    <2>1. f.fs.data[i] = IF <<t, q>> \in DOMAIN e.fs.names
                            THEN e.fs.data[e.fs.names[<<t, q>>]] ELSE <<>>
        BY <1>1, InHandHolds
    <2>2. CASE l = q
        <3>1. q \in 0 .. LastSeg(Len(pages))
            BY <1>5, <1>6, <1>n, <2>2
        <3> QED
            BY <1>1, <2>1, <3>1
    <2>3. CASE l + 1 = q /\ n = q * segment_size
        <3>1. q \notin 0 .. LastSeg(Len(pages))
            BY <1>5, <1>6, <1>n, <2>3
        <3>2. f.fs.data[i] = <<>>
            BY <1>1, <2>1, <3>1
        <3>3. SegLen(n, q) = 0
            <4>1. (q + 1) * segment_size > n /\ q * segment_size <= n
                BY <1>6, <1>n, <2>3, Distribute, SegmentSizeAssumption
            <4>2. SegLen(n, q) = n - q * segment_size
                BY <1>6, <1>n, <4>1, SegLenIs
            <4> QED
                BY <1>n, <2>3, <4>2
        <3>4. Segment(pages, q) = <<>>
            BY <1>n, <3>3 DEF Segment
        <3> QED
            BY <3>2, <3>4
    <2> QED
        BY <1>6, <2>2, <2>3
<1>10. file = Segment(new, q)
    BY <1>4, <1>9, <1>n
<1>11. file \in Seq(PageType)
    <2>1. q \in 0 .. LastSeg(Len(new)) /\ Len(new) \in Nat /\ Len(new) # 0
        BY <1>3, <1>6, <1>n
    <2>2. q * segment_size <= Len(new) /\ q \in Nat
        BY <2>1, SegStarts
    <2> QED
        BY <1>3, <1>10, <2>2, SegmentIs
<1>12. TableOK(Wrote(f, i, file), t, new)
    BY <1>1, <1>3, <1>7, <1>8, <1>10, <1>11, Updated
<1> QED
    BY <1>2, <1>12

LEMMA AllocateIs ==
    ASSUME NEW e, EngineOK(e), NEW t \in Tables,
           t \in DOMAIN e.meta => (e.meta[t].last + 1) % PgnoRange < MaxPages[t]
    PROVE  LET r == allocate_page(e, t)
           IN  /\ Spares(e, r.e, t)
               /\ \A pages : TableOK(e, t, pages) /\ Counts(e, t, pages) =>
                      /\ r.out = "ok" /\ TableOK(r.e, t, Append(pages, ZeroPage))
                      /\ Counts(r.e, t, Append(pages, ZeroPage))
<1> DEFINE r == allocate_page(e, t)
<1> DEFINE latest == get_latest_page(e, t)
<1>0. /\ t \in DOMAIN e.meta =>
             latest.e = e /\ latest.out = "ok" /\ latest.last = e.meta[t].last
      /\ t \notin DOMAIN e.meta => /\ latest.out \in {"open failed", "assert 104"}
                                   /\ Spares(e, latest.e, t)
    BY LatestIs
<1>1. CASE t \notin e.fs.dirs
    <2>1. r = Fails(e, "assert 166")
        BY <1>1 DEF allocate_page, dir_exists
    <2>2. Spares(e, r.e, t)
        <3>1. r.e = e
            BY <2>1, Outcomes
        <3> QED
            BY <3>1, SparesSelf
    <2>3. \A pages : ~TableOK(e, t, pages)
        BY <1>1 DEF TableOK, OnDisk
    <2> QED
        BY <2>2, <2>3
<1>2. CASE t \in e.fs.dirs /\ t \notin DOMAIN e.meta
    <2>1. r = latest
        BY <1>0, <1>2 DEF allocate_page, dir_exists
    <2>2. \A pages : ~Counts(e, t, pages)
        BY <1>2 DEF Counts
    <2>3. Spares(e, r.e, t)
        BY <1>0, <1>2, <2>1
    <2> QED
        BY <2>2, <2>3
<1>3. CASE t \in e.fs.dirs /\ t \in DOMAIN e.meta
    <2> DEFINE p == (e.meta[t].last + 1) % PgnoRange
    <2> DEFINE q == pgno_to_segid(p)
    <2> DEFINE seg == open_segment(e, t, q)
    <2> DEFINE file == WritePage(seg.e.fs.data[seg.file], pgno_to_rel_pgno(p), ZeroPage)
    <2> DEFINE g == Wrote(seg.e, seg.file, file)
    <2> DEFINE m == Metadata(p, (e.meta[t].total + 1) % PgnoRange)
    <2>1. r = Ok(WithMeta(g, t, m))
        BY <1>0, <1>3 DEF allocate_page, dir_exists
    <2>2. e.meta[t] \in MetaType
        BY <1>3 DEF EngineOK, MetaOK
    <2>3. e.meta[t].last \in Nat /\ e.meta[t].total \in Nat
        BY <2>2 DEF MetaType
    <2>4. PgnoRange \in Nat \ {0} /\ MaxPages[t] \in Nat /\ MaxPages[t] < PgnoRange
        <3>1. MaxPages[t] \in Nat /\ PgnoRange \in Nat /\ MaxPages[t] < PgnoRange
            BY KeysOf
        <3> QED
            BY <3>1
    <2>5. p \in Nat /\ (e.meta[t].total + 1) % PgnoRange \in Nat
        BY <2>3, <2>4
    <2>6. m \in MetaType
        BY <2>5 DEF Metadata, MetaType
    <2>7. p < MaxPages[t]
        BY <1>3
    <2> HIDE DEF p, m
    <2>8. p \in Pages /\ <<t, q>> \in Keys
        <3>1. p \in 0 .. MaxPages[t] - 1
            BY <2>4, <2>5, <2>7
        <3> QED
            BY <3>1, KeysOf
    <2>9. seg.out = "ok" /\ Opens(e, seg.e, <<t, q>>, seg.file)
        BY <1>3, <2>8, OpenSegmentIs
    <2>10. PICK f, i : f = seg.e /\ i = seg.file
        OBVIOUS
    <2>11. Opens(e, f, <<t, q>>, i)
        BY <2>9, <2>10
    <2>12. file = WritePage(f.fs.data[i], pgno_to_rel_pgno(p), ZeroPage) /\ g = Wrote(f, i, file)
        BY <2>10
    <2> HIDE DEF seg, file, g
    <2>13. file \in Seq(PageType)
        <3>1. pgno_to_rel_pgno(p) \in Nat
            BY <2>5, DivMod DEF pgno_to_rel_pgno
        <3> QED
            BY <2>11, <2>12, <3>1, InHandIs, WriteTypes, PageTypes
    <2>14. Spares(e, g, t) /\ g.meta = e.meta
        BY <2>11, <2>12, <2>13, WriteSpares, WriteFields
    <2>15. r.e = WithMeta(g, t, m) /\ r.out = "ok"
        BY <2>1, Outcomes
    <2> HIDE DEF r
    <2>16. /\ EngineOK(r.e) /\ t \in DOMAIN r.e.meta /\ r.e.meta[t] = m
           /\ \A u \in DOMAIN g.meta : u # t => u \in DOMAIN r.e.meta /\ r.e.meta[u] = g.meta[u]
           /\ \A u, pages : TableOK(g, u, pages) => TableOK(r.e, u, pages)
        BY <2>6, <2>14, <2>15, MetaSet DEF Spares
    <2>17. Spares(e, r.e, t)
        BY <2>14, <2>16 DEF Spares
    <2>18. ASSUME NEW pages, TableOK(e, t, pages), Counts(e, t, pages)
           PROVE  TableOK(r.e, t, Append(pages, ZeroPage)) /\ Counts(r.e, t, Append(pages, ZeroPage))
        <3>1. pages \in Seq(PageType) /\ pages # <<>>
            BY <2>18 DEF TableOK, OnDisk
        <3>2. PICK n \in Nat : n = Len(pages) /\ n # 0
            BY <3>1
        <3>3. e.meta[t].last = n - 1 /\ e.meta[t].total = n /\ n <= MaxPages[t]
            BY <2>18, <3>2 DEF Counts, Metadata
        <3>4. p = n
            <4>1. n % PgnoRange = n
                BY <2>4, <3>2, <3>3
            <4> QED
                BY <3>2, <3>3, <4>1 DEF p
        <3>5. n + 1 <= MaxPages[t]
            BY <2>4, <2>7, <3>2, <3>4
        <3>6. m = Metadata(n, n + 1)
            <4>1. (n + 1) % PgnoRange = n + 1
                BY <2>4, <3>2, <3>5
            <4> QED
                BY <3>3, <3>4, <4>1 DEF m
        <3>7. Len(Append(pages, ZeroPage)) = n + 1 /\ n + 1 - 1 = n
            BY <3>1, <3>2
        <3>8. Counts(r.e, t, Append(pages, ZeroPage))
            BY <2>16, <3>5, <3>6, <3>7 DEF Counts
        <3>9. q = Len(pages) \div segment_size
              /\ file = WritePage(f.fs.data[i], Len(pages) % segment_size, ZeroPage)
            BY <2>12, <3>2, <3>4 DEF pgno_to_segid, pgno_to_rel_pgno
        <3> HIDE DEF q
        <3>10. TableOK(g, t, Append(pages, ZeroPage))
            BY <2>11, <2>12, <2>18, <3>9, Grown
        <3> QED
            BY <2>16, <3>8, <3>10
    <2> QED
        BY <2>15, <2>17, <2>18 DEF r
<1> QED
    BY <1>1, <1>2, <1>3
-----------------------------------------------------------------------------
\* read_page and write_page open a segment that is there, or fail.
LEMMA PageSegmentIs ==
    ASSUME NEW e, EngineOK(e), NEW t \in Tables, NEW p \in Pages
    PROVE  LET r == PageSegment(e, t, p)
               k == <<t, pgno_to_segid(p)>>
           IN  /\ \/ /\ r.out = "ok" /\ Opens(e, r.e, k, r.file)
                     /\ k \in DOMAIN e.fs.names
                  \/ r.out # "ok" /\ Spares(e, r.e, t)
               /\ \A pages : TableOK(e, t, pages) /\ Counts(e, t, pages) =>
                      IF p < Len(pages) THEN r.out = "ok" ELSE r = Fails(e, "past last page")
<1> DEFINE r == PageSegment(e, t, p)
<1> DEFINE q == pgno_to_segid(p)
<1> DEFINE k == <<t, q>>
<1> DEFINE latest == get_latest_page(e, t)
<1> DEFINE seg == get_segment(e, t, p)
<1>0. /\ t \in DOMAIN e.meta =>
             latest.e = e /\ latest.out = "ok" /\ latest.last = e.meta[t].last
      /\ t \notin DOMAIN e.meta => /\ latest.out \in {"open failed", "assert 104"}
                                   /\ Spares(e, latest.e, t)
    BY LatestIs
<1>1. CASE t \notin DOMAIN e.meta
    <2>1. r = latest /\ latest.out # "ok" /\ Spares(e, latest.e, t)
        BY <1>0, <1>1 DEF PageSegment
    <2>2. \A pages : ~Counts(e, t, pages)
        BY <1>1 DEF Counts
    <2> HIDE DEF r, latest
    <2> QED
        BY <2>1, <2>2 DEF r
<1>2. CASE t \in DOMAIN e.meta
    <2>1. r = IF p > e.meta[t].last THEN Fails(e, "past last page") ELSE seg
        BY <1>0, <1>2 DEF PageSegment
    <2>2. <<t, q>> \in Keys /\ p \in Nat
        BY KeysOf
    <2>3. e.meta[t].last \in Nat
        BY <1>2 DEF EngineOK, MetaOK, MetaType
    <2>4. seg = IF t \notin e.fs.dirs \/ k \notin DOMAIN e.fs.names
                  THEN Fails(e, "assert 79") ELSE open_segment(e, t, q)
        BY DEF get_segment, dir_exists, seg_exists
    <2>5. t \in e.fs.dirs /\ k \in DOMAIN e.fs.names =>
              seg.out = "ok" /\ Opens(e, seg.e, k, seg.file)
        BY <2>2, <2>4, OpenSegmentIs
    <2>6. ~(t \in e.fs.dirs /\ k \in DOMAIN e.fs.names) =>
              seg.out # "ok" /\ Spares(e, seg.e, t)
        <3> SUFFICES ASSUME ~(t \in e.fs.dirs /\ k \in DOMAIN e.fs.names)
                     PROVE  seg.out # "ok" /\ Spares(e, seg.e, t)
            OBVIOUS
        <3>1. seg = Fails(e, "assert 79")
            BY <2>4
        <3> HIDE DEF seg
        <3>2. seg.out = "assert 79" /\ seg.e = e
            BY <3>1, Outcomes
        <3> QED
            BY <3>2, SparesSelf
    <2> HIDE DEF r, seg, k
    <2>7. \/ r.out = "ok" /\ Opens(e, r.e, k, r.file) /\ k \in DOMAIN e.fs.names
          \/ r.out # "ok" /\ Spares(e, r.e, t)
        <3>1. CASE p > e.meta[t].last
            <4>1. r.out = "past last page" /\ r.e = e
                BY <2>1, <3>1, Outcomes
            <4> QED
                BY <4>1, SparesSelf
        <3>2. CASE ~(p > e.meta[t].last)
            BY <2>1, <2>5, <2>6, <3>2
        <3> QED
            BY <3>1, <3>2
    <2>8. ASSUME NEW pages, TableOK(e, t, pages), Counts(e, t, pages)
          PROVE  IF p < Len(pages) THEN r.out = "ok" ELSE r = Fails(e, "past last page")
        <3>1. pages \in Seq(PageType) /\ pages # <<>> /\ t \in e.fs.dirs
              /\ \A s : <<t, s>> \in DOMAIN e.fs.names <=> s \in 0 .. LastSeg(Len(pages))
            BY <2>8 DEF TableOK, OnDisk
        <3>2. PICK n \in Nat : n = Len(pages) /\ n # 0
            BY <3>1
        <3>3. e.meta[t].last = n - 1
            BY <2>8, <3>2 DEF Counts, Metadata
        <3>4. CASE p < n
            <4>1. p \in 0 .. n - 1 /\ ~(p > e.meta[t].last)
                BY <2>2, <3>2, <3>3, <3>4
            <4>2. q \in 0 .. LastSeg(n)
                BY <4>1, PagePlace DEF pgno_to_segid
            <4>3. k \in DOMAIN e.fs.names
                BY <3>1, <3>2, <4>2 DEF k
            <4> QED
                BY <2>1, <2>5, <3>1, <3>2, <3>4, <4>1, <4>3
        <3>5. CASE ~(p < n)
            <4>1. p > e.meta[t].last
                BY <2>2, <3>2, <3>3, <3>5
            <4> QED
                BY <2>1, <3>2, <3>5, <4>1
        <3> QED
            BY <3>4, <3>5
    <2> QED
        BY <2>7, <2>8 DEF r, k
<1> QED
    BY <1>1, <1>2

LEMMA WriteIs ==
    ASSUME NEW e, EngineOK(e), NEW t \in Tables, NEW p \in Pages, NEW v \in Values
    PROVE  LET r == write_page(e, t, p, v)
           IN  /\ Spares(e, r.e, t)
               /\ \A pages : TableOK(e, t, pages) /\ Counts(e, t, pages) =>
                      IF p < Len(pages)
                        THEN /\ r.out = "ok" /\ r.e.meta = e.meta
                             /\ TableOK(r.e, t, [pages EXCEPT ![p + 1] = Page(v, v)])
                        ELSE r = Fails(e, "past last page")
<1> DEFINE r == write_page(e, t, p, v)
<1> DEFINE q == pgno_to_segid(p)
<1> DEFINE seg == PageSegment(e, t, p)
<1>1. /\ \/ /\ seg.out = "ok" /\ Opens(e, seg.e, <<t, q>>, seg.file)
            /\ <<t, q>> \in DOMAIN e.fs.names
         \/ seg.out # "ok" /\ Spares(e, seg.e, t)
      /\ \A pages : TableOK(e, t, pages) /\ Counts(e, t, pages) =>
             IF p < Len(pages) THEN seg.out = "ok" ELSE seg = Fails(e, "past last page")
    BY PageSegmentIs
<1>2. CASE seg.out # "ok"
    <2>1. r = seg
        BY <1>2 DEF write_page
    <2> HIDE DEF r, seg
    <2>2. /\ Spares(e, r.e, t)
          /\ \A pages : TableOK(e, t, pages) /\ Counts(e, t, pages) =>
                 ~(p < Len(pages)) /\ r = Fails(e, "past last page")
        BY <1>1, <1>2, <2>1
    <2> QED
        BY <2>2 DEF r
<1>3. CASE seg.out = "ok"
    <2> DEFINE page == Page(v, v)
    <2> DEFINE file == WritePage(seg.e.fs.data[seg.file], pgno_to_rel_pgno(p), page)
    <2> DEFINE g == Wrote(seg.e, seg.file, file)
    <2>1. r = Ok(g)
        BY <1>3 DEF write_page
    <2>2. PICK f, i : f = seg.e /\ i = seg.file
        OBVIOUS
    <2>3. Opens(e, f, <<t, q>>, i) /\ <<t, q>> \in DOMAIN e.fs.names
        BY <1>1, <1>3, <2>2
    <2>4. file = WritePage(f.fs.data[i], pgno_to_rel_pgno(p), page) /\ g = Wrote(f, i, file)
        BY <2>2
    <2>5. page \in PageType /\ page.body # Short
        BY PageTypes
    <2> HIDE DEF page, file, g, seg
    <2>6. p \in Nat
        BY KeysOf
    <2>7. file \in Seq(PageType)
        <3>1. pgno_to_rel_pgno(p) \in Nat
            BY <2>6, DivMod DEF pgno_to_rel_pgno
        <3> QED
            BY <2>3, <2>4, <2>5, <3>1, InHandIs, WriteTypes
    <2>8. Spares(e, g, t) /\ g.meta = e.meta
        BY <2>3, <2>4, <2>7, WriteSpares, WriteFields
    <2>9. r.e = g /\ r.out = "ok"
        BY <2>1, Outcomes
    <2> HIDE DEF r
    <2>10. ASSUME NEW pages, TableOK(e, t, pages), Counts(e, t, pages)
           PROVE  /\ p < Len(pages)
                  /\ TableOK(g, t, [pages EXCEPT ![p + 1] = page])
        <3>1. /\ t \in e.fs.dirs /\ pages \in Seq(PageType) /\ pages # <<>> /\ AllWhole(pages)
              /\ OpenRight(e, t)
              /\ \A s : <<t, s>> \in DOMAIN e.fs.names <=> s \in 0 .. LastSeg(Len(pages))
              /\ \A s \in 0 .. LastSeg(Len(pages)) :
                     e.fs.data[e.fs.names[<<t, s>>]] = Segment(pages, s)
            BY <2>10 DEF TableOK, OnDisk
        <3>2. PICK n \in Nat : n = Len(pages) /\ n # 0 /\ DOMAIN pages = 1 .. n
            BY <3>1
        <3>3. p < Len(pages)
            <4> SUFFICES ASSUME ~(p < Len(pages)) PROVE FALSE
                OBVIOUS
            <4>1. seg = Fails(e, "past last page")
                BY <1>1, <2>10
            <4>2. seg.out = "past last page"
                BY <4>1, Outcomes
            <4> QED
                BY <1>3, <4>2
        <3>4. p \in 0 .. Len(pages) - 1
            BY <2>6, <3>2, <3>3
        <3>5. PICK new : new = [pages EXCEPT ![p + 1] = page]
            OBVIOUS
        <3>6. new \in Seq(PageType) /\ new # <<>> /\ AllWhole(new) /\ Len(new) = n
            <4>0. DOMAIN new = 1 .. n
                  /\ \A j \in 1 .. n : new[j] = IF j = p + 1 THEN page ELSE pages[j]
                BY <3>2, <3>5
            <4>1. new \in Seq(PageType) /\ Len(new) = n /\ DOMAIN new = 1 .. n
                  /\ \A j \in 1 .. n : new[j] = IF j = p + 1 THEN page ELSE pages[j]
                <5>1. pages \in [1 .. n -> PageType]
                    BY <3>1, <3>2
                <5>2. new \in [1 .. n -> PageType]
                    BY <2>5, <3>5, <5>1
                <5> QED
                    BY <3>2, <4>0, <5>2
            <4>2. AllWhole(new)
                BY <2>5, <3>1, <3>2, <4>1 DEF AllWhole
            <4>3. new # <<>>
                BY <3>2, <4>1
            <4> QED
                BY <4>1, <4>2, <4>3
        <3>7. /\ WritePage(Segment(pages, q), pgno_to_rel_pgno(p), page) = Segment(new, q)
              /\ \A s \in Nat : s # q /\ s * segment_size <= n => Segment(new, s) = Segment(pages, s)
            BY <2>5, <3>1, <3>2, <3>4, <3>5, SegmentChanges DEF pgno_to_segid, pgno_to_rel_pgno
        <3>8. q \in 0 .. LastSeg(n)
            BY <3>1, <3>2, <2>3
        <3> HIDE DEF q
        <3>9. \A s : (<<t, s>> \in DOMAIN e.fs.names \/ s = q) <=> s \in 0 .. LastSeg(Len(new))
            BY <3>1, <3>2, <3>6, <3>8
        <3>10. \A s \in 0 .. LastSeg(Len(new)) :
                  s # q => e.fs.data[e.fs.names[<<t, s>>]] = Segment(new, s)
            <4> SUFFICES ASSUME NEW s \in 0 .. LastSeg(n), s # q
                         PROVE  e.fs.data[e.fs.names[<<t, s>>]] = Segment(new, s)
                BY <3>6
            <4>1. s \in Nat /\ s * segment_size <= n
                BY <3>2, SegStarts
            <4>2. e.fs.data[e.fs.names[<<t, s>>]] = Segment(pages, s)
                BY <3>1, <3>2
            <4> QED
                BY <3>7, <4>1, <4>2
        <3>11. f.fs.data[i] = Segment(pages, q)
            <4>1. f.fs.data[i] = e.fs.data[e.fs.names[<<t, q>>]]
                BY <2>3, <3>1, InHandHolds
            <4> QED
                BY <3>1, <3>2, <3>8, <4>1
        <3>12. file = Segment(new, q)
            BY <2>4, <3>7, <3>11
        <3>13. TableOK(g, t, new)
            BY <2>3, <2>4, <2>7, <3>1, <3>6, <3>9, <3>10, <3>12, Updated
        <3> QED
            BY <3>3, <3>5, <3>13
    <2> QED
        BY <2>8, <2>9, <2>10 DEF r, page
<1> QED
    BY <1>2, <1>3
-----------------------------------------------------------------------------
\* Engine f of engine e, with the same tables, files and pages.
Calm(e, f) ==
    /\ EngineOK(f) /\ f.meta = e.meta /\ f.fs.dirs = e.fs.dirs
    /\ DOMAIN f.fs.names = DOMAIN e.fs.names
    /\ \A u, pages : TableOK(e, u, pages) => TableOK(f, u, pages)

LEMMA CalmTrans ==
    ASSUME NEW e, NEW f, NEW g, Calm(e, f), Calm(f, g)
    PROVE  Calm(e, g)
BY DEF Calm

LEMMA OpenNamed ==
    ASSUME NEW e, EngineOK(e), NEW t, NEW s, <<t, s>> \in DOMAIN e.fs.names
    PROVE  LET r == open_segment(e, t, s)
           IN  /\ r.out = "ok" /\ Opens(e, r.e, <<t, s>>, r.file)
               /\ Calm(e, r.e)
<1> DEFINE r == open_segment(e, t, s)
<1>1. <<t, s>> \in Keys /\ t \in e.fs.dirs
    <2>1. <<t, s>> \in Keys /\ <<t, s>>[1] \in e.fs.dirs
        BY DEF EngineOK, DiskOK
    <2> QED
        BY <2>1
<1>2. r.out = "ok" /\ Opens(e, r.e, <<t, s>>, r.file)
    BY <1>1, OpenSegmentIs
<1> HIDE DEF r
<1>3. PICK f, i : f = r.e /\ i = r.file
    OBVIOUS
<1>4. Opens(e, f, <<t, s>>, i)
    BY <1>2, <1>3
<1>5. \A u, pages : TableOK(e, u, pages) => TableOK(f, u, pages)
    BY <1>4, OpenKeeps
<1>6. Calm(e, f)
    BY <1>4, <1>5 DEF Opens, Calm
<1> QED
    BY <1>2, <1>3, <1>6 DEF r

\* f is the run of SyncSegments' loop over the first n segments of order.
SyncRun(f, e, t, order, n) ==
    f = [i \in 0 .. n |-> IF i = 0 THEN e ELSE open_segment(f[i - 1], t, order[i]).e]

\* The definition of SyncSegments by recursion defines a function.
LEMMA SyncDefined ==
    ASSUME NEW e, NEW t, NEW order, NEW n \in Nat
    PROVE  \E f : SyncRun(f, e, t, order, n)
<1> DEFINE Up(m) == \E f : SyncRun(f, e, t, order, m)
<1> DEFINE T == {m \in Nat : ~Up(m)}
<1>1. SUFFICES ASSUME T # {} PROVE FALSE
    BY <1>1
<1>2. PICK m \in T : \A y \in T : m <= y
    BY <1>1, LeastNat
<1>3. m # 0
    <2>1. PICK f : f = [i \in 0 .. 0 |-> e]
        OBVIOUS
    <2>2. f = [i \in 0 .. 0 |-> IF i = 0 THEN e ELSE open_segment(f[i - 1], t, order[i]).e]
        BY <2>1
    <2>3. Up(0)
        BY <2>2 DEF SyncRun
    <2> QED
        BY <1>2, <2>3
<1>4. PICK l \in Nat : m = l + 1
    BY <1>2, <1>3
<1>5. Up(l)
    <2>1. ~(m <= l)
        BY <1>4
    <2>2. l \notin T
        <3> HIDE DEF T
        <3> QED
            BY <1>2, <2>1
    <2> QED
        BY <2>2
<1>6. PICK f : f = [i \in 0 .. l |->
                       IF i = 0 THEN e ELSE open_segment(f[i - 1], t, order[i]).e]
    BY <1>5 DEF SyncRun
<1>7. PICK g : g = [i \in 0 .. m |->
                       IF i = m THEN open_segment(f[l], t, order[m]).e ELSE f[i]]
    OBVIOUS
<1>8. ASSUME NEW i \in 0 .. m
      PROVE  g[i] = IF i = 0 THEN e ELSE open_segment(g[i - 1], t, order[i]).e
    <2>1. CASE i = m
        <3>1. g[i - 1] = f[l]
            BY <1>4, <1>7, <2>1
        <3> QED
            BY <1>4, <1>7, <2>1, <3>1
    <2>2. CASE i # m /\ i = 0
        <3>1. f[0] = e
            BY <1>6
        <3> QED
            BY <1>7, <2>2, <3>1
    <2>3. CASE i # m /\ i # 0
        <3>1. i \in 0 .. l /\ i - 1 \in 0 .. m /\ i - 1 # m
            BY <1>4, <2>3
        <3>2. g[i] = f[i] /\ g[i - 1] = f[i - 1]
            BY <1>7, <2>3, <3>1
        <3>3. f[i] = open_segment(f[i - 1], t, order[i]).e
            BY <1>6, <2>3, <3>1
        <3> QED
            BY <2>3, <3>2, <3>3
    <2> QED
        BY <2>1, <2>2, <2>3
<1>9. g = [i \in 0 .. m |-> IF i = 0 THEN e ELSE open_segment(g[i - 1], t, order[i]).e]
    <2>1. DOMAIN g = 0 .. m /\ g = [i \in 0 .. m |-> g[i]]
        BY <1>7
    <2> QED
        BY <1>8, <2>1
<1>10. Up(m)
    BY <1>9 DEF SyncRun
<1> QED
    BY <1>2, <1>10

\* Every segment opened is one of the table's, so syncing changes nothing.
LEMMA SyncIs ==
    ASSUME NEW e, EngineOK(e), NEW t, NEW order, Len(order) \in Nat,
           \A i \in 1 .. Len(order) : <<t, order[i]>> \in DOMAIN e.fs.names
    PROVE  Calm(e, SyncSegments(e, t, order))
<1> DEFINE n == Len(order)
<1> DEFINE A == CHOOSE f : f = [i \in 0 .. n |->
                          IF i = 0 THEN e ELSE open_segment(f[i - 1], t, order[i]).e]
<1>1. SyncSegments(e, t, order) = A[n]
    BY DEF SyncSegments
<1>2. A = [i \in 0 .. n |-> IF i = 0 THEN e ELSE open_segment(A[i - 1], t, order[i]).e]
    <2>1. n \in Nat
        OBVIOUS
    <2>2. A = CHOOSE f : SyncRun(f, e, t, order, n)
        BY DEF SyncRun
    <2> HIDE DEF A, n
    <2>3. SyncRun(A, e, t, order, n)
        BY <2>1, <2>2, SyncDefined
    <2> QED
        BY <2>3 DEF SyncRun
<1> HIDE DEF A, n
<1>n. n \in Nat /\ \A i \in 1 .. n : <<t, order[i]>> \in DOMAIN e.fs.names
    BY DEF n
<1>3. A[0] = e /\ Calm(e, e)
    BY <1>2, <1>n DEF Calm
<1>4. ASSUME NEW i \in 1 .. n, Calm(e, A[i - 1]) PROVE Calm(e, A[i])
    <2>1. A[i] = open_segment(A[i - 1], t, order[i]).e
        BY <1>2, <1>n
    <2>2. PICK f : f = A[i - 1]
        OBVIOUS
    <2>3. EngineOK(f) /\ <<t, order[i]>> \in DOMAIN f.fs.names /\ Calm(e, f)
        BY <1>4, <1>n, <2>2 DEF Calm
    <2>4. Calm(f, open_segment(f, t, order[i]).e)
        BY <2>3, OpenNamed
    <2> QED
        BY <2>1, <2>2, <2>3, <2>4, CalmTrans
<1> DEFINE T == {i \in 0 .. n : ~Calm(e, A[i])}
<1>5. T = {}
    <2> SUFFICES ASSUME T # {} PROVE FALSE
        OBVIOUS
    <2>1. PICK m \in T : \A y \in T : m <= y
        <3>1. T \in SUBSET Nat
            BY <1>n
        <3> QED
            BY <3>1, LeastNat
    <2>2. m \in 1 .. n
        BY <1>3, <1>n, <2>1
    <2>3. m - 1 \in 0 .. n /\ m - 1 \notin T
        BY <1>n, <2>1, <2>2
    <2>4. Calm(e, A[m - 1])
        BY <2>3
    <2>5. Calm(e, A[m])
        BY <1>4, <2>2, <2>4
    <2> QED
        BY <2>1, <2>5
<1>6. Calm(e, A[n])
    BY <1>5, <1>n
<1> QED
    BY <1>1, <1>6

LEMMA WriteMetadataIs ==
    ASSUME NEW e, EngineOK(e), NEW t \in DOMAIN e.meta, <<t, 0>> \in DOMAIN e.fs.names
    PROVE  LET r == WriteMetadata(e, t)
           IN  /\ r.out = "ok" /\ Spares(e, r.e, t) /\ r.e.meta = e.meta
               /\ r.e.fs.dirs = e.fs.dirs /\ DOMAIN r.e.fs.names = DOMAIN e.fs.names
               /\ \A pages : TableOK(e, t, pages) => TableOK(r.e, t, Retitled(pages, e.meta[t]))
<1> DEFINE r == WriteMetadata(e, t)
<1> DEFINE seg == open_segment(e, t, 0)
<1> DEFINE file == WriteHead(seg.e.fs.data[seg.file], e.meta[t])
<1> DEFINE g == Wrote(seg.e, seg.file, file)
<1>1. t \in Tables /\ e.meta[t] \in MetaType
    BY DEF EngineOK, MetaOK
<1>2. r = Ok(g)
    BY <1>1, KeysOf DEF WriteMetadata, seg_exists
<1>3. seg.out = "ok" /\ Opens(e, seg.e, <<t, 0>>, seg.file) /\ Calm(e, seg.e)
    BY OpenNamed
<1>4. PICK f, i : f = seg.e /\ i = seg.file
    OBVIOUS
<1>5. Opens(e, f, <<t, 0>>, i) /\ DOMAIN f.fs.names = DOMAIN e.fs.names
    BY <1>3, <1>4 DEF Calm
<1>6. file = WriteHead(f.fs.data[i], e.meta[t]) /\ g = Wrote(f, i, file)
    BY <1>4
<1> HIDE DEF file, g, seg
<1>7. file \in Seq(PageType)
    BY <1>1, <1>5, <1>6, InHandIs, HeadTypes
<1>8. /\ Spares(e, g, t) /\ g.meta = e.meta /\ g.fs.dirs = e.fs.dirs
      /\ g.fs.names = f.fs.names
    BY <1>5, <1>6, <1>7, WriteSpares, WriteFields
<1>9. r.e = g /\ r.out = "ok"
    BY <1>2, Outcomes
<1> HIDE DEF r
<1>10. ASSUME NEW pages, TableOK(e, t, pages)
       PROVE  TableOK(g, t, Retitled(pages, e.meta[t]))
    <2>1. /\ t \in e.fs.dirs /\ pages \in Seq(PageType) /\ pages # <<>> /\ AllWhole(pages)
          /\ OpenRight(e, t)
          /\ \A s : <<t, s>> \in DOMAIN e.fs.names <=> s \in 0 .. LastSeg(Len(pages))
          /\ \A s \in 0 .. LastSeg(Len(pages)) :
                 e.fs.data[e.fs.names[<<t, s>>]] = Segment(pages, s)
        BY <1>10 DEF TableOK, OnDisk
    <2>2. PICK n \in Nat : n = Len(pages) /\ n # 0
        BY <2>1
    <2>3. PICK new : new = Retitled(pages, e.meta[t])
        OBVIOUS
    <2>4. /\ new \in Seq(PageType) /\ AllWhole(new) /\ Len(new) = n
          /\ WriteHead(Segment(pages, 0), e.meta[t]) = Segment(new, 0)
          /\ \A s \in Nat : s # 0 /\ s * segment_size <= n => Segment(new, s) = Segment(pages, s)
        BY <1>1, <2>1, <2>2, <2>3, SegmentRetitled
    <2>5. new # <<>>
        BY <2>2, <2>4
    <2>6. 0 \in 0 .. LastSeg(n)
        BY <2>1, <2>2
    <2>7. \A s : (<<t, s>> \in DOMAIN e.fs.names \/ s = 0) <=> s \in 0 .. LastSeg(Len(new))
        BY <2>1, <2>2, <2>4
    <2>8. \A s \in 0 .. LastSeg(Len(new)) :
              s # 0 => e.fs.data[e.fs.names[<<t, s>>]] = Segment(new, s)
        <3> SUFFICES ASSUME NEW s \in 0 .. LastSeg(n), s # 0
                     PROVE  e.fs.data[e.fs.names[<<t, s>>]] = Segment(new, s)
            BY <2>4
        <3>1. s \in Nat /\ s * segment_size <= n
            BY <2>2, SegStarts
        <3>2. e.fs.data[e.fs.names[<<t, s>>]] = Segment(pages, s)
            BY <2>1, <2>2
        <3> QED
            BY <2>4, <3>1, <3>2
    <2>9. f.fs.data[i] = Segment(pages, 0)
        <3>1. PICK q : q = 0
            OBVIOUS
        <3>2. f.fs.data[i] = e.fs.data[e.fs.names[<<t, q>>]]
            BY <1>5, <2>1, <3>1, InHandHolds
        <3> QED
            BY <2>1, <2>2, <2>6, <3>1, <3>2
    <2>10. file = Segment(new, 0)
        BY <1>6, <2>4, <2>9
    <2>11. TableOK(Wrote(f, i, file), t, new)
        BY <1>5, <1>7, <2>1, <2>4, <2>5, <2>7, <2>8, <2>10, Updated
    <2> QED
        BY <1>6, <2>3, <2>11
<1> QED
    BY <1>5, <1>8, <1>9, <1>10 DEF r

\* order lists segments of table t.
Listed(e, t, order) ==
    /\ Len(order) \in Nat
    /\ \A i \in 1 .. Len(order) : <<t, order[i]>> \in DOMAIN e.fs.names

\* Engine f of engine e, with the metadata of t written to page 0 of t.
Retitles(e, f, t) ==
    /\ Spares(e, f, t) /\ f.meta = e.meta
    /\ f.fs.dirs = e.fs.dirs /\ DOMAIN f.fs.names = DOMAIN e.fs.names
    /\ \A pages : TableOK(e, t, pages) => TableOK(f, t, Retitled(pages, e.meta[t]))

\* flush_table of a table in memory: page 0 of it starts with the metadata,
\* or its first segment is gone and nothing happens.
LEMMA FlushIs ==
    ASSUME NEW e, EngineOK(e), NEW t \in DOMAIN e.meta, NEW order, Listed(e, t, order)
    PROVE  LET r == flush_table(e, t, order)
           IN  /\ <<t, 0>> \notin DOMAIN e.fs.names => r = Fails(e, "assert 219")
               /\ <<t, 0>> \in DOMAIN e.fs.names => r.out = "ok" /\ Retitles(e, r.e, t)
<1> DEFINE r == flush_table(e, t, order)
<1> DEFINE w == WriteMetadata(e, t)
<1>0. t \in Tables
    BY DEF EngineOK, MetaOK
<1>1. CASE <<t, 0>> \notin DOMAIN e.fs.names
    <2>1. w = Fails(e, "assert 219")
        BY <1>0, <1>1, KeysOf DEF WriteMetadata, seg_exists
    <2> HIDE DEF w
    <2>2. w.out = "assert 219"
        BY <2>1, Outcomes
    <2> USE DEF w
    <2>3. r = w
        BY <2>2 DEF flush_table
    <2> QED
        BY <1>1, <2>1, <2>3
<1>2. CASE <<t, 0>> \in DOMAIN e.fs.names
    <2>1. t \in e.fs.dirs
        <3>1. <<t, 0>>[1] \in e.fs.dirs
            BY <1>2 DEF EngineOK, DiskOK
        <3> QED
            BY <3>1
    <2>2. /\ w.out = "ok" /\ Spares(e, w.e, t) /\ w.e.meta = e.meta
          /\ w.e.fs.dirs = e.fs.dirs /\ DOMAIN w.e.fs.names = DOMAIN e.fs.names
          /\ \A pages : TableOK(e, t, pages) => TableOK(w.e, t, Retitled(pages, e.meta[t]))
        BY <1>2, WriteMetadataIs
    <2> DEFINE f == w.e
    <2>3. r = Ok(SyncSegments(f, t, order))
        BY <2>1, <2>2 DEF flush_table, dir_exists
    <2> HIDE DEF w, f
    <2>4. /\ Spares(e, f, t) /\ f.meta = e.meta
          /\ f.fs.dirs = e.fs.dirs /\ DOMAIN f.fs.names = DOMAIN e.fs.names
          /\ \A pages : TableOK(e, t, pages) => TableOK(f, t, Retitled(pages, e.meta[t]))
        BY <2>2 DEF f
    <2> DEFINE g == SyncSegments(f, t, order)
    <2>5. Calm(f, g)
        BY <2>4, SyncIs DEF Spares, Listed
    <2>6. r.e = g /\ r.out = "ok"
        BY <2>3, Outcomes
    <2> HIDE DEF g, r
    <2>7. Spares(e, g, t)
        BY <2>4, <2>5 DEF Spares, Calm
    <2>8. g.meta = e.meta /\ g.fs.dirs = e.fs.dirs /\ DOMAIN g.fs.names = DOMAIN e.fs.names
        BY <2>4, <2>5 DEF Calm
    <2>9. \A pages : TableOK(e, t, pages) => TableOK(g, t, Retitled(pages, e.meta[t]))
        BY <2>4, <2>5 DEF Calm
    <2>10. Retitles(e, r.e, t)
        BY <2>6, <2>7, <2>8, <2>9 DEF Retitles
    <2> QED
        BY <1>2, <2>6, <2>10 DEF r
<1> QED
    BY <1>1, <1>2

\* flush_table of a table that is not in memory changes no table.
LEMMA FlushUnknown ==
    ASSUME NEW e, EngineOK(e), NEW t, t \notin DOMAIN e.meta, NEW order, Listed(e, t, order)
    PROVE  LET r == flush_table(e, t, order)
           IN  Calm(e, r.e) /\ r.out \in {"ok", "ls failed"}
<1> DEFINE r == flush_table(e, t, order)
<1> DEFINE w == WriteMetadata(e, t)
<1>1. w = Ok(e)
    BY DEF WriteMetadata
<1>2. w.out = "ok" /\ w.e = e
    BY <1>1, Outcomes
<1>3. r = IF t \notin e.fs.dirs THEN Fails(e, "ls failed") ELSE Ok(SyncSegments(e, t, order))
    BY <1>2 DEF flush_table, dir_exists
<1> HIDE DEF r
<1>4. Calm(e, e) /\ Calm(e, SyncSegments(e, t, order))
    BY SyncIs DEF Calm, Listed
<1>5. Calm(e, r.e) /\ r.out \in {"ok", "ls failed"}
    <2>1. CASE t \notin e.fs.dirs
        <3>1. r.e = e /\ r.out = "ls failed"
            BY <1>3, <2>1, Outcomes
        <3> QED
            BY <1>4, <3>1
    <2>2. CASE t \in e.fs.dirs
        <3>1. r.e = SyncSegments(e, t, order) /\ r.out = "ok"
            BY <1>3, <2>2, Outcomes
        <3> QED
            BY <1>4, <3>1
    <2> QED
        BY <2>1, <2>2
<1> QED
    BY <1>5 DEF r
-----------------------------------------------------------------------------
\* Names taken away from one table.
LEMMA UnlinkIs ==
    ASSUME NEW fs, DiskOK(fs), NEW t, NEW S
    PROVE  LET g == unlink(fs, t, S)
           IN  /\ DiskOK(g) /\ g.dirs = fs.dirs /\ g.data = fs.data
               /\ DOMAIN g.names = {n \in DOMAIN fs.names : n[1] # t \/ n[2] \notin S}
               /\ \A n \in DOMAIN g.names : g.names[n] = fs.names[n]
               /\ \A u, pages : u # t /\ OnDisk(fs, u, pages) => OnDisk(g, u, pages)
<1> DEFINE g == unlink(fs, t, S)
<1> DEFINE D == {n \in DOMAIN fs.names : n[1] # t \/ n[2] \notin S}
<1>1. g.dirs = fs.dirs /\ g.data = fs.data /\ g.names = [n \in D |-> fs.names[n]]
    BY DiskFields DEF unlink, Restrict
<1> HIDE DEF g
<1>2. DOMAIN g.names = D /\ \A n \in D : g.names[n] = fs.names[n]
    BY <1>1
<1>3. D \subseteq DOMAIN fs.names /\ IsFiniteSet(D)
    BY FS_Subset DEF DiskOK
<1>u. ASSUME NEW u, u # t, NEW s PROVE <<u, s>> \in D <=> <<u, s>> \in DOMAIN fs.names
    BY <1>u
<1> HIDE DEF D
<1>4. DiskOK(g)
    BY <1>1, <1>2, <1>3 DEF DiskOK
<1>5. \A u, pages : u # t /\ OnDisk(fs, u, pages) => OnDisk(g, u, pages)
    BY <1>1, <1>2, <1>u DEF OnDisk
<1> QED
    BY <1>1, <1>2, <1>4, <1>5 DEF g, D

LEMMA TruncateIs ==
    ASSUME NEW e, EngineOK(e), NEW t
    PROVE  LET r == truncate_table(e, t)
           IN  /\ t \notin e.fs.dirs => r = Fails(e, "ls failed")
               /\ t \in e.fs.dirs =>
                      /\ r.out = "ok" /\ Spares(e, r.e, t) /\ r.e.meta = e.meta
                      /\ r.e.fs.dirs = e.fs.dirs
                      /\ \A n \in DOMAIN r.e.fs.names : n[1] # t
<1> DEFINE r == truncate_table(e, t)
<1>1. CASE t \notin e.fs.dirs
    BY <1>1 DEF truncate_table, dir_exists
<1>2. CASE t \in e.fs.dirs
    <2> DEFINE fs == unlink(e.fs, t, ls(e.fs, t))
    <2> DEFINE d == WithFS(e, fs)
    <2> DEFINE f == Tidy(d)
    <2>1. r = Ok(f)
        BY <1>2 DEF truncate_table, dir_exists
    <2>2. d.fs = fs /\ d.meta = e.meta /\ d.cache = e.cache
        BY EngineFields
    <2>3. /\ DiskOK(fs) /\ fs.dirs = e.fs.dirs /\ fs.data = e.fs.data
          /\ DOMAIN fs.names = {n \in DOMAIN e.fs.names : n[1] # t \/ n[2] \notin ls(e.fs, t)}
          /\ \A n \in DOMAIN fs.names : fs.names[n] = e.fs.names[n]
          /\ \A u, pages : u # t /\ OnDisk(e.fs, u, pages) => OnDisk(fs, u, pages)
        BY UnlinkIs DEF EngineOK
    <2> HIDE DEF fs, d, f
    <2>4. \A n \in DOMAIN fs.names : n[1] # t /\ n \in DOMAIN e.fs.names
        <3> SUFFICES ASSUME NEW n \in DOMAIN fs.names, n[1] = t PROVE FALSE
            BY <2>3
        <3>1. n \in DOMAIN e.fs.names /\ n[2] \notin ls(e.fs, t)
            BY <2>3
        <3>2. n = <<t, n[2]>>
            BY <3>1 DEF EngineOK, DiskOK
        <3>3. n[2] \in ls(e.fs, t)
            BY <3>1, <3>2 DEF ls, seg_exists
        <3> QED
            BY <3>1, <3>3
    <2>5. OpenKeys(d) = OpenKeys(e)
        BY <2>2 DEF OpenKeys
    <2>6. CacheOK(d) /\ MetaOK(d.meta) /\ DiskOK(d.fs)
        BY <2>2, <2>3, <2>4, <2>5 DEF EngineOK, CacheOK
    <2>7. /\ EngineOK(f) /\ f.fs.dirs = d.fs.dirs /\ f.fs.names = d.fs.names
          /\ f.cache = d.cache /\ f.meta = d.meta
          /\ \A n \in DOMAIN d.fs.names : d.fs.names[n] \in DOMAIN f.fs.data
          /\ \A i \in DOMAIN f.fs.data : f.fs.data[i] = d.fs.data[i]
        BY <2>6, TidyIs DEF f
    <2>8. ASSUME NEW u, NEW pages, u # t, TableOK(e, u, pages)
          PROVE  TableOK(f, u, pages)
        <3>1. OnDisk(fs, u, pages)
            BY <2>3, <2>8 DEF TableOK
        <3>2. OnDisk(f.fs, u, pages)
            <4>1. ASSUME NEW s, <<u, s>> \in DOMAIN fs.names
                  PROVE  f.fs.data[f.fs.names[<<u, s>>]] = fs.data[fs.names[<<u, s>>]]
                BY <2>2, <2>7, <4>1
            <4> QED
                BY <2>2, <2>7, <3>1, <4>1 DEF OnDisk
        <3>3. ASSUME NEW k \in OpenKeys(f), k[1] = u
              PROVE  k \in DOMAIN f.fs.names /\ FileOf(f.cache, k) = f.fs.names[k]
            <4>1. k \in OpenKeys(e) /\ f.cache = e.cache /\ f.fs.names = fs.names
                BY <2>2, <2>7 DEF OpenKeys
            <4>2. k \in DOMAIN e.fs.names /\ FileOf(e.cache, k) = e.fs.names[k]
                BY <2>8, <3>3, <4>1 DEF TableOK, OpenRight
            <4>3. k \in DOMAIN fs.names
                BY <2>3, <2>8, <3>3, <4>2
            <4> QED
                BY <2>3, <4>1, <4>2, <4>3
        <3> QED
            BY <3>2, <3>3 DEF TableOK, OpenRight
    <2>9. Spares(e, f, t)
        BY <2>2, <2>7, <2>8 DEF Spares
    <2>10. r.e = f /\ r.out = "ok"
        BY <2>1, Outcomes
    <2> HIDE DEF r
    <2> QED
        BY <1>2, <2>2, <2>3, <2>4, <2>7, <2>9, <2>10 DEF r
<1> QED
    BY <1>1, <1>2

LEMMA DeleteIs ==
    ASSUME NEW e, EngineOK(e), NEW t
    PROVE  LET r == delete_table(e, t)
           IN  /\ t \notin e.fs.dirs => r = Fails(e, "ls failed")
               /\ t \in e.fs.dirs =>
                      r.out = "ok" /\ Spares(e, r.e, t) /\ r.e.meta = e.meta
<1> DEFINE r == delete_table(e, t)
<1> DEFINE w == truncate_table(e, t)
<1>0. /\ t \notin e.fs.dirs => w = Fails(e, "ls failed")
      /\ t \in e.fs.dirs =>
             /\ w.out = "ok" /\ Spares(e, w.e, t) /\ w.e.meta = e.meta
             /\ w.e.fs.dirs = e.fs.dirs
             /\ \A n \in DOMAIN w.e.fs.names : n[1] # t
    BY TruncateIs
<1>1. CASE t \notin e.fs.dirs
    <2>0. w = Fails(e, "ls failed")
        BY <1>0, <1>1
    <2> HIDE DEF w
    <2>1. w.out = "ls failed"
        BY <2>0, Outcomes
    <2> USE DEF w
    <2>2. r = w
        BY <2>1 DEF delete_table
    <2> QED
        BY <1>0, <1>1, <2>2
<1>2. CASE t \in e.fs.dirs
    <2>1. PICK f : f = w.e
        OBVIOUS
    <2>2. /\ EngineOK(f) /\ Spares(e, f, t) /\ f.meta = e.meta
          /\ \A n \in DOMAIN f.fs.names : n[1] # t
        BY <1>0, <1>2, <2>1 DEF Spares
    <2> DEFINE g == WithFS(f, rmdir(f.fs, t))
    <2>3. r = Ok(g)
        BY <1>0, <1>2, <2>1 DEF delete_table
    <2>4. /\ g.meta = f.meta /\ g.cache = f.cache /\ g.fs.dirs = f.fs.dirs \ {t}
          /\ g.fs.names = f.fs.names /\ g.fs.data = f.fs.data
        BY EngineFields, DiskFields DEF rmdir
    <2> HIDE DEF g
    <2>5. DiskOK(g.fs)
        <3>1. g.fs.dirs \subseteq Tables /\ IsFiniteSet(g.fs.dirs)
            <4>1. f.fs.dirs \subseteq Tables /\ IsFiniteSet(f.fs.dirs)
                BY <2>2 DEF EngineOK, DiskOK
            <4> QED
                BY <2>4, <4>1, FS_RemoveElement
        <3> QED
            BY <2>2, <2>4, <3>1 DEF EngineOK, DiskOK
    <2>6. EngineOK(g)
        BY <2>2, <2>4, <2>5 DEF EngineOK, CacheOK, NoneAdrift, OpenKeys
    <2>7. \A u, pages : u # t /\ TableOK(f, u, pages) => TableOK(g, u, pages)
        BY <2>4 DEF TableOK, OpenRight, OpenKeys, OnDisk
    <2>8. Spares(e, g, t)
        BY <2>2, <2>4, <2>6, <2>7 DEF Spares
    <2>9. r.e = g /\ r.out = "ok"
        BY <2>3, Outcomes
    <2> HIDE DEF r
    <2> QED
        BY <1>2, <2>2, <2>4, <2>8, <2>9 DEF r
<1> QED
    BY <1>1, <1>2
-----------------------------------------------------------------------------
LEMMA FilePagesIs ==
    ASSUME NEW file \in Seq(PageType)
    PROVE  FilePages(file) \in Nat /\ (AllWhole(file) => FilePages(file) = Len(file))
<1>1. CASE file = <<>>
    BY <1>1 DEF FilePages
<1>2. CASE file # <<>>
    <2>1. Len(file) \in Nat /\ Len(file) # 0 /\ Len(file) \in DOMAIN file
        BY <1>2
    <2>2. Len(file) - 1 \in Nat
        BY <2>1
    <2> QED
        BY <2>1, <2>2 DEF FilePages, AllWhole
<1> QED
    BY <1>1, <1>2

\* A table that fits in its first segment.
LEMMA FirstSegment ==
    ASSUME NEW pages \in Seq(PageType), pages # <<>>
    PROVE  /\ 0 \in 0 .. LastSeg(Len(pages))
           /\ Len(pages) <= segment_size => LastSeg(Len(pages)) = 0
           /\ LastSeg(Len(pages)) = 0 => Segment(pages, 0) = pages
<1>1. PICK n \in Nat : n = Len(pages) /\ n # 0 /\ DOMAIN pages = 1 .. n
    OBVIOUS
<1>2. PICK l \in Nat : /\ l = LastSeg(n) /\ l * segment_size \in Nat /\ l * segment_size < n
                       /\ n <= l * segment_size + segment_size
    BY <1>1, LastSegIs
<1>3. n <= segment_size => l = 0
    <2> SUFFICES ASSUME n <= segment_size, l # 0 PROVE FALSE
        OBVIOUS
    <2>1. 0 < l /\ l \in Nat /\ 0 \in Nat
        BY <1>2
    <2>2. PICK z \in Nat : z = 0
        OBVIOUS
    <2>3. (z + 1) * segment_size <= l * segment_size
          /\ (z + 1) * segment_size = z * segment_size + segment_size
        BY <2>1, <2>2, Distribute
    <2>4. z * segment_size = 0 /\ segment_size \in Nat
        BY <2>2, SegmentSizeAssumption
    <2> QED
        BY <1>1, <1>2, <2>3, <2>4
<1>4. l = 0 => Segment(pages, 0) = pages
    <2> SUFFICES ASSUME l = 0 PROVE Segment(pages, 0) = pages
        OBVIOUS
    <2>1. 0 * segment_size = 0 /\ (0 + 1) * segment_size = segment_size /\ segment_size \in Nat
        BY SegmentSizeAssumption
    <2>2. n <= segment_size
        BY <1>1, <1>2, <2>1
    <2>3. SegLen(n, 0) = n
        <3>1. PICK z \in Nat : z = 0
            OBVIOUS
        <3>2. z * segment_size <= n
            BY <1>1, <2>1, <3>1
        <3>3. /\ (z + 1) * segment_size <= n => SegLen(n, z) = segment_size
              /\ (z + 1) * segment_size > n => SegLen(n, z) = n - z * segment_size
            BY <1>1, <3>2, SegLenIs
        <3> QED
            BY <1>1, <2>1, <2>2, <3>1, <3>3
    <2>4. Segment(pages, 0) = [j \in 1 .. n |-> pages[0 * segment_size + j]]
        BY <1>1, <2>3 DEF Segment
    <2>5. \A j \in 1 .. n : 0 * segment_size + j = j
        BY <1>1, <2>1
    <2>6. pages = [j \in 1 .. n |-> pages[j]]
        BY <1>1
    <2> QED
        BY <2>4, <2>5, <2>6
<1> QED
    BY <1>1, <1>2, <1>3, <1>4

\* A process that starts finds every page; it counts them, or it finds a
\* table that is not in one segment and stops.
LEMMA OpenedIs ==
    ASSUME NEW old, DiskOK(old)
    PROVE  LET r == Opened(old)
           IN  /\ EngineOK(r.e) /\ r.e.fs.dirs = old.dirs
               /\ r.out \in {"ok", "assert 49"}
               /\ \A t, pages : OnDisk(old, t, pages) => TableOK(r.e, t, pages)
               /\ r.out = "ok" => \A t, pages :
                      OnDisk(old, t, pages) /\ Len(pages) <= MaxPages[t] => Counts(r.e, t, pages)
               /\ r.out # "ok" => \E t \in old.dirs :
                      \A pages : OnDisk(old, t, pages) => ~(Len(pages) <= segment_size)
<1> DEFINE r == Opened(old)
<1> DEFINE ctl == init_control(old)
<1> DEFINE fs == Freed(ctl.fs, {})
<1> DEFINE Engine(meta) == [fs |-> fs, meta |-> meta, cache |-> EmptyCache,
                            control_ |-> ctl.control_]
<1> DEFINE meta == [t \in fs.dirs |-> Counted(fs, t)]
<1>1. r = IF OneSegmentEach(fs) THEN Ok(Engine(meta)) ELSE Fails(Engine(<<>>), "assert 49")
    BY DEF Opened
<1>2. ctl.fs.dirs = old.dirs /\ ctl.fs.names = old.names /\ ctl.fs.data = old.data
    BY DEF init_control
<1> HIDE DEF ctl
<1>3. DiskOK(ctl.fs)
    BY <1>2 DEF DiskOK
<1>4. /\ DiskOK(fs) /\ fs.dirs = old.dirs /\ fs.names = old.names
      /\ DOMAIN fs.data = DOMAIN old.data \cap {old.names[n] : n \in DOMAIN old.names}
      /\ \A i \in DOMAIN fs.data : fs.data[i] = old.data[i]
    <2>1. /\ DiskOK(fs) /\ fs.dirs = ctl.fs.dirs /\ fs.names = ctl.fs.names
          /\ DOMAIN fs.data = DOMAIN ctl.fs.data \cap
                                  ({} \cup {ctl.fs.names[n] : n \in DOMAIN ctl.fs.names})
          /\ \A i \in DOMAIN fs.data : fs.data[i] = ctl.fs.data[i]
        BY <1>3, FreedIs
    <2> HIDE DEF fs
    <2> QED
        BY <1>2, <2>1
<1>5. \A m : Engine(m).fs = fs /\ Engine(m).meta = m /\ Engine(m).cache = EmptyCache
    OBVIOUS
<1> HIDE DEF r, fs
<1>6. \A t, pages : OnDisk(old, t, pages) => OnDisk(fs, t, pages)
    <2> SUFFICES ASSUME NEW t, NEW pages, OnDisk(old, t, pages) PROVE OnDisk(fs, t, pages)
        OBVIOUS
    <2>1. ASSUME NEW s, <<t, s>> \in DOMAIN old.names
          PROVE  fs.data[fs.names[<<t, s>>]] = old.data[old.names[<<t, s>>]]
        BY <1>4, <2>1 DEF DiskOK
    <2> QED
        BY <1>4, <2>1 DEF OnDisk
<1>7. ASSUME NEW m, MetaOK(m), r.e = Engine(m)
      PROVE  /\ EngineOK(r.e) /\ r.e.fs = fs /\ r.e.meta = m
             /\ \A t, pages : OnDisk(old, t, pages) => TableOK(r.e, t, pages)
    <2>1. r.e.fs = fs /\ r.e.meta = m /\ r.e.cache = EmptyCache
        BY <1>5, <1>7
    <2> HIDE DEF Engine
    <2>2. OpenKeys(r.e) = {} /\ HasCache(r.e.cache)
        BY <2>1, CacheEmpty DEF OpenKeys
    <2>3. CacheOK(r.e)
        BY <2>2 DEF CacheOK
    <2>4. NoneAdrift(r.e)
        BY <1>4, <2>1 DEF NoneAdrift
    <2>5. EngineOK(r.e)
        BY <1>4, <1>7, <2>1, <2>3, <2>4 DEF EngineOK
    <2>6. \A t, pages : OnDisk(old, t, pages) => TableOK(r.e, t, pages)
        BY <1>6, <2>1, <2>2 DEF TableOK, OpenRight
    <2> QED
        BY <2>1, <2>5, <2>6
<1>8. \A t, s : s \in ls(fs, t) <=> <<t, s>> \in DOMAIN fs.names
    BY DEF ls, seg_exists
<1>9. CASE OneSegmentEach(fs)
    <2>1. r.out = "ok" /\ r.e = Engine(meta)
        BY <1>1, <1>9, Outcomes
    <2>2. ASSUME NEW t \in fs.dirs
          PROVE  LET s == CHOOSE x \in ls(fs, t) : TRUE
                     file == fs.data[fs.names[<<t, s>>]]
                 IN  /\ ls(fs, t) = {s} /\ file \in Seq(PageType)
                     /\ meta[t] = Metadata((FilePages(file) - 1) % PgnoRange, FilePages(file))
                     /\ meta[t] \in MetaType
        <3> DEFINE s == CHOOSE x \in ls(fs, t) : TRUE
        <3> DEFINE file == fs.data[fs.names[<<t, s>>]]
        <3>1. PICK x \in ls(fs, t) : ls(fs, t) = {x}
            BY <1>9 DEF OneSegmentEach
        <3>2. s = x
            BY <3>1
        <3>3. meta[t] = Metadata((FilePages(file) - 1) % PgnoRange, FilePages(file))
            BY DEF Counted
        <3> HIDE DEF s
        <3>4. file \in Seq(PageType)
            BY <1>4, <1>8, <3>1, <3>2 DEF DiskOK
        <3> HIDE DEF file
        <3>5. PgnoRange \in Nat \ {0}
            <4>1. t \in Tables
                BY <1>4 DEF DiskOK
            <4>2. MaxPages[t] \in Nat /\ PgnoRange \in Nat /\ MaxPages[t] < PgnoRange
                BY <4>1, KeysOf
            <4> QED
                BY <4>2
        <3>6. FilePages(file) \in Nat
            BY <3>4, FilePagesIs
        <3>7. (FilePages(file) - 1) % PgnoRange \in Nat
            BY <3>5, <3>6
        <3>8. meta[t] \in MetaType
            BY <3>3, <3>6, <3>7 DEF Metadata, MetaType
        <3> QED
            BY <3>1, <3>2, <3>3, <3>4, <3>8 DEF s, file
    <2>3. DOMAIN meta = fs.dirs
        OBVIOUS
    <2> HIDE DEF meta
    <2>4. MetaOK(meta)
        BY <1>4, <2>2, <2>3 DEF MetaOK, DiskOK
    <2>5. /\ EngineOK(r.e) /\ r.e.fs = fs /\ r.e.meta = meta
          /\ \A t, pages : OnDisk(old, t, pages) => TableOK(r.e, t, pages)
        BY <1>7, <2>1, <2>4
    <2>6. ASSUME NEW t, NEW pages, OnDisk(old, t, pages), Len(pages) <= MaxPages[t]
          PROVE  Counts(r.e, t, pages)
        <3>1. OnDisk(fs, t, pages)
            BY <1>6, <2>6
        <3>2. /\ t \in fs.dirs /\ pages \in Seq(PageType) /\ pages # <<>> /\ AllWhole(pages)
              /\ \A s : <<t, s>> \in DOMAIN fs.names <=> s \in 0 .. LastSeg(Len(pages))
              /\ \A s \in 0 .. LastSeg(Len(pages)) :
                     fs.data[fs.names[<<t, s>>]] = Segment(pages, s)
            BY <3>1 DEF OnDisk
        <3>3. PICK s : LET file == fs.data[fs.names[<<t, s>>]]
                       IN  /\ ls(fs, t) = {s} /\ file \in Seq(PageType)
                           /\ meta[t] = Metadata((FilePages(file) - 1) % PgnoRange,
                                                 FilePages(file))
            BY <2>2, <3>2
        <3>4. PICK n \in Nat : n = Len(pages) /\ n # 0
            BY <3>2
        <3>5. 0 \in 0 .. LastSeg(n) /\ LastSeg(n) \in Nat
            BY <3>2, <3>4, FirstSegment, LastSegIs
        <3>6. s = 0 /\ LastSeg(n) = 0
            <4>1. \A x \in 0 .. LastSeg(n) : x = s
                BY <1>8, <3>2, <3>3, <3>4
            <4>2. LastSeg(n) \in 0 .. LastSeg(n)
                BY <3>5
            <4> QED
                BY <3>5, <4>1, <4>2
        <3>7. fs.data[fs.names[<<t, s>>]] = pages
            BY <3>2, <3>4, <3>5, <3>6, FirstSegment
        <3>8. meta[t] = Metadata((n - 1) % PgnoRange, n)
            BY <3>2, <3>3, <3>4, <3>7, FilePagesIs
        <3>9. (n - 1) % PgnoRange = n - 1
            <4>1. t \in Tables
                BY <1>4, <3>2 DEF DiskOK
            <4>2. MaxPages[t] \in Nat /\ PgnoRange \in Nat /\ MaxPages[t] < PgnoRange
                BY <4>1, KeysOf
            <4>3. n - 1 \in Nat /\ n - 1 < PgnoRange
                BY <2>6, <3>4, <4>2
            <4> QED
                BY <4>2, <4>3
        <3> QED
            BY <2>3, <2>5, <2>6, <3>2, <3>4, <3>8, <3>9 DEF Counts
    <2> QED
        BY <1>4, <2>1, <2>5, <2>6 DEF r
<1>10. CASE ~OneSegmentEach(fs)
    <2>1. r.out = "assert 49" /\ r.e = Engine(<<>>)
        <3> HIDE DEF Engine, meta
        <3>1. r = Fails(Engine(<<>>), "assert 49")
            BY <1>1, <1>10
        <3> QED
            BY <3>1, Outcomes
    <2>2. MetaOK(<<>>)
        BY FS_EmptySet DEF MetaOK
    <2>3. /\ EngineOK(r.e) /\ r.e.fs = fs
          /\ \A t, pages : OnDisk(old, t, pages) => TableOK(r.e, t, pages)
        BY <1>7, <2>1, <2>2
    <2>4. PICK t \in fs.dirs : \A s \in ls(fs, t) : ls(fs, t) # {s}
        BY <1>10 DEF OneSegmentEach
    <2>5. ASSUME NEW pages, OnDisk(old, t, pages), Len(pages) <= segment_size PROVE FALSE
        <3>1. OnDisk(fs, t, pages)
            BY <1>6, <2>5
        <3>2. /\ pages \in Seq(PageType) /\ pages # <<>>
              /\ \A s : <<t, s>> \in DOMAIN fs.names <=> s \in 0 .. LastSeg(Len(pages))
            BY <3>1 DEF OnDisk
        <3>3. LastSeg(Len(pages)) = 0
            BY <2>5, <3>2, FirstSegment
        <3>4. ls(fs, t) = {0}
            <4>1. \A s : s \in ls(fs, t) <=> s \in 0 .. 0
                BY <1>8, <3>2, <3>3
            <4>2. 0 .. 0 = {0}
                OBVIOUS
            <4> QED
                BY <4>1, <4>2
        <3> QED
            BY <2>4, <3>4
    <2> QED
        BY <1>4, <2>1, <2>3, <2>5 DEF r
<1> QED
    BY <1>9, <1>10
-----------------------------------------------------------------------------
(***************************************************************************)
(* shutdown(), which goes over the tables in memory.                       *)
(***************************************************************************)
\* f is the function the definition of shutdown() describes.
Follows(e, tables, order, n, f) ==
    f = [i \in 0 .. n |->
            IF i = 0 THEN Ok(e)
              ELSE IF f[i - 1].out # "ok" THEN f[i - 1]
              ELSE flush_table(f[i - 1].e, tables[i], order[tables[i]])]

LEMMA ShutdownDefined ==
    ASSUME NEW e, NEW tables, NEW order, NEW n \in Nat
    PROVE  \E f : Follows(e, tables, order, n, f)
<1> DEFINE Step(r, i) == IF r.out # "ok" THEN r ELSE flush_table(r.e, tables[i], order[tables[i]])
<1> DEFINE Up(m) == \E f : f = [i \in 0 .. m |-> IF i = 0 THEN Ok(e) ELSE Step(f[i - 1], i)]
<1> SUFFICES Up(n)
    BY DEF Follows
<1> HIDE DEF Step
<1> DEFINE T == {m \in Nat : ~Up(m)}
<1>1. SUFFICES ASSUME T # {} PROVE FALSE
    BY <1>1
<1>2. PICK m \in T : \A y \in T : m <= y
    BY <1>1, LeastNat
<1>3. m # 0
    <2>1. PICK f : f = [i \in 0 .. 0 |-> Ok(e)]
        OBVIOUS
    <2>2. f = [i \in 0 .. 0 |-> IF i = 0 THEN Ok(e) ELSE Step(f[i - 1], i)]
        BY <2>1
    <2>3. Up(0)
        BY <2>2
    <2> QED
        BY <1>2, <2>3
<1>4. PICK l \in Nat : m = l + 1
    BY <1>2, <1>3
<1>5. Up(l)
    <2>1. ~(m <= l)
        BY <1>4
    <2>2. l \notin T
        <3> HIDE DEF T
        <3> QED
            BY <1>2, <2>1
    <2> QED
        BY <2>2
<1>6. PICK f : f = [i \in 0 .. l |-> IF i = 0 THEN Ok(e) ELSE Step(f[i - 1], i)]
    BY <1>5
<1>7. PICK g : g = [i \in 0 .. m |-> IF i = m THEN Step(f[l], m) ELSE f[i]]
    OBVIOUS
<1>8. ASSUME NEW i \in 0 .. m
      PROVE  g[i] = IF i = 0 THEN Ok(e) ELSE Step(g[i - 1], i)
    <2>1. CASE i = m
        <3>1. g[i - 1] = f[l]
            BY <1>4, <1>7, <2>1
        <3> QED
            BY <1>4, <1>7, <2>1, <3>1
    <2>2. CASE i # m /\ i = 0
        <3>1. f[0] = Ok(e)
            BY <1>6
        <3> QED
            BY <1>7, <2>2, <3>1
    <2>3. CASE i # m /\ i # 0
        <3>1. i \in 0 .. l /\ i - 1 \in 0 .. m /\ i - 1 # m
            BY <1>4, <2>3
        <3>2. g[i] = f[i] /\ g[i - 1] = f[i - 1]
            BY <1>7, <2>3, <3>1
        <3>3. f[i] = Step(f[i - 1], i)
            BY <1>6, <2>3, <3>1
        <3> QED
            BY <2>3, <3>2, <3>3
    <2> QED
        BY <2>1, <2>2, <2>3
<1>9. g = [i \in 0 .. m |-> IF i = 0 THEN Ok(e) ELSE Step(g[i - 1], i)]
    <2>1. DOMAIN g = 0 .. m /\ g = [i \in 0 .. m |-> g[i]]
        BY <1>7
    <2> QED
        BY <1>8, <2>1
<1>10. Up(m)
    BY <1>9
<1> QED
    BY <1>2, <1>10

\* Table t is one of the first i of tables, and neither it nor any before it
\* has lost its first segment.
Reaches(e, tables, i, t) ==
    \E j \in 1 .. i : /\ tables[j] = t
                      /\ \A l \in 1 .. j : <<tables[l], 0>> \in DOMAIN e.fs.names

\* How shutdown() stands after i tables.
FlushedTo(e, st, tables, i, r) ==
    /\ EngineOK(r.e) /\ r.e.meta = e.meta /\ r.e.fs.dirs = e.fs.dirs
    /\ DOMAIN r.e.fs.names = DOMAIN e.fs.names
    /\ r.out \in {"ok", "assert 219"}
    /\ r.out = "ok" <=> \A l \in 1 .. i : <<tables[l], 0>> \in DOMAIN e.fs.names
    /\ \A t \in DOMAIN st :
           TableOK(r.e, t, IF Reaches(e, tables, i, t) THEN Retitled(st[t], e.meta[t]) ELSE st[t])

LEMMA ShutdownStep ==
    ASSUME NEW e, NEW st, NEW tables, NEW h \in Nat, NEW i \in Nat, i = h + 1,
           \A a, b \in 1 .. i : tables[a] = tables[b] => a = b,
           NEW x, x = tables[i], x \in DOMAIN e.meta,
           NEW r, FlushedTo(e, st, tables, h, r),
           NEW order, Listed(e, x, order)
    PROVE  FlushedTo(e, st, tables, i, IF r.out # "ok" THEN r ELSE flush_table(r.e, x, order))
<1> DEFINE Ready(l) == <<tables[l], 0>> \in DOMAIN e.fs.names
<1> DEFINE R(j, t) == Reaches(e, tables, j, t)
<1>0. \A l \in 1 .. i : l \in 1 .. h \/ l = i
    OBVIOUS
<1>h. 1 .. h \subseteq 1 .. i /\ i \in 1 .. i
    OBVIOUS
<1>1. /\ EngineOK(r.e) /\ r.e.meta = e.meta /\ r.e.fs.dirs = e.fs.dirs
      /\ DOMAIN r.e.fs.names = DOMAIN e.fs.names
      /\ r.out \in {"ok", "assert 219"}
      /\ r.out = "ok" <=> \A l \in 1 .. h : Ready(l)
      /\ \A t \in DOMAIN st :
             TableOK(r.e, t, IF R(h, t) THEN Retitled(st[t], e.meta[t]) ELSE st[t])
    BY DEF FlushedTo
<1>2. \A t : R(h, t) => R(i, t)
    BY <1>h DEF Reaches
<1>3. \A t : R(i, t) => R(h, t) \/ (t = x /\ \A l \in 1 .. i : Ready(l))
    BY <1>0 DEF Reaches
<1>4. CASE r.out # "ok"
    <2>1. PICK l \in 1 .. h : ~Ready(l)
        BY <1>1, <1>4
    <2>2. ~(\A j \in 1 .. i : Ready(j))
        BY <1>h, <2>1
    <2>3. \A t : R(i, t) <=> R(h, t)
        BY <1>2, <1>3, <2>2
    <2>4. FlushedTo(e, st, tables, i, r)
        BY <1>1, <1>4, <2>2, <2>3 DEF FlushedTo
    <2> QED
        BY <1>4, <2>4
<1>5. CASE r.out = "ok"
    <2> DEFINE w == flush_table(r.e, x, order)
    <2>1. /\ <<x, 0>> \notin DOMAIN e.fs.names => w = Fails(r.e, "assert 219")
          /\ <<x, 0>> \in DOMAIN e.fs.names => w.out = "ok" /\ Retitles(r.e, w.e, x)
        <3>1. EngineOK(r.e) /\ x \in DOMAIN r.e.meta /\ Listed(r.e, x, order)
              /\ DOMAIN r.e.fs.names = DOMAIN e.fs.names
            BY <1>1 DEF Listed
        <3> QED
            BY <3>1, FlushIs
    <2> HIDE DEF w
    <2>2. \A l \in 1 .. h : Ready(l)
        BY <1>1, <1>5
    <2>3. CASE ~Ready(i)
        <3>0. w = Fails(r.e, "assert 219")
            BY <2>1, <2>3
        <3>1. w.e = r.e /\ w.out = "assert 219"
            BY <3>0, Outcomes
        <3>2. ~(\A j \in 1 .. i : Ready(j))
            BY <1>h, <2>3
        <3>3. \A t : R(i, t) <=> R(h, t)
            BY <1>2, <1>3, <3>2
        <3>4. FlushedTo(e, st, tables, i, w)
            BY <1>1, <3>1, <3>2, <3>3 DEF FlushedTo
        <3> QED
            BY <1>5, <3>4 DEF w
    <2>4. CASE Ready(i)
        <3>1. /\ w.out = "ok" /\ Spares(r.e, w.e, x) /\ w.e.meta = e.meta
              /\ w.e.fs.dirs = e.fs.dirs /\ DOMAIN w.e.fs.names = DOMAIN e.fs.names
              /\ \A pages : TableOK(r.e, x, pages) => TableOK(w.e, x, Retitled(pages, e.meta[x]))
            BY <1>1, <2>1, <2>4 DEF Retitles
        <3>2. \A j \in 1 .. i : Ready(j)
            BY <1>0, <2>2, <2>4
        <3>3. R(i, x) /\ ~R(h, x)
            <4>1. R(i, x)
                BY <1>h, <3>2 DEF Reaches
            <4>2. ~R(h, x)
                <5>1. \A j \in 1 .. h : tables[j] # x
                    BY <1>h
                <5> QED
                    BY <5>1 DEF Reaches
            <4> QED
                BY <4>1, <4>2
        <3>4. \A t : t # x => (R(i, t) <=> R(h, t))
            BY <1>2, <1>3
        <3> HIDE DEF R
        <3>5. ASSUME NEW t \in DOMAIN st
              PROVE  TableOK(w.e, t, IF R(i, t) THEN Retitled(st[t], e.meta[t]) ELSE st[t])
            <4>1. CASE t = x
                <5>1. TableOK(r.e, x, st[x])
                    BY <1>1, <3>3, <4>1
                <5> QED
                    BY <3>1, <3>3, <4>1, <5>1
            <4>2. CASE t # x
                <5>1. PICK pages : pages = IF R(h, t) THEN Retitled(st[t], e.meta[t]) ELSE st[t]
                    OBVIOUS
                <5>2. TableOK(r.e, t, pages)
                    BY <1>1, <5>1
                <5>3. TableOK(w.e, t, pages)
                    BY <3>1, <4>2, <5>2 DEF Spares
                <5> QED
                    BY <3>4, <4>2, <5>1, <5>3
            <4> QED
                BY <4>1, <4>2
        <3>6. FlushedTo(e, st, tables, i, w)
            BY <3>1, <3>2, <3>5 DEF FlushedTo, Spares, R
        <3> QED
            BY <1>5, <3>6 DEF w
    <2> QED
        BY <2>3, <2>4
<1> QED
    BY <1>4, <1>5

\* shutdown() flushes the tables up to the first without its first segment.
LEMMA ShutdownIs ==
    ASSUME NEW e, EngineOK(e), NEW st, \A t \in DOMAIN st : TableOK(e, t, st[t]),
           DOMAIN st \subseteq DOMAIN e.meta,
           NEW order, \A t \in DOMAIN e.meta : Listed(e, t, order[t])
    PROVE  LET r == shutdown(e, order)
               Reached(t) == r.out = "ok" \/ \A u \in DOMAIN e.meta :
                                                u <= t => <<u, 0>> \in DOMAIN e.fs.names
           IN  /\ EngineOK(r.e) /\ r.e.meta = e.meta /\ r.e.fs.dirs = e.fs.dirs
               /\ r.out \in {"ok", "assert 219"}
               /\ r.out # "ok" => \E u \in DOMAIN e.meta : <<u, 0>> \notin DOMAIN e.fs.names
               /\ \A t \in DOMAIN st :
                      TableOK(r.e, t, IF Reached(t) THEN Retitled(st[t], e.meta[t]) ELSE st[t])
<1> DEFINE D == DOMAIN e.meta
<1> DEFINE n == Cardinality(D)
<1> DEFINE tables == InOrder(D)
<1> DEFINE r == shutdown(e, order)
<1> DEFINE A == CHOOSE f : Follows(e, tables, order, n, f)
<1>1. D \in SUBSET Nat /\ IsFiniteSet(D)
    BY TablesAssumption DEF EngineOK, MetaOK
<1>2. n \in Nat
    BY <1>1, FS_CardinalityType
<1>3. Len(tables) = n /\ \A i \in 1 .. n : tables[i] = Nth(D, i)
    BY <1>2 DEF InOrder
<1>4. r = A[n]
    BY <1>3 DEF shutdown, Follows
<1>5. A = [i \in 0 .. n |->
               IF i = 0 THEN Ok(e)
                 ELSE IF A[i - 1].out # "ok" THEN A[i - 1]
                 ELSE flush_table(A[i - 1].e, tables[i], order[tables[i]])]
    <2> HIDE DEF n, tables
    <2>1. \E f : Follows(e, tables, order, n, f)
        BY <1>2, ShutdownDefined
    <2>2. Follows(e, tables, order, n, A)
        BY <2>1
    <2> QED
        BY <2>2 DEF Follows
<1>6. /\ \A i \in 1 .. n : tables[i] \in D
      /\ \A t \in D : \E i \in 1 .. n : tables[i] = t
      /\ \A i, j \in 1 .. n : i < j => tables[i] < tables[j]
    BY <1>1, <1>3, NthFacts
<1> HIDE DEF A, n, tables, D, r
<1>7. \A i, j \in 1 .. n : tables[i] = tables[j] => i = j
    <2> SUFFICES ASSUME NEW i \in 1 .. n, NEW j \in 1 .. n, tables[i] = tables[j], i # j
                 PROVE  FALSE
        OBVIOUS
    <2>1. tables[i] \in Nat /\ tables[j] \in Nat
        BY <1>1, <1>6
    <2>2. i < j \/ j < i
        BY <1>2
    <2> QED
        BY <1>6, <2>1, <2>2
<1>8. A[0] = Ok(e) /\ FlushedTo(e, st, tables, 0, A[0])
    <2>1. A[0] = Ok(e)
        BY <1>2, <1>5
    <2>2. A[0].e = e /\ A[0].out = "ok"
        BY <2>1, Outcomes
    <2>3. \A t : ~Reaches(e, tables, 0, t)
        BY DEF Reaches
    <2>4. FlushedTo(e, st, tables, 0, A[0])
        BY <2>2, <2>3 DEF FlushedTo
    <2> QED
        BY <2>1, <2>4
<1>9. ASSUME NEW i \in 1 .. n, FlushedTo(e, st, tables, i - 1, A[i - 1])
      PROVE  FlushedTo(e, st, tables, i, A[i])
    <2>1. PICK h \in Nat : h = i - 1
        BY <1>2
    <2>2. i \in Nat /\ i = h + 1
        BY <1>2, <2>1
    <2>3. PICK x : x = tables[i]
        OBVIOUS
    <2>4. PICK o : o = order[x]
        OBVIOUS
    <2>5. x \in DOMAIN e.meta /\ Listed(e, x, o)
        BY <1>6, <2>3, <2>4 DEF D
    <2>6. PICK w : w = A[h]
        OBVIOUS
    <2>7. A[i] = IF w.out # "ok" THEN w ELSE flush_table(w.e, x, o)
        BY <1>2, <1>5, <2>1, <2>3, <2>4, <2>6
    <2>8. FlushedTo(e, st, tables, h, w)
        BY <1>9, <2>1, <2>6
    <2>9. \A a, b \in 1 .. i : tables[a] = tables[b] => a = b
        <3>1. 1 .. i \subseteq 1 .. n
            BY <1>2
        <3> QED
            BY <1>7, <3>1
    <2>10. FlushedTo(e, st, tables, i, IF w.out # "ok" THEN w ELSE flush_table(w.e, x, o))
        BY <2>2, <2>3, <2>5, <2>8, <2>9, ShutdownStep
    <2> QED
        BY <2>7, <2>10
<1> DEFINE T == {i \in 0 .. n : ~FlushedTo(e, st, tables, i, A[i])}
<1>10. T = {}
    <2> SUFFICES ASSUME T # {} PROVE FALSE
        OBVIOUS
    <2>1. PICK m \in T : \A y \in T : m <= y
        <3>1. T \in SUBSET Nat
            BY <1>2
        <3> QED
            BY <3>1, LeastNat
    <2>2. m \in 1 .. n
        BY <1>2, <1>8, <2>1
    <2>3. m - 1 \in 0 .. n /\ m - 1 \notin T
        BY <1>2, <2>1, <2>2
    <2>4. FlushedTo(e, st, tables, m - 1, A[m - 1])
        BY <2>3
    <2>5. FlushedTo(e, st, tables, m, A[m])
        BY <1>9, <2>2, <2>4
    <2> QED
        BY <2>1, <2>5
<1>11. FlushedTo(e, st, tables, n, r)
    BY <1>2, <1>4, <1>10
<1>12. /\ EngineOK(r.e) /\ r.e.meta = e.meta /\ r.e.fs.dirs = e.fs.dirs
       /\ r.out \in {"ok", "assert 219"}
       /\ r.out = "ok" <=> \A l \in 1 .. n : <<tables[l], 0>> \in DOMAIN e.fs.names
       /\ \A t \in DOMAIN st :
              TableOK(r.e, t, IF Reaches(e, tables, n, t) THEN Retitled(st[t], e.meta[t]) ELSE st[t])
    BY <1>11 DEF FlushedTo
<1>13. r.out # "ok" => \E u \in D : <<u, 0>> \notin DOMAIN e.fs.names
    BY <1>6, <1>12
<1> DEFINE Reached(t) == r.out = "ok" \/ \A u \in D : u <= t => <<u, 0>> \in DOMAIN e.fs.names
<1>14. ASSUME NEW t \in D
       PROVE  Reaches(e, tables, n, t) <=> Reached(t)
    <2>1. PICK j \in 1 .. n : tables[j] = t
        BY <1>6
    <2>2. \A l \in 1 .. n : tables[l] <= t <=> l \in 1 .. j
        <3> SUFFICES ASSUME NEW l \in 1 .. n PROVE tables[l] <= t <=> l \in 1 .. j
            OBVIOUS
        <3>1. tables[l] \in Nat /\ tables[j] \in Nat
            BY <1>1, <1>6
        <3>2. l < j \/ l = j \/ j < l
            BY <1>2
        <3>3. (l < j => tables[l] < tables[j]) /\ (j < l => tables[j] < tables[l])
            BY <1>6
        <3> QED
            BY <1>2, <2>1, <3>1, <3>2, <3>3
    <2>3. 1 .. j \subseteq 1 .. n
        BY <1>2
    <2>4. Reaches(e, tables, n, t) <=> \A l \in 1 .. j : <<tables[l], 0>> \in DOMAIN e.fs.names
        BY <1>7, <2>1 DEF Reaches
    <2>5. (\A l \in 1 .. j : <<tables[l], 0>> \in DOMAIN e.fs.names) <=>
              \A u \in D : u <= t => <<u, 0>> \in DOMAIN e.fs.names
        BY <1>6, <2>2, <2>3
    <2>6. r.out = "ok" => \A l \in 1 .. j : <<tables[l], 0>> \in DOMAIN e.fs.names
        BY <1>12, <2>3
    <2> QED
        BY <2>4, <2>5, <2>6
<1>15. \A t \in DOMAIN st : t \in D
    BY DEF D
<1> HIDE DEF Reached
<1>16. \A t \in DOMAIN st :
          TableOK(r.e, t, IF Reached(t) THEN Retitled(st[t], e.meta[t]) ELSE st[t])
    BY <1>12, <1>14, <1>15
<1> QED
    BY <1>12, <1>13, <1>16 DEF r, D, Reached
-----------------------------------------------------------------------------
(***************************************************************************)
(* The invariant: the engine is in order, and so is every sound table; a   *)
(* running process also counts its pages right.                            *)
(***************************************************************************)
StorageInv ==
    /\ EngineOK(engine)
    /\ \A t \in Sound : TableOK(engine, t, stored[t]) /\ Len(stored[t]) <= MaxPages[t]
    /\ alive => \A t \in Sound : Counts(engine, t, stored[t])

LEMMA NoTableIs == \A t \in Tables : t # NoTable
BY TablesAssumption DEF NoTable

LEMMA SoundIs ==
    ASSUME StorageInv, NEW t \in Sound
    PROVE  /\ t \in engine.fs.dirs /\ t \in Tables /\ t # NoTable
           /\ stored[t] \in Seq(PageType) /\ stored[t] # <<>>
           /\ <<t, 0>> \in DOMAIN engine.fs.names
<1>1. OnDisk(engine.fs, t, stored[t])
    BY DEF StorageInv, TableOK
<1>2. t \in engine.fs.dirs /\ stored[t] \in Seq(PageType) /\ stored[t] # <<>>
      /\ \A s : <<t, s>> \in DOMAIN engine.fs.names <=> s \in 0 .. LastSeg(Len(stored[t]))
    BY <1>1 DEF OnDisk
<1>3. t \in Tables
    BY <1>2 DEF StorageInv, EngineOK, DiskOK
<1>4. t # NoTable
    BY <1>3, NoTableIs
<1>5. 0 \in 0 .. LastSeg(Len(stored[t]))
    BY <1>2, FirstSegment
<1> QED
    BY <1>2, <1>3, <1>4, <1>5

\* A call on table t that touches no other one, and leaves t as stored' says
\* when t is sound after it.
LEMMA CallKeeps ==
    ASSUME StorageInv, NEW t \in Tables, NEW r, Returns(t, r), Spares(engine, r.e, t),
           \A u \in DOMAIN stored' : u # t => u \in Sound /\ stored'[u] = stored[u],
           t \in DOMAIN stored' => /\ TableOK(r.e, t, stored'[t]) /\ Counts(r.e, t, stored'[t])
                                   /\ r.out \in {"ok", "past last page", "exists"}
    PROVE  StorageInv' /\ FailsOverUnsound'
<1>1. /\ alive /\ engine' = r.e /\ alive' = (r.out \in Exceptions)
      /\ failure' = FailureOf(t, r.out)
    BY DEF Returns
<1>2. EngineOK(engine')
    BY <1>1 DEF Spares
<1>3. ASSUME NEW u \in DOMAIN stored'
      PROVE  TableOK(engine', u, stored'[u]) /\ Counts(engine', u, stored'[u])
    <2>1. CASE u = t
        BY <1>1, <2>1
    <2>2. CASE u # t
        <3>1. u \in Sound /\ stored'[u] = stored[u]
            BY <2>2
        <3>2. TableOK(engine, u, stored[u]) /\ Counts(engine, u, stored[u])
            BY <1>1, <3>1 DEF StorageInv
        <3>3. TableOK(engine', u, stored[u])
            BY <1>1, <2>2, <3>2 DEF Spares
        <3>4. Counts(engine', u, stored[u])
            BY <1>1, <2>2, <3>2 DEF Spares, Counts
        <3> QED
            BY <3>1, <3>3, <3>4
    <2> QED
        BY <2>1, <2>2
<1>4. StorageInv'
    BY <1>2, <1>3 DEF StorageInv, Counts, Sound
<1>5. t # NoTable
    BY NoTableIs
<1>6. NoTable \notin DOMAIN stored'
    <2> SUFFICES ASSUME NoTable \in DOMAIN stored' PROVE FALSE
        OBVIOUS
    <2>1. NoTable \in Sound
        BY <1>5
    <2> QED
        BY <2>1, SoundIs
<1>7. FailsOverUnsound'
    <2>1. CASE r.out = "ok"
        <3>1. failure' = NoFailure /\ alive'
            BY <1>1, <2>1 DEF FailureOf, Exceptions
        <3>2. failure'.tbl = NoTable
            BY <3>1 DEF NoFailure
        <3> QED
            BY <1>6, <3>1, <3>2 DEF FailsOverUnsound, Sound
    <2>2. CASE r.out # "ok"
        <3>1. failure'.tbl = t /\ failure'.out = r.out
            BY <1>1, <2>2 DEF FailureOf
        <3> QED
            BY <1>5, <2>2, <3>1 DEF FailsOverUnsound, Sound
    <2> QED
        BY <2>1, <2>2
<1> QED
    BY <1>4, <1>7

LEMMA CreateKeeps ==
    ASSUME StorageInv, NEW t \in Tables, CreateTable(t)
    PROVE  StorageInv' /\ FailsOverUnsound'
<1> DEFINE r == create_table(engine, t)
<1>1. Returns(t, r) /\ alive
    BY DEF CreateTable, Returns
<1>2. stored' = IF r.out = "ok" /\ ~HasOpenFile(t) THEN Bind(stored, t, <<FirstPage>>)
                                                   ELSE stored
    BY DEF CreateTable, FirstPage
<1>3. /\ t \in engine.fs.dirs => r = Fails(engine, "exists")
      /\ t \notin engine.fs.dirs =>
             /\ r.out = "ok" /\ Spares(engine, r.e, t)
             /\ t \in DOMAIN r.e.meta /\ r.e.meta[t] = Metadata(0, 1)
             /\ (\A k \in OpenKeys(engine) : k[1] # t) => TableOK(r.e, t, <<FirstPage>>)
    BY CreateIs DEF StorageInv
<1> HIDE DEF r
<1>4. CASE t \in engine.fs.dirs
    <2>1. r.e = engine /\ r.out = "exists"
        BY <1>3, <1>4, Outcomes
    <2>2. stored' = stored
        BY <1>2, <2>1
    <2>3. Spares(engine, r.e, t)
        BY <2>1, SparesSelf DEF StorageInv
    <2>4. t \in DOMAIN stored' => TableOK(r.e, t, stored'[t]) /\ Counts(r.e, t, stored'[t])
        BY <1>1, <2>1, <2>2 DEF StorageInv, Sound
    <2> QED
        BY <1>1, <2>1, <2>2, <2>3, <2>4, CallKeeps DEF Sound
<1>5. CASE t \notin engine.fs.dirs
    <2>0. t \notin Sound
        BY <1>5, SoundIs
    <2>1. CASE HasOpenFile(t)
        <3>1. stored' = stored
            BY <1>2, <2>1
        <3> QED
            BY <1>1, <1>3, <1>5, <2>0, <3>1, CallKeeps DEF Sound
    <2>2. CASE ~HasOpenFile(t)
        <3>1. \A k \in OpenKeys(engine) : k[1] # t
            BY <2>2 DEF HasOpenFile, OpenKeys
        <3>2. stored' = Bind(stored, t, <<FirstPage>>)
            BY <1>2, <1>3, <1>5, <2>2
        <3>3. /\ DOMAIN stored' = Sound \cup {t} /\ stored'[t] = <<FirstPage>>
              /\ \A u \in Sound : u # t => stored'[u] = stored[u]
            BY <3>2 DEF Bind, Sound
        <3>4. Counts(r.e, t, <<FirstPage>>)
            <4>1. 1 <= MaxPages[t]
                <5>1. MaxPages[t] \in Nat \ {0}
                    BY KeysOf
                <5> QED
                    BY <5>1
            <4>2. Len(<<FirstPage>>) = 1 /\ 1 - 1 = 0
                BY FirstPageIs
            <4> QED
                BY <1>3, <1>5, <4>1, <4>2 DEF Counts
        <3>5. TableOK(r.e, t, stored'[t]) /\ Counts(r.e, t, stored'[t])
            BY <1>3, <1>5, <3>1, <3>3, <3>4
        <3> QED
            BY <1>1, <1>3, <1>5, <3>3, <3>5, CallKeeps
    <2> QED
        BY <2>1, <2>2
<1> QED
    BY <1>4, <1>5

LEMMA CreateFailsKeeps ==
    ASSUME StorageInv, NEW t \in Tables, CreateTableFails(t)
    PROVE  StorageInv' /\ FailsOverUnsound'
<1> DEFINE r == Fails(MadeTable(engine, t), "open failed")
<1>1. Returns(t, r) /\ stored' = stored /\ t \notin engine.fs.dirs
    BY DEF CreateTableFails, dir_exists
<1>2. r.e = MadeTable(engine, t)
    BY Outcomes
<1> HIDE DEF r
<1>3. Spares(engine, r.e, t)
    BY <1>2, MadeTableIs DEF StorageInv, Spares
<1>4. t \notin Sound
    BY <1>1, SoundIs
<1> QED
    BY <1>1, <1>3, <1>4, CallKeeps DEF Sound

LEMMA AllocateKeeps ==
    ASSUME StorageInv, NEW t \in Tables, AllocatePage(t)
    PROVE  StorageInv' /\ FailsOverUnsound'
<1> DEFINE r == allocate_page(engine, t)
<1>1. /\ t \in DOMAIN engine.meta => (engine.meta[t].last + 1) % PgnoRange < MaxPages[t]
      /\ Returns(t, r) /\ alive
      /\ stored' = IF t \in Sound THEN [stored EXCEPT ![t] = Append(stored[t], ZeroPage)]
                                  ELSE stored
    BY DEF AllocatePage, Returns
<1>2. /\ Spares(engine, r.e, t)
      /\ \A pages : TableOK(engine, t, pages) /\ Counts(engine, t, pages) =>
             /\ r.out = "ok" /\ TableOK(r.e, t, Append(pages, ZeroPage))
             /\ Counts(r.e, t, Append(pages, ZeroPage))
    BY <1>1, AllocateIs DEF StorageInv
<1> HIDE DEF r
<1>3. CASE t \notin Sound
    BY <1>1, <1>2, <1>3, CallKeeps DEF Sound
<1>4. CASE t \in Sound
    <2>1. TableOK(engine, t, stored[t]) /\ Counts(engine, t, stored[t])
        BY <1>1, <1>4 DEF StorageInv
    <2>2. /\ DOMAIN stored' = Sound /\ stored'[t] = Append(stored[t], ZeroPage)
          /\ \A u \in Sound : u # t => stored'[u] = stored[u]
        BY <1>1, <1>4 DEF Sound
    <2>3. r.out = "ok" /\ TableOK(r.e, t, stored'[t]) /\ Counts(r.e, t, stored'[t])
        BY <1>2, <2>1, <2>2
    <2> QED
        BY <1>1, <1>2, <2>2, <2>3, CallKeeps
<1> QED
    BY <1>3, <1>4

LEMMA ReadKeeps ==
    ASSUME StorageInv, NEW t \in Tables, NEW p \in Pages, ReadPageOf(t, p)
    PROVE  StorageInv' /\ FailsOverUnsound'
<1> DEFINE r == PageSegment(engine, t, p)
           k == <<t, pgno_to_segid(p)>>
<1>1. Returns(t, r) /\ alive /\ stored' = stored
    BY DEF ReadPageOf, read_page, Returns
<1>2. /\ \/ /\ r.out = "ok" /\ Opens(engine, r.e, k, r.file)
            /\ k \in DOMAIN engine.fs.names
         \/ r.out # "ok" /\ Spares(engine, r.e, t)
      /\ \A pages : TableOK(engine, t, pages) /\ Counts(engine, t, pages) =>
             IF p < Len(pages) THEN r.out = "ok" ELSE r = Fails(engine, "past last page")
    BY PageSegmentIs DEF StorageInv
<1>3. t \in Sound => TableOK(engine, t, stored[t]) /\ Counts(engine, t, stored[t])
    BY <1>1 DEF StorageInv
<1> HIDE DEF r
<1>4. CASE r.out # "ok"
    <2>1. Spares(engine, r.e, t)
        BY <1>2, <1>4
    <2>2. ASSUME t \in Sound PROVE r.e = engine /\ r.out = "past last page"
        <3>1. IF p < Len(stored[t]) THEN r.out = "ok" ELSE r = Fails(engine, "past last page")
            BY <1>2, <1>3, <2>2
        <3>2. r = Fails(engine, "past last page")
            BY <1>4, <3>1
        <3> QED
            BY <3>2, Outcomes
    <2> QED
        BY <1>1, <1>3, <2>1, <2>2, CallKeeps DEF Sound
<1>5. CASE r.out = "ok"
    <2>1. Opens(engine, r.e, k, r.file) /\ k \in DOMAIN engine.fs.names
        BY <1>2, <1>5
    <2>2. Spares(engine, r.e, t)
        BY <2>1, OpenSpares DEF StorageInv
    <2>3. t \in Sound => TableOK(r.e, t, stored[t])
        BY <1>3, <2>1, OpenKeeps DEF StorageInv
    <2>4. r.e.meta = engine.meta
        BY <2>1 DEF Opens
    <2>5. t \in Sound => Counts(r.e, t, stored[t])
        BY <1>3, <2>4 DEF Counts
    <2> QED
        BY <1>1, <1>5, <2>2, <2>3, <2>5, CallKeeps DEF Sound
<1> QED
    BY <1>4, <1>5

LEMMA WriteKeeps ==
    ASSUME StorageInv, NEW t \in Tables, NEW p \in Pages, NEW v \in Values,
           WritePageOf(t, p, v)
    PROVE  StorageInv' /\ FailsOverUnsound'
<1> DEFINE r == write_page(engine, t, p, v)
<1>1. /\ Returns(t, r) /\ alive
      /\ stored' = IF t \in Sound /\ p < Len(stored[t])
                     THEN [stored EXCEPT ![t] = [stored[t] EXCEPT ![p + 1] = Page(v, v)]]
                     ELSE stored
    BY DEF WritePageOf, Returns
<1>2. /\ Spares(engine, r.e, t)
      /\ \A pages : TableOK(engine, t, pages) /\ Counts(engine, t, pages) =>
             IF p < Len(pages)
               THEN /\ r.out = "ok" /\ r.e.meta = engine.meta
                    /\ TableOK(r.e, t, [pages EXCEPT ![p + 1] = Page(v, v)])
               ELSE r = Fails(engine, "past last page")
    BY WriteIs DEF StorageInv
<1>3. t \in Sound => TableOK(engine, t, stored[t]) /\ Counts(engine, t, stored[t])
    BY <1>1 DEF StorageInv
<1> HIDE DEF r
<1>4. CASE t \notin Sound
    BY <1>1, <1>2, <1>4, CallKeeps DEF Sound
<1>5. CASE t \in Sound /\ ~(p < Len(stored[t]))
    <2>0. r = Fails(engine, "past last page")
        BY <1>2, <1>3, <1>5
    <2>1. r.e = engine /\ r.out = "past last page"
        BY <2>0, Outcomes
    <2>2. stored' = stored
        BY <1>1, <1>5
    <2> QED
        BY <1>1, <1>2, <1>3, <1>5, <2>1, <2>2, CallKeeps DEF Sound
<1>6. CASE t \in Sound /\ p < Len(stored[t])
    <2> DEFINE new == [stored[t] EXCEPT ![p + 1] = Page(v, v)]
    <2>1. r.out = "ok" /\ r.e.meta = engine.meta /\ TableOK(r.e, t, new)
        BY <1>2, <1>3, <1>6
    <2>2. stored' = [stored EXCEPT ![t] = new]
        BY <1>1, <1>6
    <2>3. Len(new) = Len(stored[t])
        <3>1. stored[t] \in Seq(PageType)
            BY <1>6, SoundIs
        <3> QED
            BY <3>1
    <2> HIDE DEF new
    <2>4. /\ DOMAIN stored' = Sound /\ stored'[t] = new
          /\ \A u \in Sound : u # t => stored'[u] = stored[u]
        BY <1>6, <2>2 DEF Sound
    <2>5. Counts(r.e, t, new)
        BY <1>3, <1>6, <2>1, <2>3 DEF Counts
    <2> QED
        BY <1>1, <1>2, <2>1, <2>4, <2>5, CallKeeps
<1> QED
    BY <1>4, <1>5, <1>6

\* ls() lists segments of the table.
LEMMA ListingsIs ==
    ASSUME EngineOK(engine), NEW t, NEW order \in Listings(t)
    PROVE  Listed(engine, t, order)
<1> DEFINE S == ls(engine.fs, t)
           D == DOMAIN engine.fs.names
<1>1. IsFiniteSet(S)
    <2>1. IsFiniteSet(D)
        BY DEF EngineOK, DiskOK
    <2> DEFINE g == [n \in D |-> n[2]]
               T == {n[2] : n \in D}
    <2>2. g \in Surjection(D, T)
        BY DEF Surjection
    <2>3. S \subseteq T
        BY DEF ls
    <2> HIDE DEF g, T
    <2>4. IsFiniteSet(T)
        BY <2>1, <2>2, FS_Surjection
    <2> QED
        BY <2>3, <2>4, FS_Subset
<1>2. Cardinality(S) \in Nat
    BY <1>1, FS_CardinalityType
<1>3. order \in [1 .. Cardinality(S) -> S]
    BY DEF Listings, SetToSeqs
<1>4. \A s \in S : <<t, s>> \in D
    BY DEF ls, seg_exists
<1> HIDE DEF S, D
<1>5. Len(order) = Cardinality(S)
    BY <1>2, <1>3
<1> QED
    BY <1>2, <1>3, <1>4, <1>5 DEF Listed, D

\* The metadata in memory is what a flush writes to page 0.
LEMMA FlushedIs ==
    ASSUME StorageInv, alive, NEW S
    PROVE  /\ DOMAIN Flushed(S) = Sound
           /\ \A u \in Sound :
                  /\ Flushed(S)[u] = IF u \in S THEN Retitled(stored[u], engine.meta[u])
                                                ELSE stored[u]
                  /\ Len(Flushed(S)[u]) = Len(stored[u])
<1>1. DOMAIN Flushed(S) = Sound
    BY DEF Flushed
<1>2. ASSUME NEW u \in Sound
      PROVE  /\ Flushed(S)[u] = IF u \in S THEN Retitled(stored[u], engine.meta[u])
                                           ELSE stored[u]
             /\ Len(Flushed(S)[u]) = Len(stored[u])
    <2>1. engine.meta[u] = Metadata(Len(stored[u]) - 1, Len(stored[u]))
        BY DEF StorageInv, Counts
    <2>2. Flushed(S)[u] = IF u \in S THEN Retitled(stored[u], engine.meta[u]) ELSE stored[u]
        BY <2>1 DEF Flushed, Retitled
    <2>3. stored[u] \in Seq(PageType)
        BY SoundIs
    <2>4. Len(Retitled(stored[u], engine.meta[u])) = Len(stored[u])
        BY <2>3 DEF Retitled
    <2> QED
        BY <2>2, <2>4
<1> QED
    BY <1>1, <1>2

LEMMA FlushKeeps ==
    ASSUME StorageInv, NEW t \in Tables, NEW order \in Listings(t), FlushTable(t, order)
    PROVE  StorageInv' /\ FailsOverUnsound'
<1> DEFINE r == flush_table(engine, t, order)
<1>1. Returns(t, r) /\ alive /\ stored' = Flushed({t})
    BY DEF FlushTable, Returns
<1>2. EngineOK(engine) /\ Listed(engine, t, order)
    BY ListingsIs DEF StorageInv
<1>3. /\ DOMAIN stored' = Sound
      /\ \A u \in Sound : u # t => stored'[u] = stored[u]
      /\ t \in Sound => /\ stored'[t] = Retitled(stored[t], engine.meta[t])
                        /\ Len(stored'[t]) = Len(stored[t])
    BY <1>1, FlushedIs
<1>4. t \in Sound => /\ TableOK(engine, t, stored[t]) /\ Counts(engine, t, stored[t])
                     /\ t \in DOMAIN engine.meta
    BY <1>1 DEF StorageInv, Counts
<1>5. CASE t \notin DOMAIN engine.meta
    <2>1. Calm(engine, r.e)
        BY <1>2, <1>5, FlushUnknown
    <2> HIDE DEF r
    <2>2. Spares(engine, r.e, t)
        BY <2>1 DEF Calm, Spares
    <2> QED
        BY <1>1, <1>3, <1>4, <1>5, <2>2, CallKeeps
<1>6. CASE t \in DOMAIN engine.meta /\ <<t, 0>> \notin DOMAIN engine.fs.names
    <2>1. r = Fails(engine, "assert 219")
        BY <1>2, <1>6, FlushIs
    <2> HIDE DEF r
    <2>2. Spares(engine, r.e, t)
        BY <1>2, <2>1, SparesSelf, Outcomes
    <2>3. t \notin Sound
        BY <1>6, SoundIs
    <2> QED
        BY <1>1, <1>3, <2>2, <2>3, CallKeeps
<1>7. CASE t \in DOMAIN engine.meta /\ <<t, 0>> \in DOMAIN engine.fs.names
    <2>1. r.out = "ok" /\ Retitles(engine, r.e, t)
        BY <1>2, <1>7, FlushIs
    <2> HIDE DEF r
    <2>2. /\ Spares(engine, r.e, t) /\ r.e.meta = engine.meta
          /\ t \in Sound => TableOK(r.e, t, stored'[t])
        BY <1>3, <1>4, <2>1 DEF Retitles
    <2>3. t \in Sound => Counts(r.e, t, stored'[t])
        BY <1>3, <1>4, <2>2 DEF Counts
    <2> QED
        BY <1>1, <1>3, <2>1, <2>2, <2>3, CallKeeps
<1> QED
    BY <1>5, <1>6, <1>7

LEMMA ForgetIs ==
    ASSUME NEW t
    PROVE  /\ DOMAIN Forget(t) = Sound \ {t}
           /\ \A u \in Sound \ {t} : Forget(t)[u] = stored[u]
BY DEF Forget, Restrict

LEMMA TruncateKeeps ==
    ASSUME StorageInv, NEW t \in Tables, TruncateTable(t)
    PROVE  StorageInv' /\ FailsOverUnsound'
<1> DEFINE r == truncate_table(engine, t)
<1>1. Returns(t, r) /\ stored' = Forget(t)
    BY DEF TruncateTable
<1>2. Spares(engine, r.e, t)
    <2>1. /\ t \notin engine.fs.dirs => r = Fails(engine, "ls failed")
          /\ t \in engine.fs.dirs => Spares(engine, r.e, t)
        BY TruncateIs DEF StorageInv
    <2> HIDE DEF r
    <2>2. Spares(engine, engine, t)
        BY SparesSelf DEF StorageInv
    <2> QED
        BY <2>1, <2>2, Outcomes
<1> HIDE DEF r
<1> QED
    BY <1>1, <1>2, ForgetIs, CallKeeps

LEMMA DeleteKeeps ==
    ASSUME StorageInv, NEW t \in Tables, DeleteTable(t)
    PROVE  StorageInv' /\ FailsOverUnsound'
<1> DEFINE r == delete_table(engine, t)
<1>1. Returns(t, r) /\ stored' = Forget(t)
    BY DEF DeleteTable
<1>2. Spares(engine, r.e, t)
    <2>1. /\ t \notin engine.fs.dirs => r = Fails(engine, "ls failed")
          /\ t \in engine.fs.dirs => Spares(engine, r.e, t)
        BY DeleteIs DEF StorageInv
    <2> HIDE DEF r
    <2>2. Spares(engine, engine, t)
        BY SparesSelf DEF StorageInv
    <2> QED
        BY <2>1, <2>2, Outcomes
<1> HIDE DEF r
<1> QED
    BY <1>1, <1>2, ForgetIs, CallKeeps

LEMMA ShutdownKeeps ==
    ASSUME StorageInv, NEW order, \A t \in Tables : order[t] \in Listings(t), Shutdown(order)
    PROVE  StorageInv' /\ FailsOverUnsound'
<1> DEFINE r == shutdown(engine, order)
           Reached(t) == r.out = "ok" \/ \A u \in DOMAIN engine.meta :
                                            u <= t => <<u, 0>> \in DOMAIN engine.fs.names
           S == {t \in Sound : Reached(t)}
<1>1. Returns(NoTable, r) /\ stored' = Flushed(S)
    BY DEF Shutdown, seg_exists
<1>2. /\ alive /\ engine' = r.e /\ alive' = (r.out \in Exceptions)
      /\ failure' = FailureOf(NoTable, r.out)
    BY <1>1 DEF Returns
<1>3. /\ EngineOK(engine) /\ DOMAIN engine.meta \subseteq Tables
      /\ \A t \in DOMAIN stored : TableOK(engine, t, stored[t]) /\ Counts(engine, t, stored[t])
      /\ DOMAIN stored \subseteq DOMAIN engine.meta
    BY <1>2 DEF StorageInv, EngineOK, MetaOK, Counts, Sound
<1>4. \A t \in DOMAIN engine.meta : Listed(engine, t, order[t])
    BY <1>3, ListingsIs
<1>5. /\ EngineOK(r.e) /\ r.e.meta = engine.meta /\ r.e.fs.dirs = engine.fs.dirs
      /\ r.out \in {"ok", "assert 219"}
      /\ r.out # "ok" => \E u \in DOMAIN engine.meta : <<u, 0>> \notin DOMAIN engine.fs.names
      /\ \A t \in DOMAIN stored :
             TableOK(r.e, t, IF Reached(t) THEN Retitled(stored[t], engine.meta[t])
                                           ELSE stored[t])
    BY <1>3, <1>4, ShutdownIs
<1>6. /\ DOMAIN stored' = Sound
      /\ \A u \in Sound :
             /\ stored'[u] = IF u \in S THEN Retitled(stored[u], engine.meta[u]) ELSE stored[u]
             /\ Len(stored'[u]) = Len(stored[u])
    BY <1>1, <1>2, FlushedIs
<1>7. \A u \in Sound : u \in S <=> Reached(u)
    OBVIOUS
<1> HIDE DEF r, Reached, S
<1>8. ASSUME NEW u \in Sound
      PROVE  /\ TableOK(engine', u, stored'[u]) /\ Counts(engine', u, stored'[u])
             /\ Len(stored'[u]) <= MaxPages[u]
    <2>1. TableOK(engine', u, stored'[u])
        BY <1>2, <1>5, <1>6, <1>7 DEF Sound
    <2>2. Counts(engine', u, stored'[u])
        BY <1>2, <1>3, <1>5, <1>6 DEF Counts, Sound
    <2> QED
        BY <2>1, <2>2 DEF Counts
<1>9. StorageInv'
    BY <1>2, <1>5, <1>6, <1>8 DEF StorageInv, Sound
<1>10. NoTable \notin DOMAIN stored'
    BY <1>6, SoundIs
<1>11. failure'.tbl = NoTable
    BY <1>2 DEF FailureOf, NoFailure
<1>12. ~alive' => \E u \in DOMAIN engine'.meta : u \notin DOMAIN stored'
    <2> SUFFICES ASSUME ~alive' PROVE \E u \in DOMAIN engine'.meta : u \notin DOMAIN stored'
        OBVIOUS
    <2>1. r.out # "ok"
        BY <1>2 DEF Exceptions
    <2>2. PICK u \in DOMAIN engine.meta : <<u, 0>> \notin DOMAIN engine.fs.names
        BY <1>5, <2>1
    <2>3. u \notin Sound
        BY <2>2, SoundIs
    <2> QED
        BY <1>2, <1>5, <1>6, <2>3
<1>13. FailsOverUnsound'
    BY <1>10, <1>11, <1>12 DEF FailsOverUnsound, Sound
<1> QED
    BY <1>9, <1>13
-----------------------------------------------------------------------------
(***************************************************************************)
(* The process dies, and another starts on what it left on disk.           *)
(***************************************************************************)
LEMMA StartKeeps ==
    ASSUME NEW fs, DiskOK(fs), Start(fs),
           \A u \in DOMAIN stored' : /\ OnDisk(fs, u, stored'[u])
                                     /\ Len(stored'[u]) <= MaxPages[u]
    PROVE  StorageInv' /\ FailsOverUnsound'
<1> DEFINE r == Opened(fs)
<1>1. engine' = r.e /\ alive' = (r.out = "ok") /\ failure' = FailureOf(NoTable, r.out)
    BY DEF Start
<1>2. /\ EngineOK(r.e) /\ r.e.fs.dirs = fs.dirs
      /\ \A t, pages : OnDisk(fs, t, pages) => TableOK(r.e, t, pages)
      /\ r.out = "ok" => \A t, pages :
             OnDisk(fs, t, pages) /\ Len(pages) <= MaxPages[t] => Counts(r.e, t, pages)
      /\ r.out # "ok" => \E t \in fs.dirs :
             \A pages : OnDisk(fs, t, pages) => ~(Len(pages) <= segment_size)
    BY OpenedIs
<1> HIDE DEF r
<1>3. StorageInv'
    BY <1>1, <1>2 DEF StorageInv, Sound
<1>4. failure'.tbl = NoTable
    BY <1>1 DEF FailureOf, NoFailure
<1>5. NoTable \notin DOMAIN stored'
    BY NoTableIs DEF OnDisk, DiskOK
<1>6. ASSUME ~alive'
      PROVE  \E t \in engine'.fs.dirs :
                 t \notin DOMAIN stored' \/ Len(stored'[t]) > segment_size
    <2>1. PICK t \in fs.dirs : \A pages : OnDisk(fs, t, pages) => ~(Len(pages) <= segment_size)
        BY <1>1, <1>2, <1>6
    <2>2. ASSUME t \in DOMAIN stored' PROVE Len(stored'[t]) > segment_size
        <3>1. ~(Len(stored'[t]) <= segment_size)
            BY <2>1, <2>2
        <3>2. stored'[t] \in Seq(PageType)
            BY <2>2 DEF OnDisk
        <3>3. Len(stored'[t]) \in Nat /\ segment_size \in Nat
            BY <3>2, SegmentSizeAssumption
        <3> QED
            BY <3>1, <3>3
    <2> QED
        BY <1>1, <1>2, <2>1, <2>2
<1>7. FailsOverUnsound'
    BY <1>4, <1>5, <1>6 DEF FailsOverUnsound, Sound
<1> QED
    BY <1>3, <1>7

LEMMA RestartKeeps ==
    ASSUME StorageInv, Restart
    PROVE  StorageInv' /\ FailsOverUnsound'
<1>1. Start(engine.fs) /\ stored' = stored
    BY DEF Restart
<1>2. DiskOK(engine.fs)
    BY DEF StorageInv, EngineOK
<1>3. \A u \in DOMAIN stored : OnDisk(engine.fs, u, stored[u]) /\ Len(stored[u]) <= MaxPages[u]
    BY DEF StorageInv, TableOK, Sound
<1> QED
    BY <1>1, <1>2, <1>3, StartKeeps

LEMMA DieCreatingKeeps ==
    ASSUME StorageInv, NEW t \in Tables, DieCreating(t)
    PROVE  StorageInv' /\ FailsOverUnsound'
<1> DEFINE f == MadeTable(engine, t)
           g == OpenFile(f.fs, t, 0)
<1>1. f.fs = mkdir(engine.fs, t)
    BY EngineFields DEF MadeTable
<1>2. /\ t \notin engine.fs.dirs /\ stored' = stored
      /\ Start(f.fs) \/ Start(g)
    BY <1>1 DEF DieCreating, dir_exists
<1>3. /\ EngineOK(f) /\ f.fs.dirs = engine.fs.dirs \cup {t}
      /\ \A u, pages : TableOK(engine, u, pages) => TableOK(f, u, pages)
    BY MadeTableIs DEF StorageInv
<1> HIDE DEF f, g
<1>4. DiskOK(f.fs)
    BY <1>3 DEF EngineOK
<1>5. \A u \in DOMAIN stored : OnDisk(f.fs, u, stored[u]) /\ Len(stored[u]) <= MaxPages[u]
    BY <1>3 DEF StorageInv, TableOK, Sound
<1>6. CASE Start(f.fs)
    BY <1>2, <1>4, <1>5, <1>6, StartKeeps
<1>7. CASE Start(g)
    <2>1. NewFile(f.fs) \in FileIds /\ NewFile(f.fs) \notin DOMAIN f.fs.data
        BY <1>3, NewFileIs
    <2>2. t \in f.fs.dirs /\ <<t, 0>> \in Keys
        BY <1>3, KeysOf
    <2>3. /\ DiskOK(g) /\ g.dirs = f.fs.dirs
          /\ DOMAIN g.names = DOMAIN f.fs.names \cup {<<t, 0>>}
          /\ \A n \in DOMAIN f.fs.names : g.names[n] = f.fs.names[n]
          /\ \A i \in DOMAIN f.fs.data : g.data[i] = f.fs.data[i]
        BY <1>4, <2>1, <2>2, OpenFileIs DEF g
    <2>4. ASSUME NEW u \in DOMAIN stored PROVE OnDisk(g, u, stored[u])
        <3>1. u # t
            BY <1>2, SoundIs DEF Sound
        <3>2. OnDisk(f.fs, u, stored[u])
            BY <1>5
        <3>3. \A s : <<u, s>> \in DOMAIN g.names <=> <<u, s>> \in DOMAIN f.fs.names
            BY <2>3, <3>1
        <3>4. \A s : <<u, s>> \in DOMAIN f.fs.names =>
                         g.data[g.names[<<u, s>>]] = f.fs.data[f.fs.names[<<u, s>>]]
            BY <1>4, <2>3 DEF DiskOK
        <3> QED
            BY <2>3, <3>2, <3>3, <3>4 DEF OnDisk
    <2> QED
        BY <1>2, <1>5, <1>7, <2>3, <2>4, StartKeeps
<1> QED
    BY <1>2, <1>6, <1>7

LEMMA DieDeletingKeeps ==
    ASSUME StorageInv, NEW t \in Tables, DieDeleting(t)
    PROVE  StorageInv' /\ FailsOverUnsound'
<1>1. PICK S \in SUBSET ls(engine.fs, t) : Start(unlink(engine.fs, t, S))
    BY DEF DieDeleting
<1>2. stored' = Forget(t)
    BY DEF DieDeleting
<1> DEFINE g == unlink(engine.fs, t, S)
<1>3. /\ DiskOK(g)
      /\ \A u, pages : u # t /\ OnDisk(engine.fs, u, pages) => OnDisk(g, u, pages)
    BY UnlinkIs DEF StorageInv, EngineOK
<1>4. Start(g)
    BY <1>1
<1> HIDE DEF g
<1>5. \A u \in DOMAIN stored : OnDisk(engine.fs, u, stored[u]) /\ Len(stored[u]) <= MaxPages[u]
    BY DEF StorageInv, TableOK, Sound
<1>6. \A u \in DOMAIN stored' : u \in DOMAIN stored /\ u # t /\ stored'[u] = stored[u]
    BY <1>2, ForgetIs DEF Sound
<1> QED
    BY <1>3, <1>4, <1>5, <1>6, StartKeeps

\* A disk with no directory and no file.
LEMMA BareDisk ==
    ASSUME NEW c
    PROVE  DiskOK([control |-> c, dirs |-> {}, names |-> <<>>, data |-> <<>>])
BY FS_EmptySet DEF DiskOK

LEMMA DieInControlKeeps ==
    ASSUME StorageInv, DieInControl
    PROVE  StorageInv' /\ FailsOverUnsound'
<1> DEFINE fs == [control |-> "empty", dirs |-> {}, names |-> <<>>, data |-> <<>>]
<1>1. Start(fs) /\ stored' = stored /\ engine.fs.dirs = {}
    BY DEF DieInControl
<1>2. DiskOK(fs)
    BY BareDisk
<1> HIDE DEF fs
<1>3. DOMAIN stored = {}
    BY <1>1, SoundIs DEF Sound
<1> QED
    BY <1>1, <1>2, <1>3, StartKeeps
-----------------------------------------------------------------------------
LEMMA InitHolds == Init => StorageInv /\ FailsOverUnsound
<1> SUFFICES ASSUME Init PROVE StorageInv /\ FailsOverUnsound
    OBVIOUS
<1>1. engine = Opened(EmptyFS).e /\ alive = TRUE /\ stored = <<>> /\ failure = NoFailure
    BY DEF Init
<1>2. EngineOK(engine)
    BY <1>1, BareDisk, OpenedIs DEF EmptyFS
<1>3. Sound = {}
    BY <1>1 DEF Sound
<1> QED
    BY <1>1, <1>2, <1>3 DEF StorageInv, FailsOverUnsound

LEMMA NextHolds ==
    ASSUME StorageInv, FailsOverUnsound, [Next]_vars
    PROVE  StorageInv' /\ FailsOverUnsound'
<1>1. CASE UNCHANGED vars
    BY <1>1 DEF vars, StorageInv, FailsOverUnsound, Sound
<1>2. ASSUME NEW t \in Tables,
             \/ CreateTable(t) \/ CreateTableFails(t) \/ AllocatePage(t)
             \/ TruncateTable(t) \/ DeleteTable(t) \/ DieCreating(t) \/ DieDeleting(t)
      PROVE  StorageInv' /\ FailsOverUnsound'
    BY <1>2, CreateKeeps, CreateFailsKeeps, AllocateKeeps, TruncateKeeps, DeleteKeeps,
       DieCreatingKeeps, DieDeletingKeeps
<1>3. ASSUME NEW t \in Tables, NEW p \in Pages,
             ReadPageOf(t, p) \/ \E v \in Values : WritePageOf(t, p, v)
      PROVE  StorageInv' /\ FailsOverUnsound'
    BY <1>3, ReadKeeps, WriteKeeps
<1>4. ASSUME NEW t \in Tables, NEW order \in Listings(t), FlushTable(t, order)
      PROVE  StorageInv' /\ FailsOverUnsound'
    BY <1>4, FlushKeeps
<1>5. ASSUME NEW order, \A t \in Tables : order[t] \in Listings(t), Shutdown(order)
      PROVE  StorageInv' /\ FailsOverUnsound'
    BY <1>5, ShutdownKeeps
<1>6. CASE Restart \/ DieInControl
    BY <1>6, RestartKeeps, DieInControlKeeps
<1>7. CASE Next
    BY <1>2, <1>3, <1>4, <1>5, <1>6, <1>7 DEF Next, Calls
<1> QED
    BY <1>1, <1>7

LEMMA StorageAlways == Spec => [](StorageInv /\ FailsOverUnsound)
<1>1. StorageInv /\ FailsOverUnsound /\ [Next]_vars => StorageInv' /\ FailsOverUnsound'
    BY NextHolds
<1> QED
    BY <1>1, InitHolds, PTL DEF Spec

\* The file a page is read from is the one its name leads to.
LEMMA FileForIs ==
    ASSUME StorageInv, NEW t \in Sound, NEW p
    PROVE  FileFor(t, p) = engine.fs.names[<<t, p \div segment_size>>]
BY DEF StorageInv, TableOK, OpenRight, OpenKeys, FileFor

LEMMA PagesFollow == StorageInv => PagesExact
<1> SUFFICES ASSUME StorageInv, alive, NEW t \in Sound
             PROVE  /\ t \in DOMAIN engine.meta
                    /\ engine.meta[t] = [last |-> Len(stored[t]) - 1, total |-> Len(stored[t])]
                    /\ \A p \in 0 .. (Len(stored[t]) - 1) :
                          engine.fs.data[FileFor(t, p)][(p % segment_size) + 1] = stored[t][p + 1]
    BY DEF PagesExact
<1>1. /\ t \in DOMAIN engine.meta
      /\ engine.meta[t] = [last |-> Len(stored[t]) - 1, total |-> Len(stored[t])]
    BY DEF StorageInv, Counts, Metadata
<1>2. PICK pages : pages = stored[t]
    OBVIOUS
<1>3. OnDisk(engine.fs, t, pages)
    BY <1>2 DEF StorageInv, TableOK
<1>4. /\ pages \in Seq(PageType) /\ AllWhole(pages) /\ Len(pages) \in Nat
      /\ \A s \in 0 .. LastSeg(Len(pages)) :
             engine.fs.data[engine.fs.names[<<t, s>>]] = Segment(pages, s)
    BY <1>3 DEF OnDisk
<1>5. ASSUME NEW p \in 0 .. Len(pages) - 1
      PROVE  engine.fs.data[FileFor(t, p)][(p % segment_size) + 1] = pages[p + 1]
    <2> DEFINE s == p \div segment_size
               j == (p % segment_size) + 1
    <2>1. /\ s \in 0 .. LastSeg(Len(pages)) /\ s * segment_size <= Len(pages)
          /\ s * segment_size + j = p + 1 /\ j \in 1 .. SegLen(Len(pages), s)
        BY <1>4, PagePlace
    <2>2. engine.fs.data[FileFor(t, p)] = Segment(pages, s)
        BY <1>4, <2>1, FileForIs
    <2> HIDE DEF s, j
    <2>3. s \in Nat
        BY <2>1
    <2>4. Segment(pages, s)[j] = pages[s * segment_size + j]
        BY <1>4, <2>1, <2>3, SegmentIs
    <2> QED
        BY <2>1, <2>2, <2>4 DEF j
<1> QED
    BY <1>1, <1>2, <1>5

LEMMA LayoutFollows == StorageInv => LayoutExact
<1> SUFFICES ASSUME StorageInv, NEW t \in Sound
             PROVE  LET n == Len(stored[t])
                        segs == {k[2] : k \in {j \in DOMAIN engine.fs.names : j[1] = t}}
                    IN  /\ segs = 0 .. ((n - 1) \div segment_size)
                        /\ \A s \in segs : Len(engine.fs.data[engine.fs.names[<<t, s>>]]) =
                               IF (s + 1) * segment_size <= n THEN segment_size
                                                              ELSE n % segment_size
                        /\ \A k \in DOMAIN engine.cache.filecache_ :
                               k[1] = t => FileOf(engine.cache, k) = engine.fs.names[k]
    BY DEF LayoutExact
<1> DEFINE segs == {k[2] : k \in {j \in DOMAIN engine.fs.names : j[1] = t}}
<1>1. PICK pages : pages = stored[t]
    OBVIOUS
<1>2. OnDisk(engine.fs, t, pages) /\ OpenRight(engine, t)
    BY <1>1 DEF StorageInv, TableOK
<1>3. /\ pages \in Seq(PageType) /\ AllWhole(pages) /\ Len(pages) \in Nat /\ Len(pages) # 0
      /\ \A s : <<t, s>> \in DOMAIN engine.fs.names <=> s \in 0 .. LastSeg(Len(pages))
      /\ \A s \in 0 .. LastSeg(Len(pages)) :
             engine.fs.data[engine.fs.names[<<t, s>>]] = Segment(pages, s)
    BY <1>2 DEF OnDisk
<1>4. segs = 0 .. LastSeg(Len(pages))
    <2>1. \A k \in DOMAIN engine.fs.names : k = <<k[1], k[2]>>
        BY DEF StorageInv, EngineOK, DiskOK
    <2>2. ASSUME NEW s PROVE s \in segs <=> <<t, s>> \in DOMAIN engine.fs.names
        <3>1. ASSUME s \in segs PROVE <<t, s>> \in DOMAIN engine.fs.names
            BY <2>1, <3>1
        <3>2. ASSUME <<t, s>> \in DOMAIN engine.fs.names PROVE s \in segs
            BY <3>2
        <3> QED
            BY <3>1, <3>2
    <2> QED
        BY <1>3, <2>2
<1>5. ASSUME NEW s \in 0 .. LastSeg(Len(pages))
      PROVE  Len(engine.fs.data[engine.fs.names[<<t, s>>]]) = SegLen(Len(pages), s)
    <2>1. s \in Nat /\ s * segment_size <= Len(pages)
        <3>1. s * segment_size < Len(pages) /\ s \in Nat /\ s * segment_size \in Nat
            BY <1>3, SegStarts
        <3> QED
            BY <1>3, <3>1
    <2> QED
        BY <1>3, <2>1, SegmentIs
<1>6. \A k \in DOMAIN engine.cache.filecache_ :
          k[1] = t => FileOf(engine.cache, k) = engine.fs.names[k]
    BY <1>2 DEF OpenRight, OpenKeys
<1> HIDE DEF segs
<1> QED
    BY <1>1, <1>4, <1>5, <1>6 DEF SegLen, LastSeg, segs
-----------------------------------------------------------------------------
\* read_page of any page of a sound table returns what was last written to
\* it, and the metadata in memory counts exactly its pages, however files
\* are evicted from the cache, whatever calls on other tables fail or delete
\* them, and wherever the process dies and is started again.
THEOREM PagesAlwaysExact == Spec => []PagesExact
BY StorageAlways, PagesFollow, PTL

\* On disk a sound table always is a run of segment files, all full but the
\* last, and open_segment has cached no file of it but the ones its names
\* lead to.
THEOREM LayoutAlwaysExact == Spec => []LayoutExact
BY StorageAlways, LayoutFollows, PTL

\* No call on a sound table fails but for a page past its last one and for
\* creating it again; an assertion that fails in shutdown() or in the
\* constructor is over a table that is not sound or has outgrown its first
\* segment.
THEOREM OnlyUnsoundFail == Spec => []FailsOverUnsound
BY StorageAlways, PTL
=============================================================================
