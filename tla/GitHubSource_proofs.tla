------------------------ MODULE GitHubSource_proofs --------------------------
(***************************************************************************)
(* Why the GitHub source misses nothing, for any repository, any page      *)
(* sizes, any number of changes, failures and restarts.                    *)
(*                                                                         *)
(* An item is due when its latest change falls between the watermark and   *)
(* the start of the fetch under way.  While the list is read, each item    *)
(* that is due has been listed or stands behind the pages read so far:     *)
(* whatever else changes moves to the front, and pushes it back, unless an *)
(* item leaves the list (ListKept).  While the details are read, each is   *)
(* still on the list or was read as it is now (ReadKept).  So at the end   *)
(* of the fetch every one was read (PassedKept).                           *)
(*                                                                         *)
(* The last section follows the agent's replies: whether one is listed as  *)
(* an item's latest change, or arrives after the list, the read ends on    *)
(* it (Silent).                                                            *)
(***************************************************************************)
EXTENDS GitHubSource, FiniteSetTheorems, WellFoundedInduction, TLAPS

\* How many of the matching items the list shows before n.
Rank(n) == Cardinality({m \in Matching : Before(m, n)})

\* The entries of the list, and the comments.
Entry == [number : Number, updated : Nat, label : BOOLEAN, count : Nat]

Remarks == [owner : BOOLEAN, mark : Mark, time : Nat]

-----------------------------------------------------------------------------
(* Numbers.                                                                 *)

\* A finite non-empty set of natural numbers has a greatest element, which Max names.
LEMMA MaxOfFinite ==
    ASSUME NEW S \in SUBSET Nat, IsFiniteSet(S), S # {}
    PROVE  Max(S) \in S /\ \A y \in S : Max(S) >= y
<1> DEFINE topless == {T \in FiniteSubsetsOf(S) : T # {} /\ ~\E m \in T : \A y \in T : m >= y}
<1>1. topless = {}
  <2>1. SUFFICES ASSUME topless # {} PROVE FALSE
      OBVIOUS
  <2>2. PICK T \in topless : \A U \in topless : ~(<<U, T>> \in StrictSubsetOrdering(S))
      BY <2>1, FS_StrictSubsetOrderingWellFounded, WFMin, Zenon
  <2>3. PICK x \in T : TRUE
      BY <2>2
  <2> DEFINE U == T \ {x}
  <2>4. T \subseteq S /\ U \subseteq S /\ U # T /\ IsFiniteSet(U)
      BY <2>2, <2>3, FS_RemoveElement DEF FiniteSubsetsOf
  <2>5. U \notin topless
      BY <2>2, <2>4 DEF StrictSubsetOrdering
  <2>6. CASE U = {}
      BY <2>2, <2>3, <2>4, <2>6
  <2>7. CASE U # {}
    <3>1. PICK m \in U : \A y \in U : m >= y
        BY <2>4, <2>5, <2>7 DEF FiniteSubsetsOf
    <3>2. \A y \in T : (IF m >= x THEN m ELSE x) >= y
        BY <2>3, <2>4, <3>1
    <3> QED
        BY <2>2, <2>3, <3>1, <3>2
  <2> QED
      BY <2>6, <2>7
<1>2. S \in FiniteSubsetsOf(S)
    BY DEF FiniteSubsetsOf
<1>3. \E m \in S : \A y \in S : m >= y
    BY <1>1, <1>2
<1> QED
    BY <1>3 DEF Max

\* So does one whose elements are bounded.
LEMMA MaxOfBounded ==
    ASSUME NEW n \in Nat, NEW S \in SUBSET (0..n), S # {}
    PROVE  Max(S) \in S /\ \A y \in S : Max(S) >= y
<1> DEFINE up == 0..n
<1>1. IsFiniteSet(up) /\ S \in SUBSET up
    BY FS_Interval
<1>2. S \in SUBSET Nat
    OBVIOUS
<1> HIDE DEF up
<1>3. IsFiniteSet(S)
    BY <1>1, FS_Subset
<1> QED
    BY <1>2, <1>3, MaxOfFinite

\* The smaller of two numbers.
LEMMA MinOfTwo ==
    ASSUME NEW a \in Int, NEW b \in Int
    PROVE  Min({a, b}) = IF a <= b THEN a ELSE b
<1>1. \E x \in {a, b} : \A y \in {a, b} : x <= y
    OBVIOUS
<1> QED
    BY <1>1 DEF Min

\* Where the pages of the list begin and end.
LEMMA PageBounds ==
    ASSUME NEW k \in Nat \ {0}
    PROVE  /\ (k - 1) * IssuesPerPage \in Nat
           /\ k * IssuesPerPage = (k - 1) * IssuesPerPage + IssuesPerPage
           /\ k = 1 => (k - 1) * IssuesPerPage = 0
<1>1. IssuesPerPage \in Nat /\ k - 1 \in Nat
    BY PageAssumption
<1> QED
    BY <1>1

\* The last of the comments is on the page that commentsLastPage asks for.
LEMMA PageOfLast ==
    ASSUME NEW c \in Nat \ {0}, NEW p \in Int, p = (c + CommentsPerPage - 1) \div CommentsPerPage
    PROVE  /\ p \in Nat \ {0}
           /\ (p - 1) * CommentsPerPage < c
           /\ c <= p * CommentsPerPage
           /\ c <= CommentsPerPage => p = 1
<1>1. CommentsPerPage \in Nat \ {0}
    BY PageAssumption
<1>2. c + CommentsPerPage - 1 \in Nat
    BY <1>1
<1>3. p * CommentsPerPage <= c + CommentsPerPage - 1 /\ c + CommentsPerPage - 1 < (p + 1) * CommentsPerPage
    BY <1>1, <1>2
<1> QED
    BY <1>1, <1>2, <1>3

\* A comment that no full page separates from the last one is on that page.
LEMMA PageOfNewest ==
    ASSUME NEW c \in Nat \ {0}, NEW p \in Int, p = (c + CommentsPerPage - 1) \div CommentsPerPage,
           NEW i \in 1..c, (i - 1) \div CommentsPerPage = (c - 1) \div CommentsPerPage
    PROVE  (p - 1) * CommentsPerPage < i
<1>1. PICK size \in Nat \ {0} : size = CommentsPerPage
    BY PageAssumption
<1>2. PICK q \in Int : q = (c - 1) \div size
    BY <1>1
<1>3. c - 1 < (q + 1) * size /\ q * size <= i - 1
    BY <1>1, <1>2
<1>4. (p - 1) * size <= c - 1
    BY <1>1, PageOfLast
<1>5. (p - 1) * size < (q + 1) * size /\ (q + 1) * size = q * size + size
    BY <1>1, <1>3, <1>4
<1>6. p - 1 <= q
  <2>1. SUFFICES ASSUME p - 1 >= q + 1 PROVE FALSE
      OBVIOUS
  <2>2. PICK d \in Nat : d = (p - 1) - (q + 1)
    <3>1. (p - 1) - (q + 1) \in Nat
        BY <2>1
    <3> QED
        BY <3>1
  <2>3. p - 1 = (q + 1) + d
      BY <2>2
  <2>4. (p - 1) * size = (q + 1) * size + d * size /\ d * size >= 0
      BY <2>3
  <2> QED
      BY <1>5, <2>4
<1>7. (p - 1) * size <= q * size
  <2>1. PICK d \in Nat : d = q - (p - 1)
    <3>1. q - (p - 1) \in Nat
        BY <1>6
    <3> QED
        BY <3>1
  <2>2. q = (p - 1) + d
      BY <2>1
  <2>3. q * size = (p - 1) * size + d * size /\ d * size >= 0
      BY <2>2
  <2> QED
      BY <2>3
<1> QED
    BY <1>1, <1>3, <1>7

-----------------------------------------------------------------------------
(* The order of the list.                                                   *)

\* The list orders the items.
LEMMA BeforeOrders ==
    ASSUME TypeOK
    PROVE  /\ \A n \in Number : ~Before(n, n)
           /\ \A m, n \in Number : m # n => Before(m, n) \/ Before(n, m)
           /\ \A l, m, n \in Number : Before(l, m) /\ Before(m, n) => Before(l, n)
<1>1. \A n \in Number : n \in Nat /\ item[n].updated \in Nat
    BY NumberAssumption DEF TypeOK
<1> QED
    BY <1>1 DEF Before

\* The matching items are finitely many, and a rank is below their number.
LEMMA RankBounds ==
    ASSUME TypeOK
    PROVE  /\ IsFiniteSet(Matching) /\ Cardinality(Matching) \in Nat
           /\ \A n \in Matching : Rank(n) \in 0..(Cardinality(Matching) - 1)
<1>1. IsFiniteSet(Matching) /\ Cardinality(Matching) \in Nat
  <2>1. Matching \in SUBSET Number
      BY DEF Matching
  <2> QED
      BY <2>1, NumberAssumption, FS_Subset, FS_CardinalityType
<1>2. ASSUME NEW n \in Matching PROVE Rank(n) \in 0..(Cardinality(Matching) - 1)
  <2> DEFINE before == {m \in Matching : Before(m, n)}
             others == Matching \ {n}
  <2>1. IsFiniteSet(others) /\ Cardinality(others) = Cardinality(Matching) - 1
      BY <1>1, FS_RemoveElement
  <2>2. before \in SUBSET others
    <3>1. n \in Number
        BY DEF Matching
    <3> QED
        BY <3>1, BeforeOrders
  <2> HIDE DEF others
  <2>3. IsFiniteSet(before) /\ Cardinality(before) <= Cardinality(others)
      BY <2>1, <2>2, FS_Subset
  <2>4. Cardinality(before) \in Nat
      BY <2>3, FS_CardinalityType
  <2>5. Rank(n) = Cardinality(before)
      BY DEF Rank
  <2> HIDE DEF before
  <2> QED
      BY <1>1, <2>1, <2>3, <2>4, <2>5
<1> QED
    BY <1>1, <1>2

\* Two items have two ranks.
LEMMA RankDistinct ==
    ASSUME TypeOK, NEW m \in Matching, NEW n \in Matching, Rank(m) = Rank(n)
    PROVE  m = n
<1>0. m \in Number /\ n \in Number /\ Matching \subseteq Number
    BY DEF Matching
<1>1. ASSUME NEW a \in Matching, NEW b \in Matching, Before(a, b) PROVE Rank(a) # Rank(b)
  <2> DEFINE A == {x \in Matching : Before(x, a)}
             B == {x \in Matching : Before(x, b)}
  <2>1. A \subseteq B
      BY <1>0, <1>1, BeforeOrders
  <2>2. a \in B /\ a \notin A
      BY <1>0, <1>1, BeforeOrders
  <2>3. IsFiniteSet(Matching) /\ B \subseteq Matching
      BY RankBounds
  <2>4. Rank(a) = Cardinality(A) /\ Rank(b) = Cardinality(B)
      BY DEF Rank
  <2> HIDE DEF A, B
  <2>5. IsFiniteSet(B)
      BY <2>3, FS_Subset
  <2>6. Cardinality(B) = Cardinality(A) => A = B
      BY <2>1, <2>5, FS_Subset
  <2> QED
      BY <2>2, <2>4, <2>6
<1> QED
    BY <1>0, <1>1, BeforeOrders

\* And every number below that of the matching items is the rank of one.
LEMMA RankCovers ==
    ASSUME TypeOK, NEW r \in 0..(Cardinality(Matching) - 1)
    PROVE  \E n \in Matching : Rank(n) = r
<1> DEFINE rank == [n \in Matching |-> Rank(n)]
           ranks == 0..(Cardinality(Matching) - 1)
<1>1. IsFiniteSet(Matching) /\ Cardinality(Matching) \in Nat
    BY RankBounds
<1>2. rank \in [Matching -> ranks]
    BY RankBounds
<1>3. rank \in Injection(Matching, ranks)
  <2>1. \A m, n \in Matching : rank[m] = rank[n] => m = n
      BY RankDistinct
  <2> HIDE DEF rank, ranks
  <2> QED
      BY <1>2, <2>1 DEF Injection, IsInjective
<1>4. IsFiniteSet(ranks) /\ Cardinality(ranks) = Cardinality(Matching)
    BY <1>1, FS_Interval
<1>5. rank \in Surjection(Matching, ranks)
  <2> HIDE DEF rank, ranks
  <2> QED
      BY <1>3, <1>4, FS_Injection
<1>6. \E n \in Matching : rank[n] = r
  <2>1. r \in ranks
      OBVIOUS
  <2> HIDE DEF rank, ranks
  <2> QED
      BY <1>5, <2>1 DEF Surjection
<1> QED
    BY <1>6

\* n is on page k when its rank is among those of the page, and what a page shows of
\* an item is the item as it is.
LEMMA PageFacts ==
    ASSUME TypeOK, NEW k \in Nat \ {0}
    PROVE  /\ Page(k) \in Seq(Entry)
           /\ \A i \in 1..Len(Page(k)) :
                LET n == Page(k)[i].number
                IN  /\ n \in Matching
                    /\ Page(k)[i].updated = item[n].updated
                    /\ Page(k)[i].label = item[n].label
                    /\ Page(k)[i].count = Len(item[n].comments)
           /\ \A n \in Matching :
                (k - 1) * IssuesPerPage <= Rank(n) /\ Rank(n) < k * IssuesPerPage
                => \E i \in 1..Len(Page(k)) : Page(k)[i].number = n
<1> DEFINE at(i) == CHOOSE n \in Matching : Cardinality({m \in Matching : Before(m, n)}) = i - 1
<1>1. PICK from \in Nat : from = (k - 1) * IssuesPerPage /\ k * IssuesPerPage = from + IssuesPerPage
    BY PageBounds
<1>2. PICK all \in Nat : all = Cardinality(Matching)
    BY RankBounds
<1>3. PICK len \in Int : len = IF IssuesPerPage <= all - from THEN IssuesPerPage ELSE all - from
    BY <1>1, <1>2, PageAssumption
<1>4. Min({IssuesPerPage, all - from}) = len
  <2>1. IssuesPerPage \in Int /\ all - from \in Int
      BY PageAssumption
  <2> QED
      BY <1>3, <2>1, MinOfTwo
<1> DEFINE entry(n) == [number |-> n, updated |-> item[n].updated,
                        label |-> item[n].label, count |-> Len(item[n].comments)]
           page == [i \in 1..len |-> entry(at(from + i))]
<1>5. Page(k) = page
    BY <1>1, <1>2, <1>4 DEF Page
<1>6. ASSUME NEW i \in 1..len
      PROVE  at(from + i) \in Matching /\ Rank(at(from + i)) = from + i - 1
  <2>1. from + i - 1 \in 0..(all - 1)
      BY <1>3, PageAssumption
  <2>2. \E n \in Matching : Rank(n) = from + i - 1
      BY <1>2, <2>1, RankCovers
  <2>3. \E n \in Matching : Cardinality({m \in Matching : Before(m, n)}) = from + i - 1
      BY <2>2 DEF Rank
  <2> DEFINE ranked(n) == Cardinality({m \in Matching : Before(m, n)}) = from + i - 1
  <2>4. at(from + i) = (CHOOSE n \in Matching : ranked(n))
      OBVIOUS
  <2>6. \E n \in Matching : ranked(n)
      BY <2>3
  <2> HIDE DEF at
  <2>5. at(from + i) \in Matching /\ ranked(at(from + i))
    <3> HIDE DEF ranked
    <3> QED
        BY <2>4, <2>6
  <2> QED
      BY <2>5 DEF Rank
<1>7. \A n \in Matching : entry(n) \in Entry
  <2>1. \A n \in Matching : /\ n \in Number /\ item[n].updated \in Nat /\ item[n].label \in BOOLEAN
                            /\ Len(item[n].comments) \in Nat
      BY DEF TypeOK, Matching
  <2> QED
      BY <2>1 DEF Entry
<1> HIDE DEF at, entry
<1>8. \A i \in 1..len : page[i] = entry(at(from + i)) /\ page[i] \in Entry
    BY <1>6, <1>7
<1>9. page \in Seq(Entry) /\ Len(page) = IF len >= 0 THEN len ELSE 0
  <2>1. PICK l \in Nat : l = (IF len >= 0 THEN len ELSE 0) /\ 1..l = 1..len
      OBVIOUS
  <2>2. page \in [1..l -> Entry]
      BY <1>8, <2>1
  <2> HIDE DEF page
  <2>3. page \in Seq(Entry) /\ Len(page) = l
      BY <2>2
  <2> QED
      BY <2>1, <2>3
<1>10. 1..Len(page) = 1..len
  <2> HIDE DEF page
  <2> QED
      BY <1>9
<1>11. ASSUME NEW i \in 1..len
       PROVE  LET n == page[i].number
              IN  /\ n \in Matching
                  /\ page[i].updated = item[n].updated
                  /\ page[i].label = item[n].label
                  /\ page[i].count = Len(item[n].comments)
    BY <1>6, <1>8 DEF entry
<1>12. ASSUME NEW n \in Matching, from <= Rank(n), Rank(n) < from + IssuesPerPage
       PROVE  \E i \in 1..len : page[i].number = n
  <2>1. Rank(n) \in 0..(all - 1)
      BY <1>2, RankBounds
  <2>2. PICK i \in Int : i = Rank(n) - from + 1
      BY <2>1
  <2>3. i \in 1..len /\ from + i - 1 = Rank(n)
      BY <1>3, <1>12, <2>1, <2>2, PageAssumption
  <2>4. at(from + i) = n
      BY <1>6, <2>3, RankDistinct
  <2>5. page[i].number = n
      BY <1>8, <2>3, <2>4 DEF entry
  <2> QED
      BY <2>3, <2>5
<1> HIDE DEF page
<1> QED
    BY <1>1, <1>5, <1>9, <1>10, <1>11, <1>12

-----------------------------------------------------------------------------
(* The comments.                                                            *)

\* A comment is no later than the latest change of its item, and they stand in the
\* order they were posted in.
TimesKept ==
    \A n \in Number : \A i \in 1..Len(item[n].comments) :
        /\ item[n].comments[i].time <= item[n].updated
        /\ \A j \in i..Len(item[n].comments) : item[n].comments[i].time <= item[n].comments[j].time

\* What the types say of an item's comments.
LEMMA CommentsType ==
    ASSUME TypeOK, NEW n \in Number
    PROVE  /\ item[n].comments \in Seq(Remarks)
           /\ Len(item[n].comments) \in Nat
           /\ DOMAIN item[n].comments = 1..Len(item[n].comments)
           /\ \A i \in 1..Len(item[n].comments) :
                /\ item[n].comments[i].owner \in BOOLEAN /\ item[n].comments[i].mark \in Mark
                /\ item[n].comments[i].time \in Nat
<1>1. PICK s \in Seq(Remarks) : s = item[n].comments
    BY DEF TypeOK, Remarks
<1>2. Len(s) \in Nat /\ DOMAIN s = 1..Len(s) /\ \A i \in 1..Len(s) : s[i] \in Remarks
    OBVIOUS
<1>3. \A i \in 1..Len(s) : s[i].owner \in BOOLEAN /\ s[i].mark \in Mark /\ s[i].time \in Nat
    BY <1>2 DEF Remarks
<1> QED
    BY <1>1, <1>2, <1>3

\* The page of comments that is read has the last one that was counted; when nothing
\* was posted since it ends with it, and has all that no full page separates from it.
LEMMA LastPageFacts ==
    ASSUME TypeOK, NEW n \in Number, NEW count \in Nat, count <= Len(item[n].comments)
    PROVE  /\ LastPage(n, count) \subseteq 1..Len(item[n].comments)
           /\ count = 0 => LastPage(n, count) = {}
           /\ count > 0 => count \in LastPage(n, count)
           /\ count > 0 /\ count = Len(item[n].comments) => Max(LastPage(n, count)) = count
           /\ count = Len(item[n].comments)
              => \A i \in 1..Len(item[n].comments) : Newest(n, i) => i \in LastPage(n, count)
<1>1. PICK len \in Nat : len = Len(item[n].comments) /\ DOMAIN item[n].comments = 1..len
    BY CommentsType
<1>2. PICK p \in Int : p = (count + CommentsPerPage - 1) \div CommentsPerPage
  <2>1. CommentsPerPage \in Nat \ {0} /\ count + CommentsPerPage - 1 \in Int
      BY PageAssumption
  <2> QED
      BY <2>1
<1> DEFINE page == {i \in 1..len : count > 0 /\ i > (p - 1) * CommentsPerPage /\ i <= p * CommentsPerPage}
<1>3. LastPage(n, count) = page
    BY <1>1, <1>2 DEF LastPage
<1>4. PICK low \in Int : low = (p - 1) * CommentsPerPage
    BY PageAssumption
<1>5. PICK high \in Int : high = p * CommentsPerPage
    BY PageAssumption
<1>6. count > 0 => low < count /\ count <= high
    BY <1>2, <1>4, <1>5, PageOfLast
<1>7. ASSUME count = len, NEW i \in 1..len, Newest(n, i) PROVE low < i
  <2>1. (i - 1) \div CommentsPerPage = (count - 1) \div CommentsPerPage
      BY <1>1, <1>7 DEF Newest
  <2> QED
      BY <1>2, <1>4, <1>7, <2>1, PageOfNewest
<1>8. page = {i \in 1..len : count > 0 /\ i > low /\ i <= high}
    BY <1>4, <1>5
<1> HIDE DEF page
<1>9. page \subseteq 1..len /\ (count = 0 => page = {})
    BY <1>8
<1>10. count > 0 => count \in page
    BY <1>1, <1>6, <1>8
<1>11. count > 0 /\ count = len => Max(page) = count
  <2>1. SUFFICES ASSUME count > 0, count = len PROVE Max(page) = count
      OBVIOUS
  <2>2. page \in SUBSET (0..len) /\ page # {}
      BY <1>9, <1>10, <2>1
  <2>3. Max(page) \in page /\ \A y \in page : Max(page) >= y
      BY <2>2, MaxOfBounded
  <2>4. PICK max \in 1..len : max = Max(page)
      BY <1>9, <2>3
  <2>5. max >= count
      BY <1>10, <2>1, <2>3, <2>4
  <2> QED
      BY <2>1, <2>4, <2>5
<1>12. ASSUME count = len, NEW i \in 1..len, Newest(n, i) PROVE i \in page
  <2>1. count > 0 /\ low < i /\ i <= high
      BY <1>6, <1>7, <1>12
  <2> QED
      BY <1>8, <2>1
<1> QED
    BY <1>1, <1>3, <1>9, <1>10, <1>11, <1>12

\* The activity is the time of the item's change or of a comment of the owner's, and
\* none of them is later.
LEMMA ActivityFacts ==
    ASSUME TypeOK, TimesKept, NEW n \in Number, NEW updated \in Nat,
           NEW page \in SUBSET (1..Len(item[n].comments))
    PROVE  /\ Activity(n, updated, page) \in Nat
           /\ updated <= Activity(n, updated, page)
           /\ \A i \in page : item[n].comments[i].owner
                => item[n].comments[i].time <= Activity(n, updated, page)
           /\ \/ Activity(n, updated, page) = updated
              \/ \E i \in page : /\ item[n].comments[i].owner
                                 /\ Activity(n, updated, page) = item[n].comments[i].time
<1> DEFINE times == {updated} \cup {item[n].comments[i].time : i \in {j \in page : item[n].comments[j].owner}}
<1>1. item[n].updated \in Nat
    BY DEF TypeOK
<1>2. PICK top \in Nat : updated <= top /\ item[n].updated <= top
    BY <1>1
<1>3. \A i \in page : item[n].comments[i].time \in 0..top
    BY <1>1, <1>2, CommentsType DEF TimesKept
<1>4. times \in SUBSET (0..top) /\ times # {}
    BY <1>2, <1>3
<1>5. Activity(n, updated, page) = Max(times)
    BY DEF Activity
<1>6. Max(times) \in times /\ \A y \in times : Max(times) >= y
  <2> HIDE DEF times
  <2> QED
      BY <1>4, MaxOfBounded
<1>7. PICK max \in Nat : max = Max(times)
  <2>1. times \subseteq Nat
      BY <1>4
  <2> HIDE DEF times
  <2> QED
      BY <1>6, <2>1
<1>8. max \in times /\ \A y \in times : max >= y
    BY <1>6, <1>7
<1>9. updated <= max /\ \A i \in page : item[n].comments[i].owner => item[n].comments[i].time <= max
    BY <1>3, <1>8
<1>10. max = updated \/ \E i \in page : item[n].comments[i].owner /\ max = item[n].comments[i].time
    BY <1>8
<1> QED
    BY <1>5, <1>7, <1>9, <1>10

-----------------------------------------------------------------------------
(* What a step does.                                                        *)

\* Items and fetches up to time t.
ItemAt(t) == [open : BOOLEAN, label : BOOLEAN, updated : 0..t, head : Nat, comments : Seq(Remarks)]

FetchAt(t) == [pc : {"idle", "list", "item", "comments"}, start : 0..t, page : 1..MaxPages,
               listed : Seq(Entry), out : SUBSET Events, torn : BOOLEAN]

\* The types, each apart.
LEMMA TypeParts ==
    TypeOK <=>
    /\ clock \in Nat
    /\ item \in [Number -> ItemAt(clock)]
    /\ since \in born..clock /\ born \in 1..clock
    /\ fetch \in FetchAt(clock)
    /\ emitted \in SUBSET Events
    /\ torn \in BOOLEAN
    /\ prompted \subseteq Number \X Nat
    /\ changes \in Nat /\ restarts \in Nat
BY DEF TypeOK, ItemAt, FetchAt, Entry, Remarks

\* A comment more.
Posted(n, c) == Append(item[n].comments, [owner |-> c.owner, mark |-> c.mark, time |-> clock])

\* A change of an item, whatever it is: the item moves to the front of the list and
\* leaves it only when it is closed; somebody but the agent prompts it, or the agent replies.
Moves(n) ==
    /\ UNCHANGED <<clock, since, emitted, born, torn, restarts>> /\ changes' \in Nat
    /\ item' \in [Number -> ItemAt(clock)]
    /\ \A m \in Number \ {n} : item'[m] = item[m]
    /\ item'[n].updated = clock
    /\ \/ /\ item'[n].comments = item[n].comments
          /\ prompted' = prompted \cup {<<n, clock>>}
       \/ \E c \in Comment[n] :
            /\ item'[n].comments = Posted(n, c)
            /\ prompted' = IF c.mark = "bot" THEN prompted ELSE prompted \cup {<<n, clock>>}
    /\ \/ fetch' = fetch /\ (item[n].open => item'[n].open)
       \/ fetch' = [fetch EXCEPT !.torn = @ \/ (fetch.pc = "list" /\ fetch.page > 1)]

\* What a change of the repository does to the fetch under way and to the other items.
LEMMA UpstreamMoves ==
    ASSUME TypeOK, NEW n \in Number, Upstream(n)
    PROVE  Moves(n)
<1>0. /\ clock \in Nat /\ changes \in Nat /\ item \in [Number -> ItemAt(clock)]
      /\ item[n] \in ItemAt(clock)
    BY TypeParts
<1>1. ASSUME NEW after, after \in ItemAt(clock), Change(n, after)
      PROVE  /\ UNCHANGED <<clock, since, emitted, born, torn, restarts>> /\ changes' \in Nat
             /\ item' \in [Number -> ItemAt(clock)]
             /\ \A m \in Number \ {n} : item'[m] = item[m]
             /\ item'[n].updated = clock /\ item'[n].open = after.open
             /\ item'[n].comments = after.comments
  <2>0. clock \in 0..clock
      BY <1>0
  <2>1. [after EXCEPT !.updated = clock] \in ItemAt(clock)
      BY <1>1, <2>0 DEF ItemAt
  <2>2. /\ [after EXCEPT !.updated = clock].updated = clock
        /\ [after EXCEPT !.updated = clock].open = after.open
        /\ [after EXCEPT !.updated = clock].comments = after.comments
      BY <1>1 DEF ItemAt
  <2>3. PICK it : it = [after EXCEPT !.updated = clock]
      OBVIOUS
  <2>4. item' = [item EXCEPT ![n] = it]
      BY <1>1, <2>3 DEF Change
  <2> QED
      BY <1>0, <1>1, <2>1, <2>2, <2>3, <2>4 DEF Change
<1>2. CASE Push(n)
  <2>1. PICK after : after = [item[n] EXCEPT !.head = @ + 1]
      OBVIOUS
  <2>2. after \in ItemAt(clock) /\ after.open = item[n].open /\ after.comments = item[n].comments
      BY <1>0, <2>1 DEF ItemAt
  <2>3. Change(n, after) /\ prompted' = prompted \cup {<<n, clock>>} /\ fetch' = fetch
      BY <1>2, <2>1 DEF Push, Prompts
  <2> QED
      BY <1>1, <2>2, <2>3 DEF Moves
<1>3. ASSUME NEW set \in BOOLEAN, Label(n, set) PROVE Moves(n)
  <2>1. PICK after : after = [item[n] EXCEPT !.label = set]
      OBVIOUS
  <2>2. after \in ItemAt(clock) /\ after.open = item[n].open /\ after.comments = item[n].comments
      BY <1>0, <2>1 DEF ItemAt
  <2>3. Change(n, after) /\ prompted' = prompted \cup {<<n, clock>>} /\ fetch' = fetch
      BY <1>3, <2>1 DEF Label, Prompts
  <2> QED
      BY <1>1, <2>2, <2>3 DEF Moves
<1>4. ASSUME NEW c \in Comment[n], Post(n, c) PROVE Moves(n)
  <2>1. PICK after :
           after = [item[n] EXCEPT !.comments =
                       Append(@, [owner |-> c.owner, mark |-> c.mark, time |-> clock])]
      OBVIOUS
  <2>2. c.owner \in BOOLEAN /\ c.mark \in Mark
      BY CommentAssumption
  <2>3. [owner |-> c.owner, mark |-> c.mark, time |-> clock] \in Remarks
      BY <1>0, <2>2 DEF Remarks
  <2>4. item[n].comments \in Seq(Remarks)
      BY <1>0 DEF ItemAt
  <2>5. Posted(n, c) \in Seq(Remarks)
      BY <2>3, <2>4 DEF Posted
  <2>6. after = [item[n] EXCEPT !.comments = Posted(n, c)]
      BY <2>1 DEF Posted
  <2>7. after \in ItemAt(clock) /\ after.open = item[n].open /\ after.comments = Posted(n, c)
      BY <1>0, <2>5, <2>6 DEF ItemAt
  <2>8. /\ Change(n, after) /\ fetch' = fetch
        /\ prompted' = IF c.mark = "bot" THEN prompted ELSE prompted \cup {<<n, clock>>}
      BY <1>4, <2>1 DEF Post, Prompts
  <2> QED
      BY <1>1, <2>7, <2>8 DEF Moves
<1>5. CASE Close(n)
  <2>1. PICK after : after = [item[n] EXCEPT !.open = FALSE]
      OBVIOUS
  <2>2. after \in ItemAt(clock) /\ after.comments = item[n].comments
      BY <1>0, <2>1 DEF ItemAt
  <2>3. /\ Change(n, after) /\ prompted' = prompted \cup {<<n, clock>>}
        /\ fetch' = [fetch EXCEPT !.torn = @ \/ (fetch.pc = "list" /\ fetch.page > 1)]
      BY <1>5, <2>1 DEF Close, Prompts
  <2> QED
      BY <1>1, <2>2, <2>3 DEF Moves
<1>6. CASE Reopen(n)
  <2>1. PICK after : after = [item[n] EXCEPT !.open = TRUE]
      OBVIOUS
  <2>2. after \in ItemAt(clock) /\ after.open = TRUE /\ after.comments = item[n].comments
      BY <1>0, <2>1 DEF ItemAt
  <2>3. Change(n, after) /\ prompted' = prompted \cup {<<n, clock>>} /\ fetch' = fetch
      BY <1>6, <2>1 DEF Reopen, Prompts
  <2> QED
      BY <1>1, <2>2, <2>3 DEF Moves
<1> QED
    BY <1>2, <1>3, <1>4, <1>5, <1>6 DEF Upstream

-----------------------------------------------------------------------------
(* Types.                                                                   *)

\* A fetch starts no earlier than its window, and reads the comments of the wanted
\* pull requests alone.
FetchShape ==
    /\ fetch.pc # "idle" => since <= fetch.start
    /\ fetch.pc = "comments" =>
        /\ fetch.listed # <<>> /\ Listed.number \in Wanted \cap PullRequest

\* A listed entry stems from this window; it counts comments that are there, and shows
\* the item as it is unless that has changed since the fetch started.
EntriesKept ==
    \A k \in 1..Len(fetch.listed) :
        LET entry == fetch.listed[k]
            now == item[entry.number]
        IN  /\ since <= entry.updated
            /\ entry.count <= Len(now.comments)
            /\ now.updated < fetch.start =>
                /\ entry.updated = now.updated /\ entry.label = now.label
                /\ entry.count = Len(now.comments)

Typed == TypeOK /\ TimesKept /\ FetchShape /\ EntriesKept

\* The fields of the fetch.
LEMMA FetchType ==
    ASSUME TypeOK
    PROVE  /\ fetch.pc \in {"idle", "list", "item", "comments"} /\ fetch.start \in 0..clock
           /\ fetch.page \in 1..MaxPages /\ fetch.listed \in Seq(Entry) /\ fetch.out \in SUBSET Events
           /\ fetch.torn \in BOOLEAN
           /\ Len(fetch.listed) \in Nat
           /\ \A k \in 1..Len(fetch.listed) :
                /\ fetch.listed[k] \in Entry
                /\ fetch.listed[k].number \in Number /\ fetch.listed[k].updated \in Nat
                /\ fetch.listed[k].label \in BOOLEAN /\ fetch.listed[k].count \in Nat
<1>1. fetch \in FetchAt(clock)
    BY TypeParts
<1>2. /\ fetch.pc \in {"idle", "list", "item", "comments"} /\ fetch.start \in 0..clock
      /\ fetch.page \in 1..MaxPages /\ fetch.listed \in Seq(Entry) /\ fetch.out \in SUBSET Events
      /\ fetch.torn \in BOOLEAN
    BY <1>1 DEF FetchAt
<1>3. PICK s \in Seq(Entry) : s = fetch.listed
    BY <1>2
<1>4. Len(s) \in Nat /\ \A k \in 1..Len(s) : s[k] \in Entry
    OBVIOUS
<1>5. \A k \in 1..Len(s) : /\ s[k].number \in Number /\ s[k].updated \in Nat
                           /\ s[k].label \in BOOLEAN /\ s[k].count \in Nat
    BY <1>4 DEF Entry
<1> QED
    BY <1>2, <1>3, <1>4, <1>5

\* The head of what is listed.
LEMMA ListedType ==
    ASSUME TypeOK, fetch.listed # <<>>
    PROVE  /\ Listed \in Entry /\ Listed = fetch.listed[1] /\ 1 \in 1..Len(fetch.listed)
           /\ Listed.number \in Number /\ Listed.updated \in Nat
           /\ Listed.label \in BOOLEAN /\ Listed.count \in Nat
           /\ Tail(fetch.listed) \in Seq(Entry)
           /\ Len(Tail(fetch.listed)) = Len(fetch.listed) - 1
           /\ \A k \in 1..Len(Tail(fetch.listed)) :
                k + 1 \in 1..Len(fetch.listed) /\ Tail(fetch.listed)[k] = fetch.listed[k + 1]
<1>1. PICK s \in Seq(Entry) : s = fetch.listed /\ s # <<>>
    BY FetchType
<1>2. /\ Head(s) = s[1] /\ 1 \in 1..Len(s) /\ s[1] \in Entry /\ Tail(s) \in Seq(Entry)
      /\ Len(Tail(s)) = Len(s) - 1
      /\ \A k \in 1..Len(Tail(s)) : k + 1 \in 1..Len(s) /\ Tail(s)[k] = s[k + 1]
    BY <1>1
<1>3. s[1].number \in Number /\ s[1].updated \in Nat /\ s[1].label \in BOOLEAN /\ s[1].count \in Nat
    BY <1>2 DEF Entry
<1> QED
    BY <1>1, <1>2, <1>3 DEF Listed

\* What the item steps have in common: the head of the list is read, or it is the turn
\* of its comments.
LEMMA NextItemShape ==
    ASSUME TypeOK, fetch.listed # <<>>, NEW events \in SUBSET Events, NextItem(events)
    PROVE  /\ fetch' \in FetchAt(clock)
           /\ fetch'.pc = "item" /\ fetch'.start = fetch.start /\ fetch'.torn = fetch.torn
           /\ fetch'.listed = Tail(fetch.listed) /\ fetch'.out = fetch.out \cup events
<1>1. fetch \in FetchAt(clock) /\ Tail(fetch.listed) \in Seq(Entry)
    BY TypeParts, ListedType
<1>2. fetch' = [fetch EXCEPT !.pc = "item", !.listed = Tail(fetch.listed), !.out = fetch.out \cup events]
    BY <1>1 DEF NextItem, FetchAt
<1>3. fetch.out \cup events \in SUBSET Events
    BY FetchType
<1> QED
    BY <1>1, <1>2, <1>3 DEF FetchAt

\* What the reading of an issue, or of a pull request's comments, returns.
IssueEvents(n) ==
    LET page == LastPage(n, Listed.count)
    IN  IF AgentSpokeLast(n, page) THEN {}
        ELSE {Event("issue", n, Activity(n, Listed.updated, page), Authorized(n, Listed.label, page))}

VerdictEvents(n) == {Event("review", n, i, FALSE) : i \in LatestOwnerVerdict(n, LastPage(n, Listed.count))}

\* The events made of a listed issue are events.
LEMMA IssueEventsType ==
    ASSUME TypeOK, TimesKept, EntriesKept, fetch.listed # <<>>, NEW n \in Number, Listed.number = n
    PROVE  IssueEvents(n) \in SUBSET Events
<1>1. Listed.count \in Nat /\ Listed.updated \in Nat /\ Listed.count <= Len(item[n].comments)
    BY ListedType DEF EntriesKept
<1>2. PICK page : page = LastPage(n, Listed.count)
    OBVIOUS
<1>3. page \in SUBSET (1..Len(item[n].comments))
    BY <1>1, <1>2, LastPageFacts
<1>4. Activity(n, Listed.updated, page) \in Nat
    BY <1>1, <1>3, ActivityFacts
<1>5. Authorized(n, Listed.label, page) \in BOOLEAN
  <2>1. Listed.label \in BOOLEAN
      BY ListedType
  <2> QED
      BY <2>1 DEF Authorized
<1>6. Event("issue", n, Activity(n, Listed.updated, page), Authorized(n, Listed.label, page)) \in Events
    BY <1>4, <1>5 DEF Event, Events
<1> QED
    BY <1>2, <1>6 DEF IssueEvents

\* The verdict that is returned is the latest one on the page.
LEMMA LatestVerdictFacts ==
    ASSUME TypeOK, NEW n \in Number, NEW page \in SUBSET (1..Len(item[n].comments)),
           NEW i \in LatestOwnerVerdict(n, page)
    PROVE  /\ i \in page /\ item[n].comments[i].owner /\ item[n].comments[i].mark = "verdict"
           /\ \A j \in page : item[n].comments[j].owner /\ item[n].comments[j].mark = "verdict" => j <= i
<1> DEFINE verdicts == {j \in page : item[n].comments[j].owner /\ item[n].comments[j].mark = "verdict"}
<1>1. i = Max(verdicts) /\ verdicts # {}
    BY DEF LatestOwnerVerdict
<1>2. Len(item[n].comments) \in Nat
    BY CommentsType
<1>3. verdicts \in SUBSET (0..Len(item[n].comments))
    BY <1>2
<1>4. i \in verdicts /\ \A j \in verdicts : i >= j
  <2> HIDE DEF verdicts
  <2> QED
      BY <1>1, <1>2, <1>3, MaxOfBounded
<1> QED
    BY <1>2, <1>4

\* The events of the page of comments are events.
LEMMA VerdictEventsType ==
    ASSUME TypeOK, EntriesKept, fetch.listed # <<>>, NEW n \in Number, Listed.number = n
    PROVE  VerdictEvents(n) \in SUBSET Events
<1>1. Listed.count \in Nat /\ Listed.count <= Len(item[n].comments)
    BY ListedType DEF EntriesKept
<1>2. PICK page : page = LastPage(n, Listed.count)
    OBVIOUS
<1>3. page \in SUBSET (1..Len(item[n].comments))
    BY <1>1, <1>2, LastPageFacts
<1>4. \A i \in LatestOwnerVerdict(n, page) : i \in Nat
  <2>1. \A i \in LatestOwnerVerdict(n, page) : i \in page
      BY <1>3, LatestVerdictFacts
  <2> QED
      BY <1>3, <2>1, CommentsType
<1>5. \A i \in LatestOwnerVerdict(n, page) : Event("review", n, i, FALSE) \in Events
    BY <1>4 DEF Event, Events
<1> QED
    BY <1>2, <1>5 DEF VerdictEvents

-----------------------------------------------------------------------------
(* Types are kept.                                                          *)

\* The types and the times of the first state.
LEMMA InitTyped == ASSUME Init PROVE Typed
<1>1. PICK recent \in SUBSET Recent, old \in SUBSET Earlier :
        /\ item = [n \in Number |-> [open |-> TRUE, label |-> n \in old \ PullRequest, head |-> 0,
                                     updated |-> IF n \in recent THEN 1 ELSE 0,
                                     comments |-> IF n \in old THEN <<Remark>> ELSE <<>>]]
        /\ prompted = recent \X {1}
    BY DEF Init
<1>2. clock = 1 /\ since = 1 /\ born = 1 /\ fetch = NoFetch /\ emitted = {} /\ torn = FALSE
      /\ changes = 0 /\ restarts = 0
    BY DEF Init
<1>3. Remark \in Remarks /\ Remark.time = 0
    BY DEF Remark, Remarks, Mark
<1>4. PICK talk \in Seq(Remarks) : talk = <<Remark>> /\ Len(talk) = 1 /\ talk[1].time = 0
  <2>1. PICK r \in Remarks : r = Remark /\ r.time = 0
      BY <1>3
  <2>2. <<r>> \in Seq(Remarks) /\ Len(<<r>>) = 1 /\ <<r>>[1] = r
      OBVIOUS
  <2> QED
      BY <2>1, <2>2
<1>5. PICK silence \in Seq(Remarks) : silence = <<>> /\ Len(silence) = 0
  <2>1. <<>> \in Seq(Remarks) /\ Len(<<>>) = 0
      OBVIOUS
  <2> QED
      BY <2>1
<1>6. item = [n \in Number |-> [open |-> TRUE, label |-> n \in old \ PullRequest, head |-> 0,
                                updated |-> IF n \in recent THEN 1 ELSE 0,
                                comments |-> IF n \in old THEN talk ELSE silence]]
    BY <1>1, <1>4, <1>5
<1>7. item \in [Number -> ItemAt(1)]
    BY <1>6 DEF ItemAt
<1>8. fetch \in FetchAt(1)
    BY <1>2, PageAssumption DEF FetchAt, NoFetch
<1>9. TypeOK
  <2>1. prompted \subseteq Number \X Nat
    <3>1. recent \subseteq Number
        BY NumberAssumption
    <3>2. 1 \in Nat
        OBVIOUS
    <3>3. recent \X {1} \subseteq Number \X Nat
        BY <3>1, <3>2
    <3> QED
        BY <1>1, <3>3
  <2>2. clock \in Nat /\ since \in born..clock /\ born \in 1..clock
      BY <1>2
  <2>3. emitted \in SUBSET Events /\ torn \in BOOLEAN /\ changes \in Nat /\ restarts \in Nat
      BY <1>2
  <2>4. item \in [Number -> ItemAt(clock)] /\ fetch \in FetchAt(clock)
      BY <1>2, <1>7, <1>8
  <2> QED
      BY <2>1, <2>2, <2>3, <2>4, TypeParts
<1>10. TimesKept
  <2>1. \A n \in Number : item[n].comments \in {talk, silence} /\ item[n].updated \in 0..1
      BY <1>6
  <2> QED
      BY <1>4, <1>5, <2>1 DEF TimesKept
<1>11. FetchShape /\ EntriesKept
    BY <1>2 DEF FetchShape, EntriesKept, NoFetch
<1> QED
    BY <1>9, <1>10, <1>11 DEF Typed

\* A comment is posted at the end, at the time of the change, and prompts it unless it
\* is the agent's reply.
LEMMA MovesComments ==
    ASSUME TypeOK, NEW n \in Number, Moves(n)
    PROVE  /\ \/ Len(item'[n].comments) = Len(item[n].comments) /\ <<n, clock>> \in prompted'
              \/ /\ Len(item'[n].comments) = Len(item[n].comments) + 1
                 /\ LET last == item'[n].comments[Len(item[n].comments) + 1]
                    IN  /\ last.time = clock
                        /\ last.mark = "bot" \/ <<n, clock>> \in prompted'
           /\ \A i \in 1..Len(item[n].comments) : item'[n].comments[i] = item[n].comments[i]
           /\ prompted \subseteq prompted'
<1>1. PICK s \in Seq(Remarks) : s = item[n].comments
    BY CommentsType
<1>2. CASE item'[n].comments = item[n].comments /\ prompted' = prompted \cup {<<n, clock>>}
    BY <1>1, <1>2
<1>3. ASSUME NEW c \in Comment[n], item'[n].comments = Posted(n, c),
             prompted' = IF c.mark = "bot" THEN prompted ELSE prompted \cup {<<n, clock>>}
      PROVE  /\ Len(item'[n].comments) = Len(item[n].comments) + 1
             /\ item'[n].comments[Len(item[n].comments) + 1].time = clock
             /\ item'[n].comments[Len(item[n].comments) + 1].mark = c.mark
             /\ \A i \in 1..Len(item[n].comments) : item'[n].comments[i] = item[n].comments[i]
  <2>1. PICK r : r = [owner |-> c.owner, mark |-> c.mark, time |-> clock]
      OBVIOUS
  <2>2. item'[n].comments = Append(s, r) /\ r.time = clock /\ r.mark = c.mark /\ r.owner = c.owner
      BY <1>1, <1>3, <2>1 DEF Posted
  <2>3. r \in Remarks
    <3>1. c.owner \in BOOLEAN /\ c.mark \in Mark
        BY CommentAssumption
    <3> QED
        BY <2>1, <3>1 DEF Remarks, TypeOK
  <2>4. Len(Append(s, r)) = Len(s) + 1 /\ Append(s, r)[Len(s) + 1] = r
        /\ \A i \in 1..Len(s) : Append(s, r)[i] = s[i]
      BY <2>3
  <2> QED
      BY <1>1, <2>2, <2>4
<1> QED
    BY <1>2, <1>3 DEF Moves

\* A change of an item keeps them.
LEMMA MovesTyped ==
    ASSUME Typed, NEW n \in Number, Moves(n)
    PROVE  Typed'
<1>0. TypeOK /\ TimesKept /\ FetchShape /\ EntriesKept
    BY DEF Typed
<1>1. /\ clock \in Nat /\ item \in [Number -> ItemAt(clock)] /\ fetch \in FetchAt(clock)
      /\ prompted \subseteq Number \X Nat
    BY <1>0, TypeParts
<1>2. /\ clock' = clock /\ since' = since /\ item' \in [Number -> ItemAt(clock)]
      /\ item'[n].updated = clock /\ \A m \in Number \ {n} : item'[m] = item[m]
    BY DEF Moves
<1>3. /\ fetch' \in FetchAt(clock)
      /\ fetch'.pc = fetch.pc /\ fetch'.start = fetch.start /\ fetch'.listed = fetch.listed
      /\ fetch'.out = fetch.out
  <2>1. CASE fetch' = fetch
      BY <1>1, <2>1
  <2>2. CASE fetch' = [fetch EXCEPT !.torn = @ \/ (fetch.pc = "list" /\ fetch.page > 1)]
    <3>1. PICK t \in BOOLEAN : fetch' = [fetch EXCEPT !.torn = t]
        BY <1>1, <2>2 DEF FetchAt
    <3> QED
        BY <1>1, <3>1 DEF FetchAt
  <2> QED
      BY <2>1, <2>2 DEF Moves
<1>4. TypeOK'
  <2>1. prompted' \subseteq Number \X Nat
      BY <1>1 DEF Moves
  <2>2. /\ clock' \in Nat
        /\ item' \in [Number -> ItemAt(clock')]
        /\ since' \in born'..clock' /\ born' \in 1..clock'
        /\ fetch' \in FetchAt(clock')
        /\ emitted' \in SUBSET Events
        /\ torn' \in BOOLEAN
        /\ changes' \in Nat /\ restarts' \in Nat
      BY <1>0, <1>1, <1>2, <1>3, TypeParts DEF Moves
  <2> QED
      BY <2>1, <2>2 DEF TypeOK, ItemAt, FetchAt, Entry, Remarks
<1>5. item[n].updated \in 0..clock /\ item[n].comments \in Seq(Remarks)
    BY <1>1 DEF ItemAt
<1>6. TimesKept'
  <2>1. SUFFICES ASSUME NEW m \in Number, NEW i \in 1..Len(item'[m].comments)
                 PROVE  /\ item'[m].comments[i].time <= item'[m].updated
                        /\ \A j \in i..Len(item'[m].comments) :
                              item'[m].comments[i].time <= item'[m].comments[j].time
      BY DEF TimesKept
  <2>2. CASE m # n
    <3>1. item'[m] = item[m]
        BY <1>2, <2>2
    <3> QED
        BY <1>0, <2>1, <3>1 DEF TimesKept
  <2>3. CASE m = n
    <3>1. PICK len \in Nat : len = Len(item[n].comments)
        BY <1>0, CommentsType
    <3>2. \A k \in 1..len : /\ item'[n].comments[k].time \in Nat
                            /\ item'[n].comments[k].time <= clock
                            /\ \A j \in k..len : item'[n].comments[k].time <= item'[n].comments[j].time
      <4>1. \A k \in 1..len : item'[n].comments[k] = item[n].comments[k]
          BY <1>0, <3>1, MovesComments
      <4>2. \A k \in 1..len : item[n].comments[k].time \in Nat
          BY <1>0, <3>1, CommentsType
      <4>3. \A k \in 1..len : /\ item[n].comments[k].time <= item[n].updated
                              /\ \A j \in k..len : item[n].comments[k].time <= item[n].comments[j].time
          BY <1>0, <3>1 DEF TimesKept
      <4>4. item[n].updated \in Nat /\ item[n].updated <= clock /\ clock \in Nat
          BY <1>1, <1>5
      <4>5. \A k \in 1..len : item[n].comments[k].time <= clock
          BY <4>2, <4>3, <4>4
      <4>6. \A k \in 1..len : \A j \in k..len : j \in 1..len
          BY <3>1
      <4> QED
          BY <4>1, <4>2, <4>3, <4>5, <4>6
    <3>3. \/ Len(item'[n].comments) = len
          \/ Len(item'[n].comments) = len + 1 /\ item'[n].comments[len + 1].time = clock
        BY <1>0, <3>1, MovesComments
    <3>4. CASE i \in 1..len
      <4>1. SUFFICES ASSUME NEW j \in i..Len(item'[n].comments)
                     PROVE  item'[n].comments[i].time <= item'[n].comments[j].time
          BY <1>2, <2>3, <3>2, <3>4
      <4>2. j \in i..len \/ (j = len + 1 /\ item'[n].comments[len + 1].time = clock)
          BY <3>1, <3>3, <3>4
      <4> QED
          BY <3>2, <3>4, <4>2
    <3>5. CASE i \notin 1..len
      <4>1. i = len + 1 /\ Len(item'[n].comments) = len + 1 /\ item'[n].comments[i].time = clock
          BY <2>1, <2>3, <3>1, <3>3, <3>5
      <4>2. i..Len(item'[n].comments) = {i} /\ clock <= clock
          BY <1>1, <3>1, <4>1
      <4> QED
          BY <1>2, <2>3, <4>1, <4>2
    <3> QED
        BY <3>4, <3>5
  <2> QED
      BY <2>2, <2>3
<1>7. FetchShape'
    BY <1>0, <1>2, <1>3 DEF FetchShape, Listed
<1>8. EntriesKept'
  <2>1. SUFFICES ASSUME NEW k \in 1..Len(fetch.listed)
                 PROVE  LET entry == fetch.listed[k]
                            now == item'[entry.number]
                        IN  /\ since <= entry.updated
                            /\ entry.count <= Len(now.comments)
                            /\ now.updated < fetch.start =>
                                 /\ entry.updated = now.updated /\ entry.label = now.label
                                 /\ entry.count = Len(now.comments)
      BY <1>2, <1>3 DEF EntriesKept
  <2>2. PICK entry \in Entry : entry = fetch.listed[k] /\ entry.number \in Number /\ entry.count \in Nat
      BY <1>0, FetchType
  <2>3. CASE entry.number # n
    <3>1. item'[entry.number] = item[entry.number]
        BY <1>2, <2>2, <2>3
    <3> QED
        BY <1>0, <2>2, <3>1 DEF EntriesKept
  <2>4. CASE entry.number = n
    <3>1. ~(item'[n].updated < fetch.start)
        BY <1>0, <1>1, <1>2, FetchType
    <3>2. Len(item[n].comments) \in Nat /\ Len(item'[n].comments) \in Nat
          /\ Len(item[n].comments) <= Len(item'[n].comments)
      <4>1. PICK len \in Nat : len = Len(item[n].comments)
          BY <1>0, CommentsType
      <4>2. Len(item'[n].comments) \in {len, len + 1}
          BY <1>0, <4>1, MovesComments
      <4> QED
          BY <4>1, <4>2
    <3>3. since <= entry.updated /\ entry.count <= Len(item[n].comments)
        BY <1>0, <2>2, <2>4 DEF EntriesKept
    <3> QED
        BY <2>2, <2>4, <3>1, <3>2, <3>3
  <2> QED
      BY <2>3, <2>4
<1> QED
    BY <1>4, <1>6, <1>7, <1>8 DEF Typed

\* A step of the fetch leaves the repository alone.
LEMMA FetchStepTyped ==
    ASSUME Typed, FetchStep, fetch' \in FetchAt(clock), since' \in born..clock,
           emitted' \in SUBSET Events, torn' \in BOOLEAN
    PROVE  TypeOK' /\ TimesKept'
<1>1. UNCHANGED <<clock, item, prompted, changes, born, restarts>>
    BY DEF FetchStep, upstreamVars
<1>2. /\ clock' \in Nat
      /\ item' \in [Number -> ItemAt(clock')]
      /\ since' \in born'..clock' /\ born' \in 1..clock'
      /\ fetch' \in FetchAt(clock')
      /\ prompted' \subseteq Number \X Nat
      /\ changes' \in Nat /\ restarts' \in Nat
    BY <1>1, TypeParts DEF Typed
<1>3. TypeOK'
    BY <1>2 DEF TypeOK, ItemAt, FetchAt, Entry, Remarks
<1>4. TimesKept'
    BY <1>1 DEF Typed, TimesKept
<1> QED
    BY <1>3, <1>4

\* What a fetch is when there is none.
LEMMA NoFetchShape ==
    ASSUME NEW t \in Nat
    PROVE  /\ NoFetch \in FetchAt(t)
           /\ NoFetch.pc = "idle" /\ NoFetch.listed = <<>> /\ Len(NoFetch.listed) = 0 /\ NoFetch.out = {}
BY PageAssumption DEF NoFetch, FetchAt

\* A page more, as the fetch and its list see it.
LEMMA ListedMore ==
    ASSUME TypeOK, NEW page \in Seq(Entry), fetch'.listed = fetch.listed \o page
    PROVE  /\ fetch'.listed \in Seq(Entry)
           /\ Len(fetch'.listed) = Len(fetch.listed) + Len(page)
           /\ \A k \in 1..Len(fetch.listed) : fetch'.listed[k] = fetch.listed[k]
           /\ \A k \in 1..Len(page) :
                Len(fetch.listed) + k \in 1..Len(fetch'.listed) /\ fetch'.listed[Len(fetch.listed) + k] = page[k]
<1>1. PICK s \in Seq(Entry) : s = fetch.listed
    BY FetchType
<1>2. /\ s \o page \in Seq(Entry)
      /\ Len(s \o page) = Len(s) + Len(page)
      /\ \A k \in 1..Len(s) : (s \o page)[k] = s[k]
      /\ \A k \in 1..Len(page) : Len(s) + k \in 1..Len(s \o page) /\ (s \o page)[Len(s) + k] = page[k]
    OBVIOUS
<1> QED
    BY <1>1, <1>2

\* A page more of the list.
LEMMA ListMoreTyped ==
    ASSUME Typed, FetchStep, UNCHANGED <<since, emitted, torn>>, fetch.pc = "list",
           fetch' \in FetchAt(clock), fetch'.listed = fetch.listed \o Page(fetch.page),
           fetch'.start = fetch.start, fetch'.pc \in {"list", "item"}
    PROVE  Typed'
<1>0. TypeOK /\ TimesKept /\ FetchShape /\ EntriesKept
    BY DEF Typed
<1>1. UNCHANGED <<clock, item, since, born>>
    BY DEF FetchStep, upstreamVars
<1>2. TypeOK' /\ TimesKept'
    BY FetchStepTyped DEF Typed, TypeOK
<1>3. FetchShape'
    BY <1>0, <1>1 DEF FetchShape
<1>4. fetch.page \in Nat \ {0}
    BY <1>0, FetchType, PageAssumption
<1>5. PICK page \in Seq(Entry) : page = Page(fetch.page)
    BY <1>0, <1>4, PageFacts
<1>6. PICK len \in Nat : len = Len(fetch.listed)
    BY <1>0, FetchType
<1>7. \A k \in 1..Len(fetch'.listed) :
        \/ k \in 1..len /\ fetch'.listed[k] = fetch.listed[k]
        \/ \E j \in 1..Len(page) : fetch'.listed[k] = page[j]
  <2>0. fetch'.listed = fetch.listed \o page /\ Len(page) \in Nat
      BY <1>5
  <2>1. /\ Len(fetch'.listed) = len + Len(page)
        /\ \A k \in 1..len : fetch'.listed[k] = fetch.listed[k]
        /\ \A k \in 1..Len(page) : fetch'.listed[len + k] = page[k]
      BY <1>0, <1>6, <2>0, ListedMore
  <2>2. ASSUME NEW k \in 1..Len(fetch'.listed), k \notin 1..len
        PROVE  \E j \in 1..Len(page) : fetch'.listed[k] = page[j]
    <3>1. k - len \in 1..Len(page) /\ len + (k - len) = k
        BY <1>6, <2>0, <2>1, <2>2
    <3>2. fetch'.listed[len + (k - len)] = page[k - len]
        BY <2>1, <3>1
    <3> QED
        BY <3>1, <3>2
  <2> QED
      BY <2>1, <2>2
<1>8. EntriesKept'
  <2>1. SUFFICES ASSUME NEW k \in 1..Len(fetch'.listed)
                 PROVE  LET entry == fetch'.listed[k]
                            now == item[entry.number]
                        IN  /\ since <= entry.updated
                            /\ entry.count <= Len(now.comments)
                            /\ now.updated < fetch.start =>
                                 /\ entry.updated = now.updated /\ entry.label = now.label
                                 /\ entry.count = Len(now.comments)
      BY <1>1 DEF EntriesKept
  <2>2. CASE k \in 1..len /\ fetch'.listed[k] = fetch.listed[k]
      BY <1>0, <1>6, <2>2 DEF EntriesKept
  <2>3. ASSUME NEW j \in 1..Len(page), fetch'.listed[k] = page[j]
        PROVE  LET entry == fetch'.listed[k]
                   now == item[entry.number]
               IN  /\ since <= entry.updated
                   /\ entry.updated = now.updated /\ entry.label = now.label
                   /\ entry.count = Len(now.comments) /\ entry.count <= Len(now.comments)
    <3>1. PICK n \in Matching : /\ page[j].number = n /\ page[j].updated = item[n].updated
                                /\ page[j].label = item[n].label
                                /\ page[j].count = Len(item[n].comments)
        BY <1>0, <1>4, <1>5, PageFacts
    <3>2. since <= item[n].updated /\ Len(item[n].comments) \in Nat
        BY <1>0, CommentsType DEF Matching
    <3> QED
        BY <2>3, <3>1, <3>2
  <2> QED
      BY <1>7, <2>2, <2>3
<1> QED
    BY <1>2, <1>3, <1>8 DEF Typed

\* On to the next item.
LEMMA NextItemTyped ==
    ASSUME Typed, FetchStep, UNCHANGED <<since, emitted, torn>>, fetch.pc # "idle",
           fetch.listed # <<>>, NEW events \in SUBSET Events, NextItem(events)
    PROVE  Typed'
<1>0. TypeOK /\ TimesKept /\ FetchShape /\ EntriesKept
    BY DEF Typed
<1>1. UNCHANGED <<clock, item, since, born>>
    BY DEF FetchStep, upstreamVars
<1>2. /\ fetch' \in FetchAt(clock) /\ fetch'.pc = "item" /\ fetch'.start = fetch.start
      /\ fetch'.listed = Tail(fetch.listed)
    BY <1>0, NextItemShape
<1>3. TypeOK' /\ TimesKept'
    BY <1>2, FetchStepTyped DEF Typed, TypeOK
<1>4. FetchShape'
    BY <1>0, <1>1, <1>2 DEF FetchShape
<1>5. EntriesKept'
  <2>1. SUFFICES ASSUME NEW k \in 1..Len(Tail(fetch.listed))
                 PROVE  LET entry == Tail(fetch.listed)[k]
                            now == item[entry.number]
                        IN  /\ since <= entry.updated
                            /\ entry.count <= Len(now.comments)
                            /\ now.updated < fetch.start =>
                                 /\ entry.updated = now.updated /\ entry.label = now.label
                                 /\ entry.count = Len(now.comments)
      BY <1>1, <1>2 DEF EntriesKept
  <2>2. k + 1 \in 1..Len(fetch.listed) /\ Tail(fetch.listed)[k] = fetch.listed[k + 1]
      BY <1>0, ListedType
  <2> QED
      BY <1>0, <2>2 DEF EntriesKept
<1> QED
    BY <1>3, <1>4, <1>5 DEF Typed

\* The end of a fetch, however it comes.
LEMMA EndTyped ==
    ASSUME Typed, FetchStep, fetch' = NoFetch, since' \in born..clock,
           emitted' \in SUBSET Events, torn' \in BOOLEAN
    PROVE  Typed'
<1>1. clock \in Nat
    BY DEF Typed, TypeOK
<1>2. /\ NoFetch \in FetchAt(clock) /\ NoFetch.pc = "idle" /\ Len(NoFetch.listed) = 0
    BY <1>1, NoFetchShape
<1>3. TypeOK' /\ TimesKept'
    BY <1>2, FetchStepTyped
<1>4. FetchShape' /\ EntriesKept'
    BY <1>2 DEF FetchShape, EntriesKept
<1> QED
    BY <1>3, <1>4 DEF Typed

\* So does every step.
LEMMA StepTyped == ASSUME Typed, [Next]_vars PROVE Typed'
<1>0. TypeOK /\ TimesKept /\ FetchShape /\ EntriesKept
    BY DEF Typed
<1>1. /\ clock \in Nat /\ item \in [Number -> ItemAt(clock)] /\ fetch \in FetchAt(clock)
      /\ since \in born..clock /\ born \in 1..clock
      /\ emitted \in SUBSET Events /\ torn \in BOOLEAN
    BY <1>0, TypeParts
<1>2. CASE UNCHANGED vars
    BY <1>2 DEF vars, upstreamVars, Typed, TypeOK, TimesKept, FetchShape, EntriesKept, Listed
<1>3. CASE Tick
  <2>1. /\ clock' = clock + 1 /\ UNCHANGED <<item, prompted, changes, since, fetch, emitted, born, torn, restarts>>
      BY <1>3 DEF Tick, upstreamVars
  <2>2. ItemAt(clock) \subseteq ItemAt(clock + 1) /\ FetchAt(clock) \subseteq FetchAt(clock + 1)
    <3>1. 0..clock \subseteq 0..(clock + 1)
        BY <1>1
    <3> QED
        BY <3>1 DEF ItemAt, FetchAt
  <2>3. clock' \in Nat /\ since' \in born'..clock' /\ born' \in 1..clock'
      BY <1>1, <2>1
  <2>4. item' \in [Number -> ItemAt(clock')] /\ fetch' \in FetchAt(clock')
      BY <1>1, <2>1, <2>2
  <2>5. TypeOK'
      BY <1>0, <2>1, <2>3, <2>4 DEF TypeOK, ItemAt, FetchAt, Entry, Remarks
  <2>6. TimesKept' /\ FetchShape' /\ EntriesKept'
      BY <1>0, <2>1 DEF TimesKept, FetchShape, EntriesKept, Listed
  <2> QED
      BY <2>5, <2>6 DEF Typed
<1>4. CASE Restart
  <2>1. /\ since' = clock /\ born' = clock /\ fetch' = NoFetch /\ torn' = FALSE /\ restarts' = restarts + 1
        /\ UNCHANGED <<clock, item, prompted, changes, emitted>>
      BY <1>4 DEF Restart, upstreamVars
  <2>2. clock \in 1..clock /\ clock \in clock..clock
      BY <1>1
  <2>3. NoFetch \in FetchAt(clock) /\ NoFetch.pc = "idle" /\ Len(NoFetch.listed) = 0
      BY <1>1, NoFetchShape
  <2>4. restarts' \in Nat
      BY <1>0, <2>1, TypeParts
  <2>5. TypeOK'
      BY <1>0, <1>1, <2>1, <2>2, <2>3, <2>4 DEF TypeOK, ItemAt, FetchAt, Entry, Remarks
  <2>6. TimesKept' /\ FetchShape' /\ EntriesKept'
      BY <1>0, <2>1, <2>3 DEF TimesKept, FetchShape, EntriesKept, Listed
  <2> QED
      BY <2>5, <2>6 DEF Typed
<1>5. ASSUME NEW n \in Changing, Upstream(n) PROVE Typed'
    BY <1>0, <1>5, NumberAssumption, UpstreamMoves, MovesTyped
<1>6. CASE StartFetch
  <2>1. /\ fetch' = [NoFetch EXCEPT !.pc = "list", !.start = clock]
        /\ UNCHANGED <<since, emitted, torn>> /\ FetchStep
      BY <1>6 DEF StartFetch
  <2>2. clock \in 0..clock /\ since <= clock
      BY <1>1
  <2>3. fetch' \in FetchAt(clock) /\ fetch'.pc = "list" /\ fetch'.start = clock /\ Len(fetch'.listed) = 0
      BY <1>1, <2>1, <2>2, NoFetchShape DEF FetchAt
  <2>4. TypeOK' /\ TimesKept'
      BY <1>1, <2>1, <2>3, FetchStepTyped
  <2>5. FetchShape' /\ EntriesKept'
      BY <2>1, <2>2, <2>3 DEF FetchShape, EntriesKept
  <2> QED
      BY <2>4, <2>5 DEF Typed
<1>7. CASE ListPage \/ ListLastPage
  <2>1. FetchStep /\ UNCHANGED <<since, emitted, torn>> /\ fetch.pc = "list"
      BY <1>7 DEF ListPage, ListLastPage
  <2>2. PICK page \in Seq(Entry) : page = Page(fetch.page)
    <3>1. fetch.page \in Nat \ {0}
        BY <1>0, FetchType, PageAssumption
    <3> QED
        BY <1>0, <3>1, PageFacts
  <2>3. PICK listed \in Seq(Entry) : listed = fetch.listed \o page
    <3>1. PICK s \in Seq(Entry) : s = fetch.listed
        BY <1>0, FetchType
    <3>2. s \o page \in Seq(Entry)
        OBVIOUS
    <3> QED
        BY <3>1, <3>2
  <2>4. \/ /\ fetch' = [fetch EXCEPT !.listed = listed, !.page = fetch.page + 1]
           /\ fetch.page + 1 \in 1..MaxPages
        \/ fetch' = [fetch EXCEPT !.listed = listed, !.pc = "item"]
    <3>1. fetch.page \in 1..MaxPages
        BY <1>0, FetchType
    <3> QED
        BY <1>7, <2>2, <2>3, <3>1, PageAssumption DEF ListPage, ListLastPage, FetchAt
  <2>5. /\ fetch' \in FetchAt(clock) /\ fetch'.listed = listed
        /\ fetch'.start = fetch.start /\ fetch'.pc \in {"list", "item"}
      BY <1>1, <2>1, <2>3, <2>4 DEF FetchAt
  <2> QED
      BY <2>1, <2>2, <2>3, <2>5, ListMoreTyped
<1>8. CASE ListTooLong \/ Fail
    BY <1>1, <1>8, EndTyped DEF ListTooLong, Fail
<1>9. CASE Finish
  <2>1. /\ fetch.pc = "item" /\ since' = fetch.start /\ fetch' = NoFetch /\ FetchStep
        /\ emitted' = emitted \cup fetch.out /\ torn' = (torn \/ fetch.torn)
      BY <1>9 DEF Finish
  <2>2. fetch.start \in 0..clock /\ since <= fetch.start /\ fetch.out \in SUBSET Events /\ fetch.torn \in BOOLEAN
      BY <1>0, <2>1, FetchType DEF FetchShape
  <2>3. since' \in born..clock
      BY <1>1, <2>1, <2>2
  <2>4. emitted' \in SUBSET Events /\ torn' \in BOOLEAN
      BY <1>1, <2>1, <2>2
  <2> QED
      BY <2>1, <2>3, <2>4, EndTyped
<1>10. ASSUME NEW n \in Number, Skip(n) PROVE Typed'
  <2>1. /\ fetch.pc = "item" /\ fetch.listed # <<>> /\ NextItem({}) /\ FetchStep
        /\ UNCHANGED <<since, emitted, torn>>
      BY <1>10 DEF Skip, AtItem
  <2> QED
      BY <2>1, NextItemTyped
<1>11. ASSUME NEW n \in Number, ReadIssue(n) PROVE Typed'
  <2>1. /\ fetch.pc = "item" /\ fetch.listed # <<>> /\ Listed.number = n /\ NextItem(IssueEvents(n)) /\ FetchStep
        /\ UNCHANGED <<since, emitted, torn>>
      BY <1>11 DEF ReadIssue, AtItem, IssueEvents
  <2>2. IssueEvents(n) \in SUBSET Events
      BY <1>0, <2>1, IssueEventsType
  <2> QED
      BY <2>1, <2>2, NextItemTyped
<1>12. ASSUME NEW n \in Number, ReadPull(n) PROVE Typed'
  <2>1. /\ fetch.pc = "item" /\ fetch.listed # <<>> /\ Listed.number = n /\ n \in Wanted \cap PullRequest
        /\ fetch' = [fetch EXCEPT !.pc = "comments", !.out = @ \cup {Event("push", n, item[n].head, FALSE)}]
        /\ FetchStep /\ UNCHANGED <<since, emitted, torn>>
      BY <1>12 DEF ReadPull, AtItem
  <2>2. Event("push", n, item[n].head, FALSE) \in Events
      BY <1>1 DEF Event, Events, ItemAt
  <2>3. PICK out \in SUBSET Events : out = fetch.out \cup {Event("push", n, item[n].head, FALSE)}
      BY <1>0, <2>2, FetchType
  <2>4. fetch' = [fetch EXCEPT !.pc = "comments", !.out = out]
      BY <1>1, <2>1, <2>3 DEF FetchAt
  <2>5. /\ fetch' \in FetchAt(clock) /\ fetch'.pc = "comments" /\ fetch'.start = fetch.start
        /\ fetch'.listed = fetch.listed
      BY <1>1, <2>4 DEF FetchAt
  <2>6. TypeOK' /\ TimesKept'
      BY <1>1, <2>1, <2>5, FetchStepTyped
  <2>7. item' = item /\ since' = since
      BY <2>1 DEF FetchStep, upstreamVars
  <2>8. FetchShape' /\ EntriesKept'
      BY <1>0, <2>1, <2>5, <2>7 DEF FetchShape, EntriesKept, Listed
  <2> QED
      BY <2>6, <2>8 DEF Typed
<1>13. ASSUME NEW n \in Number, ReadVerdict(n) PROVE Typed'
  <2>1. /\ fetch.pc = "comments" /\ fetch.listed # <<>> /\ Listed.number = n /\ NextItem(VerdictEvents(n))
        /\ FetchStep /\ UNCHANGED <<since, emitted, torn>>
      BY <1>13 DEF ReadVerdict, AtItem, VerdictEvents
  <2>2. VerdictEvents(n) \in SUBSET Events
      BY <1>0, <2>1, VerdictEventsType
  <2> QED
      BY <2>1, <2>2, NextItemTyped
<1> QED
    BY <1>2, <1>3, <1>4, <1>5, <1>6, <1>7, <1>8, <1>9, <1>10, <1>11, <1>12, <1>13 DEF Next, ReadItem

\* Every reachable state has the types it is declared with, whatever the changes of the
\* repository, the failures of the upstream and the restarts.
THEOREM TypeCorrect == Spec => []TypeOK
<1>1. Init => Typed
    BY InitTyped
<1>2. Typed /\ [Next]_vars => Typed'
    BY StepTyped
<1>3. Typed => TypeOK
    BY DEF Typed
<1> QED
    BY <1>1, <1>2, <1>3, PTL DEF Spec

-----------------------------------------------------------------------------
(* Nothing is missed.                                                       *)

\* The agent has not spoken last.
Quiet(n) == item[n].comments = <<>> \/ item[n].comments[Len(item[n].comments)].mark # "bot"

\* E has what the handlers are to be told of the item as it is now.
VerdictTold(n, E) ==
    \A i \in OwnerVerdicts(n) :
        Newest(n, i) /\ (\A j \in OwnerVerdicts(n) : j <= i) => Event("review", n, i, FALSE) \in E

PullTold(n, E) ==
    /\ Event("push", n, item[n].head, FALSE) \in E
    /\ VerdictTold(n, E)

IssueTold(n, E) ==
    /\ \E a \in BOOLEAN : Event("issue", n, item[n].updated, a) \in E
    /\ item[n].label /\ Approved(n) => Event("issue", n, item[n].updated, TRUE) \in E

Told(n, E) ==
    /\ n \in Wanted \cap PullRequest => PullTold(n, E)
    /\ n \in Wanted \ PullRequest /\ Quiet(n) => IssueTold(n, E)

\* What this fetch is to read: changed since the watermark, and not since it started.
Due(n) == item[n].open /\ since <= item[n].updated /\ item[n].updated < fetch.start

OnList(n) == \E k \in 1..Len(fetch.listed) : fetch.listed[k].number = n

\* An item that is due has been listed or is behind the pages read so far.
ListKept ==
    fetch.pc = "list" /\ ~fetch.torn =>
        \A n \in Number : Due(n) => OnList(n) \/ (fetch.page - 1) * IssuesPerPage <= Rank(n)

\* Once the list is complete, it is on the list or was read.
ReadKept ==
    fetch.pc \in {"item", "comments"} /\ ~fetch.torn =>
        \A n \in Number : Due(n) => OnList(n) \/ Told(n, fetch.out)

\* The head was read before the comments.
HeadKept ==
    fetch.pc = "comments" /\ item[Listed.number].updated < fetch.start =>
        Event("push", Listed.number, item[Listed.number].head, FALSE) \in fetch.out

PassedKept == ~torn => \A n \in Number : Passed(n) => Told(n, emitted)

Swept == Typed /\ ListKept /\ ReadKept /\ HeadKept /\ PassedKept

\* More events tell no less.
LEMMA ToldGrows ==
    ASSUME NEW n, NEW E, NEW F, E \subseteq F, Told(n, E)
    PROVE  Told(n, F)
<1>1. VerdictTold(n, E) => VerdictTold(n, F)
    BY DEF VerdictTold
<1>2. PullTold(n, E) => PullTold(n, F)
    BY <1>1 DEF PullTold
<1>3. IssueTold(n, E) => IssueTold(n, F)
    BY DEF IssueTold
<1> QED
    BY <1>2, <1>3 DEF Told

\* They go on telling of an item that does not change.
LEMMA ToldStays ==
    ASSUME NEW n, NEW E, Told(n, E), item'[n] = item[n]
    PROVE  Told(n, E)'
<1>1. OwnerVerdicts(n)' = OwnerVerdicts(n) /\ (Approved(n)' <=> Approved(n))
      /\ (Quiet(n)' <=> Quiet(n)) /\ \A i : Newest(n, i)' <=> Newest(n, i)
    BY DEF OwnerVerdicts, Approved, Quiet, Newest
<1>2. VerdictTold(n, E)' <=> VerdictTold(n, E)
    BY <1>1 DEF VerdictTold
<1>3. PullTold(n, E)' <=> PullTold(n, E)
    BY <1>1, <1>2 DEF PullTold
<1>4. IssueTold(n, E)' <=> IssueTold(n, E)
    BY <1>1 DEF IssueTold
<1> QED
    BY <1>1, <1>3, <1>4 DEF Told

\* Ranks are numbers, before a step and after it.
LEMMA RankType ==
    ASSUME NEW n
    PROVE  Rank(n) \in Nat /\ Rank(n)' \in Nat
<1>1. ASSUME NEW S \in SUBSET Number PROVE Cardinality(S) \in Nat
    BY NumberAssumption, FS_Subset, FS_CardinalityType
<1>2. PICK A \in SUBSET Number : A = {x \in Matching : Before(x, n)}
    BY DEF Matching
<1>3. PICK B \in SUBSET Number : B = {x \in Matching' : Before(x, n)'}
    BY DEF Matching
<1> QED
    BY <1>1, <1>2, <1>3 DEF Rank

\* A change of another item, unless it leaves the list, pushes an older one back.
LEMMA RankGrows ==
    ASSUME TypeOK, NEW m \in Number, NEW n \in Number, m # n, Moves(m),
           item[m].open => item'[m].open, item[n].updated < clock
    PROVE  Rank(n) <= Rank(n)'
<1> DEFINE A == {x \in Matching : Before(x, n)}
           B == {x \in Matching' : Before(x, n)'}
<1>1. /\ item'[n] = item[n] /\ item'[m].updated = clock /\ since' = since
      /\ \A x \in Number \ {m} : item'[x] = item[x]
    BY DEF Moves
<1>2. clock \in Nat /\ since <= clock /\ item[n].updated \in Nat
    BY DEF TypeOK
<1>3. A \subseteq B
  <2>1. SUFFICES ASSUME NEW x \in A PROVE x \in B
      OBVIOUS
  <2>2. x \in Number /\ item[x].open /\ item[x].updated >= since /\ Before(x, n)
      BY DEF Matching
  <2>3. CASE x # m
    <3>1. item'[x] = item[x]
        BY <1>1, <2>2, <2>3
    <3>2. Before(x, n)'
        BY <1>1, <2>2, <3>1 DEF Before
    <3>3. x \in Matching'
        BY <1>1, <2>2, <3>1 DEF Matching
    <3> QED
        BY <3>2, <3>3
  <2>4. CASE x = m
    <3>1. Before(x, n)'
        BY <1>1, <1>2, <2>4 DEF Before
    <3>2. x \in Matching'
        BY <1>1, <1>2, <2>2, <2>4 DEF Matching
    <3> QED
        BY <3>1, <3>2
  <2> QED
      BY <2>3, <2>4
<1>4. IsFiniteSet(B)
  <2>1. B \in SUBSET Number
      BY DEF Matching
  <2> HIDE DEF B
  <2> QED
      BY <2>1, NumberAssumption, FS_Subset
<1>5. Rank(n) = Cardinality(A) /\ Rank(n)' = Cardinality(B)
    BY DEF Rank
<1> HIDE DEF A, B
<1> QED
    BY <1>3, <1>4, <1>5, FS_Subset

\* What a change of the repository leaves of the fetch.
LEMMA MovesFetch ==
    ASSUME TypeOK, NEW n \in Number, Moves(n)
    PROVE  /\ fetch'.pc = fetch.pc /\ fetch'.start = fetch.start /\ fetch'.page = fetch.page
           /\ fetch'.listed = fetch.listed /\ fetch'.out = fetch.out
           /\ fetch'.torn \in BOOLEAN /\ (fetch.torn => fetch'.torn)
           /\ \/ item[n].open => item'[n].open
              \/ fetch.pc = "list" /\ fetch.page > 1 => fetch'.torn
<1>1. fetch \in FetchAt(clock)
    BY TypeParts
<1>2. CASE fetch' = fetch /\ (item[n].open => item'[n].open)
    BY <1>1, <1>2 DEF FetchAt
<1>3. CASE fetch' = [fetch EXCEPT !.torn = @ \/ (fetch.pc = "list" /\ fetch.page > 1)]
  <2>1. PICK t \in BOOLEAN : t = (fetch.torn \/ (fetch.pc = "list" /\ fetch.page > 1))
      BY <1>1 DEF FetchAt
  <2>2. fetch' = [fetch EXCEPT !.torn = t]
      BY <1>1, <1>3, <2>1 DEF FetchAt
  <2> QED
      BY <1>1, <2>1, <2>2 DEF FetchAt
<1> QED
    BY <1>2, <1>3 DEF Moves

\* Whatever changes while an item waits, it is not passed over.
LEMMA MovesSwept ==
    ASSUME Swept, NEW n \in Number, Moves(n)
    PROVE  Swept'
<1>0. Typed /\ TypeOK /\ ListKept /\ ReadKept /\ HeadKept /\ PassedKept
    BY DEF Swept, Typed
<1>1. /\ clock' = clock /\ since' = since /\ emitted' = emitted /\ born' = born /\ torn' = torn
      /\ item'[n].updated = clock
      /\ \A m \in Number \ {n} : item'[m] = item[m]
    BY DEF Moves
<1>2. /\ fetch'.pc = fetch.pc /\ fetch'.start = fetch.start /\ fetch'.page = fetch.page
      /\ fetch'.listed = fetch.listed /\ fetch'.out = fetch.out
      /\ fetch'.torn \in BOOLEAN /\ (fetch.torn => fetch'.torn)
      /\ \/ item[n].open => item'[n].open
         \/ fetch.pc = "list" /\ fetch.page > 1 => fetch'.torn
    BY <1>0, MovesFetch
<1>3. /\ clock \in Nat /\ fetch.start \in 0..clock /\ fetch.page \in 1..MaxPages
      /\ since \in Nat /\ since <= clock
  <2>1. clock \in Nat /\ since \in Nat /\ since <= clock
      BY <1>0 DEF TypeOK
  <2> QED
      BY <1>0, <2>1, FetchType
<1>4. ASSUME NEW m \in Number, Due(m)'
      PROVE  m # n /\ item'[m] = item[m] /\ Due(m) /\ (OnList(m)' <=> OnList(m))
  <2>1. m # n
      BY <1>1, <1>2, <1>3, <1>4 DEF Due
  <2> QED
      BY <1>1, <1>2, <1>4, <2>1 DEF Due, OnList
<1>5. Typed'
    BY <1>0, MovesTyped
<1>6. ListKept'
  <2>1. SUFFICES ASSUME fetch.pc = "list", ~fetch'.torn, NEW m \in Number, Due(m)'
                 PROVE  OnList(m)' \/ (fetch.page - 1) * IssuesPerPage <= Rank(m)'
      BY <1>2 DEF ListKept
  <2>2. m # n /\ Due(m) /\ (OnList(m)' <=> OnList(m))
      BY <1>4, <2>1
  <2>3. OnList(m) \/ (fetch.page - 1) * IssuesPerPage <= Rank(m)
      BY <1>0, <1>2, <2>1, <2>2 DEF ListKept
  <2>4. PICK from \in Nat : from = (fetch.page - 1) * IssuesPerPage /\ (fetch.page = 1 => from = 0)
      BY <1>3, PageAssumption, PageBounds
  <2>5. m \in Matching /\ m \in Matching'
      BY <1>1, <1>4, <2>1 DEF Due, Matching
  <2>6. Rank(m) \in Nat /\ Rank(m)' \in Nat
      BY RankType
  <2>7. CASE item[n].open => item'[n].open
    <3>1. item[m].updated < clock
        BY <1>0, <1>3, <2>2 DEF Due, TypeOK
    <3>2. Rank(m) <= Rank(m)'
        BY <1>0, <2>2, <2>7, <3>1, RankGrows
    <3> QED
        BY <2>2, <2>3, <2>4, <2>6, <3>2
  <2>8. CASE fetch.pc = "list" /\ fetch.page > 1 => fetch'.torn
    <3>1. fetch.page = 1
        BY <1>3, <2>1, <2>8
    <3> QED
        BY <2>4, <2>6, <3>1
  <2> QED
      BY <1>2, <2>7, <2>8
<1>7. ReadKept'
  <2>1. SUFFICES ASSUME fetch.pc \in {"item", "comments"}, ~fetch'.torn, NEW m \in Number, Due(m)'
                 PROVE  OnList(m)' \/ Told(m, fetch.out)'
      BY <1>2 DEF ReadKept
  <2>2. m # n /\ item'[m] = item[m] /\ Due(m) /\ (OnList(m)' <=> OnList(m))
      BY <1>4, <2>1
  <2>3. OnList(m) \/ Told(m, fetch.out)
      BY <1>0, <1>2, <2>1, <2>2 DEF ReadKept
  <2>4. PICK out : out = fetch.out /\ out = fetch'.out
      BY <1>2
  <2>5. Told(m, out) => Told(m, out)'
      BY <2>2, ToldStays
  <2> QED
      BY <2>2, <2>3, <2>4, <2>5
<1>8. HeadKept'
  <2>1. SUFFICES ASSUME fetch.pc = "comments", item'[Listed.number].updated < fetch.start
                 PROVE  Event("push", Listed.number, item'[Listed.number].head, FALSE) \in fetch.out
      BY <1>2 DEF HeadKept, Listed
  <2>2. fetch.listed # <<>> /\ Listed.number \in Number
      BY <1>0, <2>1, ListedType DEF Typed, FetchShape
  <2>3. Listed.number # n
      BY <1>1, <1>3, <2>1
  <2>4. item'[Listed.number] = item[Listed.number]
      BY <1>1, <2>2, <2>3
  <2> QED
      BY <1>0, <2>1, <2>4 DEF HeadKept
<1>9. PassedKept'
  <2>1. SUFFICES ASSUME ~torn, NEW m \in Number, Passed(m)'
                 PROVE  Told(m, emitted)'
      BY <1>1 DEF PassedKept
  <2>2. m # n
      BY <1>1, <1>3, <2>1 DEF Passed
  <2>3. item'[m] = item[m] /\ Passed(m)
      BY <1>1, <2>1, <2>2 DEF Passed
  <2>4. Told(m, emitted)
      BY <1>0, <2>1, <2>3 DEF PassedKept
  <2>5. PICK out : out = emitted /\ out = emitted'
      BY <1>1
  <2> QED
      BY <2>3, <2>4, <2>5, ToldStays
<1> QED
    BY <1>5, <1>6, <1>7, <1>8, <1>9 DEF Swept

\* What has passed stays told while neither the repository nor the watermark moves.
LEMMA PassedStays ==
    ASSUME PassedKept, item' = item, since' = since, born' = born, emitted' = emitted, torn' = torn
    PROVE  PassedKept'
<1>1. SUFFICES ASSUME ~torn, NEW n \in Number, Passed(n)' PROVE Told(n, emitted)'
    BY DEF PassedKept
<1>2. Passed(n)
    BY <1>1 DEF Passed
<1>3. Told(n, emitted)
    BY <1>1, <1>2 DEF PassedKept
<1>4. PICK out : out = emitted /\ out = emitted'
    OBVIOUS
<1>5. item'[n] = item[n]
    OBVIOUS
<1> QED
    BY <1>3, <1>4, <1>5, ToldStays

\* A page of the list leaves nothing out.
LEMMA ListSwept ==
    ASSUME Swept, ListPage \/ ListLastPage, Typed'
    PROVE  Swept'
<1>0. TypeOK /\ ListKept /\ PassedKept
    BY DEF Swept, Typed
<1>1. /\ UNCHANGED <<clock, item, since, born, emitted, torn>> /\ fetch.pc = "list"
    BY DEF ListPage, ListLastPage, FetchStep, upstreamVars
<1>2. PICK k \in Nat \ {0} : k = fetch.page /\ k \in 1..MaxPages
    BY <1>0, FetchType, PageAssumption
<1>3. PICK page \in Seq(Entry) : page = Page(fetch.page)
    BY <1>0, <1>2, PageFacts
<1>4. /\ fetch'.listed = fetch.listed \o page /\ fetch'.start = fetch.start
      /\ fetch'.torn = fetch.torn /\ fetch'.out = fetch.out
      /\ \/ fetch'.pc = "list" /\ fetch'.page = k + 1
         \/ fetch'.pc = "item" /\ ~HasNext(k)
  <2>1. fetch \in FetchAt(clock)
      BY <1>0, TypeParts
  <2> QED
      BY <1>2, <1>3, <2>1 DEF ListPage, ListLastPage, FetchAt
<1>5. /\ \A i \in 1..Len(fetch.listed) : i \in 1..Len(fetch'.listed) /\ fetch'.listed[i] = fetch.listed[i]
      /\ \A i \in 1..Len(page) :
            Len(fetch.listed) + i \in 1..Len(fetch'.listed) /\ fetch'.listed[Len(fetch.listed) + i] = page[i]
  <2>1. Len(fetch.listed) \in Nat /\ Len(page) \in Nat
      BY <1>0, FetchType
  <2>2. /\ Len(fetch'.listed) = Len(fetch.listed) + Len(page)
        /\ \A i \in 1..Len(fetch.listed) : fetch'.listed[i] = fetch.listed[i]
        /\ \A i \in 1..Len(page) :
            Len(fetch.listed) + i \in 1..Len(fetch'.listed) /\ fetch'.listed[Len(fetch.listed) + i] = page[i]
      BY <1>0, <1>4, ListedMore
  <2> QED
      BY <2>1, <2>2
<1>6. PICK from \in Nat : from = (k - 1) * IssuesPerPage
    BY PageBounds
<1>7. PICK to \in Nat : to = k * IssuesPerPage /\ to = ((k + 1) - 1) * IssuesPerPage
    BY PageAssumption, PageBounds
<1>8. ASSUME ~fetch.torn, NEW n \in Number, Due(n)'
      PROVE  OnList(n)' \/ (to <= Rank(n) /\ n \in Matching)
  <2>1. Due(n) /\ n \in Matching
      BY <1>1, <1>4, <1>8 DEF Due, Matching
  <2>2. OnList(n) \/ from <= Rank(n)
      BY <1>0, <1>1, <1>2, <1>6, <1>8, <2>1 DEF ListKept
  <2>3. CASE OnList(n)
    <3>1. PICK i \in 1..Len(fetch.listed) : fetch.listed[i].number = n
        BY <2>3 DEF OnList
    <3>2. i \in 1..Len(fetch'.listed) /\ fetch'.listed[i].number = n
        BY <1>5, <3>1
    <3> QED
        BY <3>2 DEF OnList
  <2>4. CASE from <= Rank(n) /\ Rank(n) < to
    <3>1. PICK i \in 1..Len(page) : page[i].number = n
        BY <1>0, <1>2, <1>3, <1>6, <1>7, <2>1, <2>4, PageFacts
    <3>2. /\ Len(fetch.listed) + i \in 1..Len(fetch'.listed)
          /\ fetch'.listed[Len(fetch.listed) + i].number = n
        BY <1>5, <3>1
    <3> QED
        BY <3>2 DEF OnList
  <2>5. Rank(n) \in Nat
      BY RankType
  <2> QED
      BY <1>7, <2>1, <2>2, <2>3, <2>4, <2>5
<1>9. \A n \in Number : Rank(n)' = Rank(n)
    BY <1>1 DEF Rank, Matching, Before
<1>10. ListKept'
  <2>1. SUFFICES ASSUME fetch'.pc = "list", ~fetch.torn, NEW n \in Number, Due(n)'
                 PROVE  OnList(n)' \/ (fetch'.page - 1) * IssuesPerPage <= Rank(n)'
      BY <1>4 DEF ListKept
  <2>2. fetch'.page = k + 1
      BY <1>4, <2>1
  <2> QED
      BY <1>7, <1>8, <1>9, <2>1, <2>2
<1>11. ReadKept'
  <2>1. SUFFICES ASSUME fetch'.pc = "item", ~fetch.torn, NEW n \in Number, Due(n)'
                 PROVE  OnList(n)'
      BY <1>4 DEF ReadKept
  <2>2. Cardinality(Matching) <= to /\ Cardinality(Matching) \in Nat
      BY <1>0, <1>4, <1>7, <2>1, RankBounds DEF HasNext
  <2>3. ASSUME n \in Matching, to <= Rank(n) PROVE FALSE
    <3>1. Rank(n) \in 0..(Cardinality(Matching) - 1)
        BY <1>0, <2>3, RankBounds
    <3> QED
        BY <2>2, <2>3, <3>1
  <2> QED
      BY <1>8, <2>1, <2>3
<1>12. HeadKept'
    BY <1>4 DEF HeadKept
<1>13. PassedKept'
    BY <1>0, <1>1, PassedStays
<1> QED
    BY <1>10, <1>11, <1>12, <1>13 DEF Swept

\* The next item: what was read of this one is told.
LEMMA NextItemSwept ==
    ASSUME Swept, FetchStep, UNCHANGED <<since, emitted, torn>>, fetch.pc \in {"item", "comments"},
           fetch.listed # <<>>, NEW events \in SUBSET Events, NextItem(events), Typed',
           Due(Listed.number) => Told(Listed.number, fetch.out \cup events)
    PROVE  Swept'
<1>0. TypeOK /\ ReadKept /\ PassedKept
    BY DEF Swept, Typed
<1>1. UNCHANGED <<clock, item, since, born, emitted, torn>>
    BY DEF FetchStep, upstreamVars
<1>2. /\ fetch'.pc = "item" /\ fetch'.start = fetch.start /\ fetch'.torn = fetch.torn
      /\ fetch'.listed = Tail(fetch.listed) /\ fetch'.out = fetch.out \cup events
    BY <1>0, NextItemShape
<1>3. ListKept' /\ HeadKept'
    BY <1>2 DEF ListKept, HeadKept
<1>4. ReadKept'
  <2>1. SUFFICES ASSUME ~fetch.torn, NEW n \in Number, Due(n)'
                 PROVE  OnList(n)' \/ Told(n, fetch.out)'
      BY <1>2 DEF ReadKept
  <2>2. Due(n)
      BY <1>1, <1>2, <2>1 DEF Due
  <2>3. PICK out : out = fetch.out \cup events /\ out = fetch'.out
      BY <1>2
  <2>4. OnList(n)' \/ Told(n, out)
    <3>1. CASE Listed.number = n
        BY <2>2, <2>3, <3>1
    <3>2. CASE OnList(n) /\ Listed.number # n
      <4>1. PICK k \in 1..Len(fetch.listed) : fetch.listed[k].number = n
          BY <3>2 DEF OnList
      <4>2. /\ Listed = fetch.listed[1] /\ Len(Tail(fetch.listed)) = Len(fetch.listed) - 1
            /\ \A j \in 1..Len(Tail(fetch.listed)) : Tail(fetch.listed)[j] = fetch.listed[j + 1]
          BY <1>0, ListedType
      <4>3. k # 1 /\ Len(fetch.listed) \in Nat
          BY <1>0, <3>2, <4>1, <4>2, FetchType
      <4>4. k - 1 \in 1..Len(Tail(fetch.listed)) /\ (k - 1) + 1 = k
          BY <4>1, <4>2, <4>3
      <4>5. Tail(fetch.listed)[k - 1].number = n
          BY <4>1, <4>2, <4>4
      <4> QED
          BY <1>2, <4>4, <4>5 DEF OnList
    <3>3. CASE Told(n, fetch.out)
      <4>1. PICK former : former = fetch.out
          OBVIOUS
      <4> QED
          BY <2>3, <3>3, <4>1, ToldGrows
    <3> QED
        BY <1>0, <2>1, <2>2, <3>1, <3>2, <3>3 DEF ReadKept
  <2>5. Told(n, out) => Told(n, out)'
      BY <1>1, ToldStays
  <2> QED
      BY <2>3, <2>4, <2>5
<1>5. PassedKept'
    BY <1>0, <1>1, PassedStays
<1> QED
    BY <1>3, <1>4, <1>5 DEF Swept

\* The entry at the head of the list shows an item that is due as it is.
LEMMA HeadEntry ==
    ASSUME TypeOK, EntriesKept, fetch.listed # <<>>, NEW n, Listed.number = n, Due(n)
    PROVE  /\ n \in Number /\ Listed.updated = item[n].updated /\ Listed.label = item[n].label
           /\ Listed.count = Len(item[n].comments)
<1>1. Listed = fetch.listed[1] /\ 1 \in 1..Len(fetch.listed) /\ Listed.number \in Number
    BY ListedType
<1> QED
    BY <1>1 DEF EntriesKept, Due

\* An issue that is due and was read is told, and as an authorized build if it is one.
LEMMA IssueIsTold ==
    ASSUME TypeOK, TimesKept, EntriesKept, fetch.listed # <<>>, NEW n \in Number \ PullRequest,
           Listed.number = n, Due(n), NEW E, IssueEvents(n) \subseteq E
    PROVE  Told(n, E)
<1>1. /\ Listed.updated = item[n].updated /\ Listed.label = item[n].label
      /\ Listed.count = Len(item[n].comments)
    BY HeadEntry
<1>2. PICK len \in Nat : len = Len(item[n].comments)
    BY CommentsType
<1>3. PICK page \in SUBSET (1..len) : page = LastPage(n, Listed.count)
    BY <1>1, <1>2, LastPageFacts
<1>4. /\ len = 0 => page = {}
      /\ len > 0 => len \in page /\ Max(page) = len
      /\ \A i \in 1..len : Newest(n, i) => i \in page
    BY <1>1, <1>2, <1>3, LastPageFacts
<1>5. SUFFICES ASSUME Quiet(n) PROVE IssueTold(n, E)
    BY DEF Told
<1>6. ~AgentSpokeLast(n, page)
  <2>1. CASE len = 0
      BY <1>4, <2>1 DEF AgentSpokeLast
  <2>2. CASE len > 0
    <3>1. item[n].comments # <<>>
        BY <1>2, <2>2
    <3> QED
        BY <1>2, <1>4, <1>5, <2>2, <3>1 DEF AgentSpokeLast, Quiet
  <2> QED
      BY <1>2, <2>1, <2>2
<1>7. Activity(n, Listed.updated, page) = item[n].updated
  <2>0. item[n].updated \in Nat
      BY DEF TypeOK
  <2>1. item[n].updated \in Nat /\ \A i \in page : item[n].comments[i].time \in Nat
      BY <1>2, <2>0, CommentsType
  <2>2. \A i \in page : item[n].comments[i].time <= item[n].updated
      BY <1>2 DEF TimesKept
  <2>3. PICK a \in Nat : a = Activity(n, item[n].updated, page)
      BY <1>2, <2>1, ActivityFacts
  <2>4. /\ item[n].updated <= a
        /\ a = item[n].updated \/ \E i \in page : a = item[n].comments[i].time
      BY <1>2, <2>1, <2>3, ActivityFacts
  <2>5. a = item[n].updated
      BY <2>1, <2>2, <2>3, <2>4
  <2> QED
      BY <1>1, <2>3, <2>5
<1>8. Event("issue", n, item[n].updated, Authorized(n, Listed.label, page)) \in E
    BY <1>3, <1>6, <1>7 DEF IssueEvents
<1>9. Authorized(n, Listed.label, page) \in BOOLEAN
  <2>1. Listed.label \in BOOLEAN
      BY ListedType
  <2> QED
      BY <2>1 DEF Authorized
<1>10. item[n].label /\ Approved(n) => Authorized(n, Listed.label, page) = TRUE
  <2>1. SUFFICES ASSUME item[n].label, Approved(n)
                 PROVE  Authorized(n, Listed.label, page)
      BY <1>9
  <2>2. CASE n \in OwnersIssues
      BY <1>1, <2>1, <2>2 DEF Authorized
  <2>3. CASE n \notin OwnersIssues
    <3>1. PICK i \in 1..len : Newest(n, i) /\ item[n].comments[i].owner /\ item[n].comments[i].mark = "approve"
        BY <1>2, <2>1, <2>3, CommentsType DEF Approved
    <3>2. i \in page
        BY <1>4, <3>1
    <3> QED
        BY <1>1, <2>1, <3>1, <3>2 DEF Authorized
  <2> QED
      BY <2>2, <2>3
<1> QED
    BY <1>8, <1>9, <1>10 DEF IssueTold

\* A pull request whose head and comments were read is told.
LEMMA PullIsTold ==
    ASSUME TypeOK, EntriesKept, fetch.listed # <<>>, NEW n \in PullRequest,
           Listed.number = n, Due(n), NEW E, VerdictEvents(n) \subseteq E,
           Event("push", n, item[n].head, FALSE) \in E
    PROVE  Told(n, E)
<1>1. n \in Number /\ Listed.count = Len(item[n].comments)
    BY HeadEntry
<1>2. PICK len \in Nat : len = Len(item[n].comments) /\ DOMAIN item[n].comments = 1..len
    BY <1>1, CommentsType
<1>3. PICK page \in SUBSET (1..len) : page = LastPage(n, Listed.count)
    BY <1>1, <1>2, LastPageFacts
<1>4. VerdictTold(n, E)
  <2>1. SUFFICES ASSUME NEW i \in OwnerVerdicts(n), Newest(n, i), \A j \in OwnerVerdicts(n) : j <= i
                 PROVE  Event("review", n, i, FALSE) \in E
      BY DEF VerdictTold
  <2>2. i \in page
      BY <1>1, <1>2, <1>3, <2>1, LastPageFacts DEF OwnerVerdicts
  <2> DEFINE verdicts == {j \in page : item[n].comments[j].owner /\ item[n].comments[j].mark = "verdict"}
  <2>3. i \in verdicts /\ verdicts \subseteq OwnerVerdicts(n)
      BY <1>2, <2>1, <2>2 DEF OwnerVerdicts
  <2>4. LatestOwnerVerdict(n, page) = IF verdicts = {} THEN {} ELSE {Max(verdicts)}
      BY DEF LatestOwnerVerdict
  <2>5. PICK m : m = Max(verdicts)
      OBVIOUS
  <2>6. m \in LatestOwnerVerdict(n, page)
      BY <2>1, <2>3, <2>4, <2>5
  <2>7. m \in verdicts /\ \A j \in verdicts : j <= m
      BY <1>1, <1>2, <2>6, LatestVerdictFacts
  <2>8. m = i
    <3>1. i \in verdicts /\ m <= i /\ i <= m
        BY <2>1, <2>3, <2>7
    <3>2. i \in 1..len /\ m \in 1..len
        BY <2>7, <3>1
    <3> QED
        BY <3>1, <3>2
  <2> QED
      BY <1>3, <2>6, <2>8 DEF VerdictEvents
<1> QED
    BY <1>4 DEF Told, PullTold

-----------------------------------------------------------------------------
(* The theorems.                                                            *)

\* Before the first fetch nothing is due.
LEMMA InitSwept == ASSUME Init PROVE Swept
<1>1. Typed
    BY InitTyped
<1>2. fetch = NoFetch /\ NoFetch.pc = "idle" /\ since = 1 /\ born = 1
    BY DEF Init, NoFetch
<1>3. \A n \in Number : item[n].updated \in Nat
    BY <1>1 DEF Typed, TypeOK
<1>4. \A n \in Number : ~Passed(n)
    BY <1>2, <1>3 DEF Passed
<1> QED
    BY <1>1, <1>2, <1>4 DEF Swept, ListKept, ReadKept, HeadKept, PassedKept

\* Every step keeps what is told and what is yet to be read.
LEMMA StepSwept == ASSUME Swept, [Next]_vars PROVE Swept'
<1>0. Typed /\ TypeOK /\ TimesKept /\ EntriesKept /\ FetchShape /\ ListKept /\ ReadKept /\ HeadKept /\ PassedKept
    BY DEF Swept, Typed
<1>1. Typed'
    BY <1>0, StepTyped
<1>2. /\ clock \in Nat /\ fetch \in FetchAt(clock) /\ since \in Nat
  <2>1. clock \in Nat /\ since \in Nat
      BY <1>0 DEF TypeOK
  <2> QED
      BY <1>0, <2>1, TypeParts
<1>3. CASE UNCHANGED <<item, since, fetch, emitted, born, torn>>
  <2>1. UNCHANGED <<item, since, fetch, emitted, born, torn>>
      BY <1>3
  <2>2. ASSUME NEW n \in Number, NEW E, Told(n, E) PROVE Told(n, E)'
      BY <2>1, <2>2, ToldStays
  <2>3. /\ \A n : (Due(n)' <=> Due(n)) /\ (OnList(n)' <=> OnList(n))
        /\ \A n : Rank(n)' = Rank(n)
      BY <2>1 DEF Due, OnList, Rank, Matching, Before
  <2>4. ListKept'
      BY <1>0, <2>1, <2>3 DEF ListKept
  <2>5. PICK out : out = fetch.out /\ out = fetch'.out
      BY <2>1
  <2>6. ReadKept'
    <3>1. SUFFICES ASSUME fetch.pc \in {"item", "comments"}, ~fetch.torn, NEW n \in Number, Due(n)
                   PROVE  OnList(n) \/ Told(n, out)'
        BY <2>1, <2>3, <2>5 DEF ReadKept
    <3>2. OnList(n) \/ Told(n, out)
        BY <1>0, <2>5, <3>1 DEF ReadKept
    <3> QED
        BY <2>2, <3>2
  <2>7. HeadKept'
      BY <1>0, <2>1 DEF HeadKept, Listed
  <2>8. PassedKept'
      BY <1>0, <2>1, PassedStays
  <2> QED
      BY <1>1, <2>4, <2>6, <2>7, <2>8 DEF Swept
<1>4. CASE Restart
  <2>1. fetch' = NoFetch /\ since' = clock /\ born' = clock
      BY <1>4 DEF Restart
  <2>2. NoFetch.pc = "idle"
      BY DEF NoFetch
  <2>3. PassedKept'
    <3>1. \A n \in Number : item'[n].updated \in Nat
        BY <1>1 DEF Typed, TypeOK
    <3>2. \A n \in Number : ~Passed(n)'
        BY <1>2, <2>1, <3>1 DEF Passed
    <3> QED
        BY <3>2 DEF PassedKept
  <2> QED
      BY <1>1, <2>1, <2>2, <2>3 DEF Swept, ListKept, ReadKept, HeadKept
<1>5. ASSUME NEW n \in Changing, Upstream(n) PROVE Swept'
    BY <1>0, <1>5, NumberAssumption, UpstreamMoves, MovesSwept
<1>6. CASE StartFetch
  <2>1. /\ fetch' = [NoFetch EXCEPT !.pc = "list", !.start = clock]
        /\ UNCHANGED <<item, since, born, emitted, torn>>
      BY <1>6 DEF StartFetch, FetchStep, upstreamVars
  <2>2. fetch'.pc = "list" /\ fetch'.page = 1
      BY <2>1 DEF NoFetch
  <2>3. ListKept'
    <3>1. (1 - 1) * IssuesPerPage = 0
        BY PageAssumption
    <3>2. \A n \in Number : 0 <= Rank(n)'
        BY RankType
    <3> QED
        BY <2>2, <3>1, <3>2 DEF ListKept
  <2>4. PassedKept'
      BY <1>0, <2>1, PassedStays
  <2> QED
      BY <1>1, <2>2, <2>3, <2>4 DEF Swept, ReadKept, HeadKept
<1>7. CASE ListPage \/ ListLastPage
    BY <1>1, <1>7, ListSwept
<1>8. CASE ListTooLong \/ Fail
  <2>1. fetch' = NoFetch /\ UNCHANGED <<item, since, born, emitted, torn>>
      BY <1>8 DEF ListTooLong, Fail, FetchStep, upstreamVars
  <2>2. NoFetch.pc = "idle"
      BY DEF NoFetch
  <2>3. PassedKept'
      BY <1>0, <2>1, PassedStays
  <2> QED
      BY <1>1, <2>1, <2>2, <2>3 DEF Swept, ListKept, ReadKept, HeadKept
<1>9. CASE Finish
  <2>1. /\ fetch.pc = "item" /\ fetch.listed = <<>> /\ since' = fetch.start /\ fetch' = NoFetch
        /\ emitted' = emitted \cup fetch.out /\ torn' = (torn \/ fetch.torn)
        /\ UNCHANGED <<item, born>>
      BY <1>9 DEF Finish, FetchStep, upstreamVars
  <2>2. NoFetch.pc = "idle"
      BY DEF NoFetch
  <2>3. PassedKept'
    <3>1. SUFFICES ASSUME ~torn, ~fetch.torn, NEW n \in Number, Passed(n)'
                   PROVE  Told(n, emitted)'
        BY <1>0, <2>1, FetchType DEF PassedKept, TypeOK
    <3>2. PICK told : told = emitted'
        OBVIOUS
    <3>3. item[n].updated \in Nat /\ fetch.start \in Nat
        BY <1>0, <1>2, FetchType DEF TypeOK
    <3>4. CASE item[n].updated < since
      <4>1. Passed(n)
          BY <2>1, <3>1, <3>4 DEF Passed
      <4>2. PICK former : former = emitted
          OBVIOUS
      <4>3. Told(n, former) /\ former \subseteq told
          BY <1>0, <2>1, <3>1, <3>2, <4>1, <4>2 DEF PassedKept
      <4> QED
          BY <2>1, <3>2, <4>3, ToldGrows, ToldStays
    <3>5. CASE since <= item[n].updated
      <4>1. Due(n)
          BY <2>1, <3>1, <3>5 DEF Passed, Due
      <4>2. ~OnList(n)
          BY <2>1 DEF OnList
      <4>3. PICK out : out = fetch.out
          OBVIOUS
      <4>4. Told(n, out) /\ out \subseteq told
          BY <1>0, <2>1, <3>1, <3>2, <4>1, <4>2, <4>3 DEF ReadKept
      <4> QED
          BY <2>1, <3>2, <4>4, ToldGrows, ToldStays
    <3> QED
        BY <1>2, <3>3, <3>4, <3>5
  <2> QED
      BY <1>1, <2>1, <2>2, <2>3 DEF Swept, ListKept, ReadKept, HeadKept
<1>10. ASSUME NEW n \in Number, Skip(n) PROVE Swept'
  <2>1. /\ fetch.pc = "item" /\ fetch.listed # <<>> /\ Listed.number = n /\ n \notin Wanted
        /\ NextItem({}) /\ FetchStep /\ UNCHANGED <<since, emitted, torn>>
      BY <1>10 DEF Skip, AtItem
  <2>2. \A E : Told(n, E)
      BY <2>1 DEF Told
  <2> QED
      BY <1>1, <2>1, <2>2, NextItemSwept
<1>11. ASSUME NEW n \in Number, ReadIssue(n) PROVE Swept'
  <2>1. /\ fetch.pc = "item" /\ fetch.listed # <<>> /\ Listed.number = n /\ n \in Number \ PullRequest
        /\ NextItem(IssueEvents(n)) /\ FetchStep /\ UNCHANGED <<since, emitted, torn>>
      BY <1>11 DEF ReadIssue, AtItem, IssueEvents
  <2>2. IssueEvents(n) \in SUBSET Events
      BY <1>0, <2>1, IssueEventsType
  <2>3. PICK out : out = fetch.out \cup IssueEvents(n)
      OBVIOUS
  <2>4. Due(n) => Told(n, out)
      BY <1>0, <2>1, <2>3, IssueIsTold
  <2> QED
      BY <1>1, <2>1, <2>2, <2>3, <2>4, NextItemSwept
<1>12. ASSUME NEW n \in Number, ReadPull(n) PROVE Swept'
  <2>1. /\ fetch.pc = "item" /\ fetch.listed # <<>> /\ Listed.number = n
        /\ fetch' = [fetch EXCEPT !.pc = "comments", !.out = @ \cup {Event("push", n, item[n].head, FALSE)}]
        /\ UNCHANGED <<clock, item, since, born, emitted, torn>>
      BY <1>12 DEF ReadPull, AtItem, FetchStep, upstreamVars
  <2>2. PICK out : out = fetch.out \cup {Event("push", n, item[n].head, FALSE)}
      OBVIOUS
  <2>3. /\ fetch'.pc = "comments" /\ fetch'.out = out /\ fetch'.torn = fetch.torn
        /\ fetch'.start = fetch.start /\ fetch'.listed = fetch.listed
      BY <1>2, <2>1, <2>2 DEF FetchAt
  <2>4. ReadKept'
    <3>1. SUFFICES ASSUME ~fetch.torn, NEW m \in Number, Due(m)
                   PROVE  OnList(m) \/ Told(m, out)'
        BY <2>1, <2>3 DEF ReadKept, Due, OnList
    <3>2. PICK former : former = fetch.out
        OBVIOUS
    <3>3. OnList(m) \/ Told(m, former)
        BY <1>0, <2>1, <3>1, <3>2 DEF ReadKept
    <3>4. former \subseteq out /\ item'[m] = item[m]
        BY <2>1, <2>2, <3>2
    <3> QED
        BY <3>3, <3>4, ToldGrows, ToldStays
  <2>5. HeadKept'
      BY <2>1, <2>2, <2>3 DEF HeadKept, Listed
  <2>6. PassedKept'
      BY <1>0, <2>1, PassedStays
  <2> QED
      BY <1>1, <2>3, <2>4, <2>5, <2>6 DEF Swept, ListKept
<1>13. ASSUME NEW n \in Number, ReadVerdict(n) PROVE Swept'
  <2>1. /\ fetch.pc = "comments" /\ fetch.listed # <<>> /\ Listed.number = n
        /\ NextItem(VerdictEvents(n)) /\ FetchStep /\ UNCHANGED <<since, emitted, torn>>
      BY <1>13 DEF ReadVerdict, AtItem, VerdictEvents
  <2>2. VerdictEvents(n) \in SUBSET Events
      BY <1>0, <2>1, VerdictEventsType
  <2>3. n \in PullRequest
      BY <1>0, <2>1 DEF FetchShape
  <2>4. PICK out : out = fetch.out \cup VerdictEvents(n)
      OBVIOUS
  <2>5. Due(n) => Told(n, out)
    <3>1. Due(n) => Event("push", n, item[n].head, FALSE) \in fetch.out
        BY <1>0, <2>1 DEF HeadKept, Due
    <3> QED
        BY <1>0, <2>1, <2>3, <2>4, <3>1, PullIsTold
  <2> QED
      BY <1>1, <2>1, <2>2, <2>4, <2>5, NextItemSwept
<1> QED
  <2>1. ASSUME Tick \/ UNCHANGED vars PROVE UNCHANGED <<item, since, fetch, emitted, born, torn>>
      BY <2>1 DEF Tick, vars, upstreamVars
  <2> QED
      BY <1>3, <1>4, <1>5, <1>6, <1>7, <1>8, <1>9, <1>10, <1>11, <1>12, <1>13, <2>1 DEF Next, ReadItem

\* It holds in every state.
LEMMA AlwaysSwept == Spec => []Swept
<1>1. Init => Swept
    BY InitSwept
<1>2. Swept /\ [Next]_vars => Swept'
    BY StepSwept
<1> QED
    BY <1>1, <1>2, PTL DEF Spec

\* The watermark never passes a head commit that was not returned, for any repository,
\* page size, number of changes, failures and restarts.
THEOREM PushesAreReturned == Spec => []PushesFire
<1>1. Swept => PushesFire
    BY NumberAssumption DEF Swept, PassedKept, PushesFire, Told, PullTold, Passed
<1> QED
    BY <1>1, AlwaysSwept, PTL

\* Nor the latest change of an issue that is neither the agent's nor a stranger's.
THEOREM IssuesAreReturned == Spec => []IssuesFire
<1>1. Swept => IssuesFire
    BY DEF Swept, PassedKept, IssuesFire, Told, IssueTold, Passed, Quiet, CallsForEvent
<1> QED
    BY <1>1, AlwaysSwept, PTL

\* Nor the owner's latest verdict while it is on the last page of the comments, however
\* many pages there are.
THEOREM VerdictsAreReturned == Spec => []VerdictsFire
<1>1. Swept => VerdictsFire
    BY NumberAssumption DEF Swept, PassedKept, VerdictsFire, Told, PullTold, VerdictTold, Passed
<1> QED
    BY <1>1, AlwaysSwept, PTL

\* Nor a build that the owner wants, with the approval on the last page.
THEOREM BuildsAreReturned == Spec => []BuildsFire
<1>1. Swept => BuildsFire
    BY DEF Swept, PassedKept, BuildsFire, Told, IssueTold, Passed, Quiet, CallsForEvent
<1> QED
    BY <1>1, AlwaysSwept, PTL

-----------------------------------------------------------------------------
(* The agent's replies.                                                     *)

\* Each comment but the agent's prompts, and each change does or is the agent's reply.
PromptKept ==
    \A n \in Number :
        LET comments == item[n].comments
        IN  /\ \A i \in 1..Len(comments) :
                 comments[i].mark # "bot" /\ comments[i].time > 0 => <<n, comments[i].time>> \in prompted
            /\ item[n].updated > 0 =>
                 \/ <<n, item[n].updated>> \in prompted
                 \/ /\ Len(comments) > 0 /\ comments[Len(comments)].mark = "bot"
                    /\ comments[Len(comments)].time = item[n].updated

\* So does the change a listed entry shows, or the last comment that was counted is the
\* agent's reply.
EntryPrompted ==
    \A k \in 1..Len(fetch.listed) :
        LET entry == fetch.listed[k]
            comments == item[entry.number].comments
        IN  \/ <<entry.number, entry.updated>> \in prompted
            \/ /\ entry.count > 0 /\ comments[entry.count].mark = "bot"
               /\ comments[entry.count].time = entry.updated

ToldPrompted ==
    \A e \in emitted \cup fetch.out :
        e.kind = "issue" /\ OwnersAlone(e.number) => <<e.number, e.version>> \in prompted

Silent == Typed /\ PromptKept /\ EntryPrompted /\ ToldPrompted

\* An issue on which the agent did not speak last is told at the time of a change that
\* was not the agent's: a comment on the page that is later than the agent's reply is
\* the owner's, and the activity its time.
LEMMA IssuePrompted ==
    ASSUME Silent, fetch.listed # <<>>, NEW n \in Number \ PullRequest, Listed.number = n,
           NEW e \in IssueEvents(n), OwnersAlone(n)
    PROVE  <<e.number, e.version>> \in prompted
<1>0. TypeOK /\ TimesKept /\ EntriesKept /\ PromptKept /\ EntryPrompted
    BY DEF Silent, Typed
<1>1. Listed = fetch.listed[1] /\ 1 \in 1..Len(fetch.listed)
    BY <1>0, ListedType
<1>2. PICK updated \in Nat : updated = Listed.updated /\ updated > 0
  <2>1. since \in Nat /\ since > 0
      BY <1>0 DEF TypeOK
  <2>2. Listed.updated \in Nat /\ since <= Listed.updated
      BY <1>0, <1>1, ListedType DEF EntriesKept
  <2> QED
      BY <2>1, <2>2
<1>3. PICK len \in Nat : len = Len(item[n].comments)
    BY <1>0, CommentsType
<1>4. PICK count \in Nat : count = Listed.count /\ count <= len
    BY <1>0, <1>1, <1>3, ListedType DEF EntriesKept
<1>5. PICK page \in SUBSET (1..len) : page = LastPage(n, count) /\ (count > 0 => count \in page)
    BY <1>0, <1>3, <1>4, LastPageFacts
<1>6. PICK a \in Nat :
        /\ a = Activity(n, updated, page)
        /\ updated <= a
        /\ \A i \in page : item[n].comments[i].time <= a
        /\ a = updated \/ \E i \in page : a = item[n].comments[i].time
  <2>1. \A i \in page : item[n].comments[i].owner
      BY <1>0, <1>3, CommentsType DEF OwnersAlone
  <2>2. page \in SUBSET (1..Len(item[n].comments))
      BY <1>3
  <2>3. PICK a \in Nat : a = Activity(n, updated, page)
      BY <1>0, <2>2, ActivityFacts
  <2>4. /\ updated <= a
        /\ \A i \in page : item[n].comments[i].owner => item[n].comments[i].time <= a
        /\ a = updated \/ \E i \in page : a = item[n].comments[i].time
      BY <1>0, <2>2, <2>3, ActivityFacts
  <2> QED
      BY <2>1, <2>3, <2>4
<1>7. ~AgentSpokeLast(n, page) /\ e.number = n /\ e.version = a
    BY <1>2, <1>4, <1>5, <1>6 DEF IssueEvents, Event
<1>8. ASSUME page # {}, \E i \in page : a = item[n].comments[i].time
      PROVE  <<n, a>> \in prompted
  <2>1. PICK i \in page : a = item[n].comments[i].time
      BY <1>8
  <2>2. page \in SUBSET (0..len)
      OBVIOUS
  <2>3. Max(page) \in page /\ \A j \in page : Max(page) >= j
      BY <1>8, <2>2, MaxOfBounded
  <2>4. PICK m \in page : m = Max(page) /\ m \in i..len
    <3>1. PICK m \in 1..len : m = Max(page)
        BY <2>3
    <3>2. m \in page /\ m >= i /\ i \in 1..len
        BY <2>1, <2>3, <3>1
    <3> QED
        BY <3>1, <3>2
  <2>5. item[n].comments[i].time <= item[n].comments[m].time
      BY <1>0, <1>3, <2>1, <2>4 DEF TimesKept
  <2>6. item[n].comments[m].time \in Nat
      BY <1>0, <1>3, CommentsType
  <2>7. item[n].comments[m].time = a
    <3>1. PICK t \in Nat : t = item[n].comments[m].time
        BY <2>6
    <3>2. a <= t /\ t <= a
        BY <1>6, <2>1, <2>4, <2>5, <3>1
    <3> QED
        BY <3>1, <3>2
  <2>8. item[n].comments[m].mark # "bot"
      BY <1>7, <1>8, <2>4 DEF AgentSpokeLast
  <2>9. a > 0
      BY <1>2, <1>6
  <2> QED
      BY <1>0, <1>3, <2>4, <2>7, <2>8, <2>9 DEF PromptKept
<1>9. CASE \E i \in page : a = item[n].comments[i].time
    BY <1>7, <1>8, <1>9
<1>10. CASE a = updated
  <2>1. \/ <<n, updated>> \in prompted
        \/ count > 0 /\ item[n].comments[count].time = updated
      BY <1>0, <1>1, <1>2, <1>4 DEF EntryPrompted
  <2>2. CASE count > 0 /\ item[n].comments[count].time = updated
      BY <1>5, <1>7, <1>8, <1>10, <2>2
  <2> QED
      BY <1>7, <1>10, <2>1, <2>2
<1> QED
    BY <1>6, <1>9, <1>10

\* In the first state no reply has been given.
LEMMA InitSilent == ASSUME Init PROVE Silent
<1>1. Typed
    BY InitTyped
<1>2. PICK recent \in SUBSET Recent, old \in SUBSET Earlier :
        /\ item = [n \in Number |-> [open |-> TRUE, label |-> n \in old \ PullRequest, head |-> 0,
                                     updated |-> IF n \in recent THEN 1 ELSE 0,
                                     comments |-> IF n \in old THEN <<Remark>> ELSE <<>>]]
        /\ prompted = recent \X {1}
    BY DEF Init
<1>3. PICK talk : talk = <<Remark>> /\ Len(talk) = 1 /\ talk[1].time = 0 /\ talk[1].owner = TRUE
  <2>0. Remark.time = 0 /\ Remark.owner = TRUE
      BY DEF Remark
  <2>1. PICK r : r = Remark /\ r.time = 0 /\ r.owner = TRUE
      BY <2>0
  <2>2. Len(<<r>>) = 1 /\ <<r>>[1] = r
      OBVIOUS
  <2> QED
      BY <2>1, <2>2
<1>4. ASSUME NEW n \in Number
      PROVE  /\ item[n].updated = (IF n \in recent THEN 1 ELSE 0)
             /\ item[n].comments \in {talk, <<>>}
    BY <1>2, <1>3
<1>5. PromptKept
    BY <1>2, <1>3, <1>4 DEF PromptKept
<1>6. EntryPrompted /\ ToldPrompted
    BY DEF Init, NoFetch, EntryPrompted, ToldPrompted
<1> QED
    BY <1>1, <1>5, <1>6 DEF Silent

\* A change of an item, which is prompted unless it is a reply of the agent's.
LEMMA MovesSilent ==
    ASSUME Silent, NEW n \in Number, Moves(n)
    PROVE  Silent'
<1>0. Typed /\ TypeOK /\ EntriesKept /\ PromptKept /\ EntryPrompted /\ ToldPrompted
    BY DEF Silent, Typed
<1>1. PICK len \in Nat : len = Len(item[n].comments)
    BY <1>0, CommentsType
<1>2. /\ emitted' = emitted /\ item'[n].updated = clock /\ clock \in Nat
      /\ \A m \in Number \ {n} : item'[m] = item[m]
      /\ fetch'.listed = fetch.listed /\ fetch'.out = fetch.out
    BY <1>0, MovesFetch DEF Moves, TypeOK
<1>3. /\ \A i \in 1..len : item'[n].comments[i] = item[n].comments[i]
      /\ prompted \subseteq prompted'
      /\ \/ Len(item'[n].comments) = len /\ <<n, clock>> \in prompted'
         \/ /\ Len(item'[n].comments) = len + 1
            /\ item'[n].comments[len + 1].time = clock
            /\ item'[n].comments[len + 1].mark = "bot" \/ <<n, clock>> \in prompted'
    BY <1>0, <1>1, MovesComments
<1>4. ASSUME NEW i \in 1..Len(item'[n].comments)
      PROVE  \/ i \in 1..len /\ item'[n].comments[i] = item[n].comments[i]
             \/ i = len + 1 /\ Len(item'[n].comments) = len + 1
    BY <1>1, <1>3, <1>4
<1>5. Typed'
    BY <1>0, MovesTyped
<1>6. PromptKept'
  <2>1. ASSUME NEW m \in Number, m # n
        PROVE  LET comments == item'[m].comments
               IN  /\ \A i \in 1..Len(comments) :
                        comments[i].mark # "bot" /\ comments[i].time > 0 => <<m, comments[i].time>> \in prompted'
                   /\ item'[m].updated > 0 =>
                        \/ <<m, item'[m].updated>> \in prompted'
                        \/ /\ Len(comments) > 0 /\ comments[Len(comments)].mark = "bot"
                           /\ comments[Len(comments)].time = item'[m].updated
    <3>1. item'[m] = item[m]
        BY <1>2, <2>1
    <3> QED
        BY <1>0, <1>3, <3>1 DEF PromptKept
  <2>2. \A i \in 1..Len(item'[n].comments) :
            item'[n].comments[i].mark # "bot" /\ item'[n].comments[i].time > 0
            => <<n, item'[n].comments[i].time>> \in prompted'
    <3>1. SUFFICES ASSUME NEW i \in 1..Len(item'[n].comments),
                          item'[n].comments[i].mark # "bot", item'[n].comments[i].time > 0
                   PROVE  <<n, item'[n].comments[i].time>> \in prompted'
        OBVIOUS
    <3>2. CASE i \in 1..len /\ item'[n].comments[i] = item[n].comments[i]
        BY <1>0, <1>1, <1>3, <3>1, <3>2 DEF PromptKept
    <3>3. CASE i = len + 1 /\ Len(item'[n].comments) = len + 1
        BY <1>1, <1>3, <3>1, <3>3
    <3> QED
        BY <1>4, <3>2, <3>3
  <2>3. \/ <<n, item'[n].updated>> \in prompted'
        \/ /\ Len(item'[n].comments) > 0 /\ item'[n].comments[Len(item'[n].comments)].mark = "bot"
           /\ item'[n].comments[Len(item'[n].comments)].time = item'[n].updated
      BY <1>1, <1>2, <1>3
  <2> QED
      BY <2>1, <2>2, <2>3 DEF PromptKept
<1>7. EntryPrompted'
  <2>1. SUFFICES ASSUME NEW k \in 1..Len(fetch.listed)
                 PROVE  LET entry == fetch.listed[k]
                            comments == item'[entry.number].comments
                        IN  \/ <<entry.number, entry.updated>> \in prompted'
                            \/ /\ entry.count > 0 /\ comments[entry.count].mark = "bot"
                               /\ comments[entry.count].time = entry.updated
      BY <1>2 DEF EntryPrompted
  <2>2. PICK entry : entry = fetch.listed[k] /\ entry.number \in Number /\ entry.count \in Nat
      BY <1>0, FetchType
  <2>3. CASE entry.number # n
    <3>1. item'[entry.number] = item[entry.number]
        BY <1>2, <2>2, <2>3
    <3> QED
        BY <1>0, <1>3, <2>2, <3>1 DEF EntryPrompted
  <2>4. CASE entry.number = n
    <3>1. entry.count <= len
        BY <1>0, <1>1, <2>2, <2>4 DEF EntriesKept
    <3>2. entry.count > 0 => item'[n].comments[entry.count] = item[n].comments[entry.count]
      <4>1. entry.count > 0 => entry.count \in 1..len
          BY <1>1, <2>2, <3>1
      <4> QED
          BY <1>3, <4>1
    <3>3. \/ <<n, entry.updated>> \in prompted
          \/ /\ entry.count > 0 /\ item[n].comments[entry.count].mark = "bot"
             /\ item[n].comments[entry.count].time = entry.updated
        BY <1>0, <2>2, <2>4 DEF EntryPrompted
    <3> QED
        BY <1>3, <2>2, <2>4, <3>2, <3>3
  <2> QED
      BY <2>3, <2>4
<1>8. ASSUME NEW m \in Number, OwnersAlone(m)' PROVE OwnersAlone(m)
  <2>1. CASE m # n
    <3>1. item'[m] = item[m]
        BY <1>2, <2>1
    <3> QED
        BY <1>8, <3>1 DEF OwnersAlone
  <2>2. CASE m = n
    <3>0. PICK s \in Seq(Remarks) : s = item'[n].comments
        BY DEF Moves, ItemAt
    <3>1. DOMAIN item[n].comments = 1..len /\ DOMAIN item'[n].comments = 1..Len(item'[n].comments)
        BY <1>0, <1>1, <3>0, CommentsType
    <3>2. 1..len \subseteq 1..Len(item'[n].comments)
        BY <1>1, <1>3
    <3> QED
        BY <1>3, <1>8, <2>2, <3>1, <3>2 DEF OwnersAlone
  <2> QED
      BY <2>1, <2>2
<1>9. ToldPrompted'
  <2>1. \A e \in emitted \cup fetch.out : e.number \in Number
    <3>1. emitted \cup fetch.out \subseteq Events
        BY <1>0, TypeParts DEF FetchAt
    <3> QED
        BY <3>1 DEF Events
  <2> QED
      BY <1>0, <1>2, <1>3, <1>8, <2>1 DEF ToldPrompted
<1> QED
    BY <1>5, <1>6, <1>7, <1>9 DEF Silent

\* A step of the fetch keeps it when what it lists and what it tells do.
LEMMA FetchSilent ==
    ASSUME Silent, item' = item, prompted' = prompted, Typed', EntryPrompted',
           \A e \in emitted' \cup fetch'.out :
               e.kind = "issue" /\ OwnersAlone(e.number) =>
                   e \in emitted \cup fetch.out \/ <<e.number, e.version>> \in prompted
    PROVE  Silent'
<1>1. PromptKept'
    BY DEF Silent, PromptKept
<1>2. ToldPrompted'
    BY DEF Silent, ToldPrompted, OwnersAlone
<1> QED
    BY <1>1, <1>2 DEF Silent

\* A page of the list shows each item with its last change and its count of comments.
LEMMA ListSilent ==
    ASSUME Silent, ListPage \/ ListLastPage, Typed'
    PROVE  Silent'
<1>0. TypeOK /\ EntryPrompted /\ PromptKept
    BY DEF Silent, Typed
<1>1. UNCHANGED <<item, prompted, since, emitted>>
    BY DEF ListPage, ListLastPage, FetchStep, upstreamVars
<1>2. fetch.page \in Nat \ {0}
    BY <1>0, FetchType, PageAssumption
<1>3. PICK page \in Seq(Entry) : page = Page(fetch.page)
    BY <1>0, <1>2, PageFacts
<1>4. fetch'.listed = fetch.listed \o page /\ fetch'.out = fetch.out
  <2>1. fetch \in FetchAt(clock)
      BY <1>0, TypeParts
  <2> QED
      BY <1>3, <2>1 DEF ListPage, ListLastPage, FetchAt
<1>5. PICK len \in Nat : len = Len(fetch.listed)
    BY <1>0, FetchType
<1>6. EntryPrompted'
  <2>1. SUFFICES ASSUME NEW k \in 1..Len(fetch'.listed)
                 PROVE  LET entry == fetch'.listed[k]
                            comments == item[entry.number].comments
                        IN  \/ <<entry.number, entry.updated>> \in prompted
                            \/ /\ entry.count > 0 /\ comments[entry.count].mark = "bot"
                               /\ comments[entry.count].time = entry.updated
      BY <1>1 DEF EntryPrompted
  <2>2. Len(page) \in Nat
      OBVIOUS
  <2>3. /\ Len(fetch'.listed) = len + Len(page)
        /\ \A j \in 1..len : fetch'.listed[j] = fetch.listed[j]
        /\ \A j \in 1..Len(page) : fetch'.listed[len + j] = page[j]
      BY <1>0, <1>4, <1>5, ListedMore
  <2>4. CASE k \in 1..len
      BY <1>0, <1>5, <2>3, <2>4 DEF EntryPrompted
  <2>5. CASE k \notin 1..len
    <3>1. k - len \in 1..Len(page) /\ len + (k - len) = k
        BY <1>5, <2>2, <2>3, <2>5
    <3>2. PICK j \in 1..Len(page) : fetch'.listed[k] = page[j]
        BY <2>3, <3>1
    <3>3. PICK n \in Matching : /\ page[j].number = n /\ page[j].updated = item[n].updated
                                /\ page[j].count = Len(item[n].comments)
        BY <1>0, <1>2, <1>3, PageFacts
    <3>4. n \in Number /\ item[n].updated > 0
      <4>1. n \in Number /\ since \in Nat /\ since > 0 /\ item[n].updated \in Nat /\ item[n].updated >= since
          BY <1>0 DEF TypeOK, Matching
      <4> QED
          BY <4>1
    <3>5. \/ <<n, item[n].updated>> \in prompted
          \/ /\ Len(item[n].comments) > 0 /\ item[n].comments[Len(item[n].comments)].mark = "bot"
             /\ item[n].comments[Len(item[n].comments)].time = item[n].updated
        BY <1>0, <3>4 DEF PromptKept
    <3> QED
        BY <3>2, <3>3, <3>5
  <2> QED
      BY <2>4, <2>5
<1> QED
    BY <1>1, <1>4, <1>6, FetchSilent

\* The events of an item that was read are added, and it leaves the list.
LEMMA NextItemSilent ==
    ASSUME Silent, FetchStep, UNCHANGED emitted, fetch.listed # <<>>, Typed',
           NEW events \in SUBSET Events, NextItem(events),
           \A e \in events :
               e.kind = "issue" /\ OwnersAlone(e.number) => <<e.number, e.version>> \in prompted
    PROVE  Silent'
<1>0. TypeOK /\ EntryPrompted
    BY DEF Silent, Typed
<1>1. UNCHANGED <<item, prompted>>
    BY DEF FetchStep, upstreamVars
<1>2. fetch'.listed = Tail(fetch.listed) /\ fetch'.out = fetch.out \cup events
    BY <1>0, NextItemShape
<1>3. EntryPrompted'
  <2>1. SUFFICES ASSUME NEW k \in 1..Len(Tail(fetch.listed))
                 PROVE  LET entry == Tail(fetch.listed)[k]
                            comments == item[entry.number].comments
                        IN  \/ <<entry.number, entry.updated>> \in prompted
                            \/ /\ entry.count > 0 /\ comments[entry.count].mark = "bot"
                               /\ comments[entry.count].time = entry.updated
      BY <1>1, <1>2 DEF EntryPrompted
  <2>2. k + 1 \in 1..Len(fetch.listed) /\ Tail(fetch.listed)[k] = fetch.listed[k + 1]
      BY <1>0, ListedType
  <2> QED
      BY <1>0, <2>2 DEF EntryPrompted
<1> QED
    BY <1>1, <1>2, <1>3, FetchSilent

\* Every step keeps the agent silent.
LEMMA StepSilent ==
    ASSUME Silent, [Next]_vars
    PROVE  Silent'
<1>0. Typed /\ TypeOK /\ TimesKept /\ EntriesKept /\ EntryPrompted
    BY DEF Silent, Typed
<1>1. Typed'
    BY <1>0, StepTyped
<1>2. fetch \in FetchAt(clock)
    BY <1>0, TypeParts
<1>3. CASE Tick \/ UNCHANGED vars
  <2>1. UNCHANGED <<item, prompted, fetch, emitted>>
      BY <1>3 DEF Tick, vars, upstreamVars
  <2> QED
      BY <1>0, <1>1, <2>1, FetchSilent DEF EntryPrompted
<1>4. ASSUME NEW n \in Changing, Upstream(n) PROVE Silent'
    BY <1>0, <1>4, NumberAssumption, UpstreamMoves, MovesSilent
<1>5. CASE Restart \/ ListTooLong \/ Fail \/ Finish
  <2>1. /\ fetch' = NoFetch /\ UNCHANGED <<item, prompted>>
        /\ emitted' \subseteq emitted \cup fetch.out
      BY <1>5 DEF Restart, ListTooLong, Fail, Finish, FetchStep, upstreamVars
  <2>2. NoFetch.out = {} /\ Len(NoFetch.listed) = 0
      BY DEF NoFetch
  <2> QED
      BY <1>1, <2>1, <2>2, FetchSilent DEF EntryPrompted
<1>6. CASE StartFetch
  <2>1. fetch' = [NoFetch EXCEPT !.pc = "list", !.start = clock] /\ UNCHANGED <<item, prompted, emitted>>
      BY <1>6 DEF StartFetch, FetchStep, upstreamVars
  <2>2. fetch'.out = {} /\ Len(fetch'.listed) = 0
      BY <2>1 DEF NoFetch
  <2> QED
      BY <1>1, <2>1, <2>2, FetchSilent DEF EntryPrompted
<1>7. CASE ListPage \/ ListLastPage
    BY <1>1, <1>7, ListSilent
<1>8. ASSUME NEW n \in Number, Skip(n) PROVE Silent'
  <2>1. fetch.listed # <<>> /\ NextItem({}) /\ FetchStep /\ UNCHANGED emitted
      BY <1>8 DEF Skip, AtItem
  <2> QED
      BY <1>1, <2>1, NextItemSilent
<1>9. ASSUME NEW n \in Number, ReadIssue(n) PROVE Silent'
  <2>1. /\ fetch.listed # <<>> /\ Listed.number = n /\ n \in Number \ PullRequest
        /\ NextItem(IssueEvents(n)) /\ FetchStep /\ UNCHANGED emitted
      BY <1>9 DEF ReadIssue, AtItem, IssueEvents
  <2>2. IssueEvents(n) \in SUBSET Events
      BY <1>0, <2>1, IssueEventsType
  <2>3. \A e \in IssueEvents(n) : e.number = n
      BY DEF IssueEvents, Event
  <2>4. \A e \in IssueEvents(n) : OwnersAlone(e.number) => <<e.number, e.version>> \in prompted
      BY <2>1, <2>3, IssuePrompted
  <2> QED
      BY <1>1, <2>1, <2>2, <2>4, NextItemSilent
<1>10. ASSUME NEW n \in Number, ReadPull(n) PROVE Silent'
  <2>1. /\ fetch' = [fetch EXCEPT !.pc = "comments", !.out = @ \cup {Event("push", n, item[n].head, FALSE)}]
        /\ UNCHANGED <<item, prompted, emitted>>
      BY <1>10 DEF ReadPull, AtItem, FetchStep, upstreamVars
  <2>2. /\ fetch'.listed = fetch.listed
        /\ fetch'.out = fetch.out \cup {Event("push", n, item[n].head, FALSE)}
      BY <1>2, <2>1 DEF FetchAt
  <2>3. Event("push", n, item[n].head, FALSE).kind # "issue"
      BY DEF Event
  <2>4. EntryPrompted'
      BY <1>0, <2>1, <2>2 DEF EntryPrompted
  <2> QED
      BY <1>1, <2>1, <2>2, <2>3, <2>4, FetchSilent
<1>11. ASSUME NEW n \in Number, ReadVerdict(n) PROVE Silent'
  <2>1. /\ fetch.listed # <<>> /\ Listed.number = n
        /\ NextItem(VerdictEvents(n)) /\ FetchStep /\ UNCHANGED emitted
      BY <1>11 DEF ReadVerdict, AtItem, VerdictEvents
  <2>2. VerdictEvents(n) \in SUBSET Events
      BY <1>0, <2>1, VerdictEventsType
  <2>3. \A e \in VerdictEvents(n) : e.kind # "issue"
      BY DEF VerdictEvents, Event
  <2> QED
      BY <1>1, <2>1, <2>2, <2>3, NextItemSilent
<1> QED
    BY <1>3, <1>4, <1>5, <1>6, <1>7, <1>8, <1>9, <1>10, <1>11 DEF Next, ReadItem

\* No event of an issue on which no stranger comments stems from a reply of the agent's,
\* whenever it arrives in a fetch.
THEOREM RepliesDriveNothing == Spec => []AgentRepliesDriveNothing
<1>1. Init => Silent
    BY InitSilent
<1>2. Silent /\ [Next]_vars => Silent'
    BY StepSilent
<1>3. Silent => AgentRepliesDriveNothing
    BY DEF Silent, ToldPrompted, AgentRepliesDriveNothing
<1> QED
    BY <1>1, <1>2, <1>3, PTL DEF Spec
=============================================================================
