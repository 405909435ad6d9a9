--------------------------- MODULE SubStore_proofs ---------------------------
(***************************************************************************)
(* Facts about the operators of SubStore, for every value of its constants: *)
(* what a method of the store returns and what it preserves.  The theorems *)
(* of StoreLifecycle and EventBus rest on them.                            *)
(***************************************************************************)
EXTENDS SubStore, SequenceTheorems, FiniteSetTheorems, TLAPS

-----------------------------------------------------------------------------
(* Least and greatest elements.                                             *)

\* A non-empty set of natural numbers has a least element, which Min names.
LEMMA MinOfNat ==
    ASSUME NEW S \in SUBSET Nat, S # {}
    PROVE  Min(S) \in S /\ \A y \in S : Min(S) <= y
<1>1. \E x \in S : \A y \in S : ~(<<y, x>> \in OpToRel(<, Nat))
    BY NatLessThanWellFounded, WFMin, Zenon
<1>2. PICK x \in S : \A y \in S : ~(y < x)
    BY <1>1 DEF OpToRel
<1>3. \A y \in S : x <= y
    BY <1>2
<1> QED
    BY <1>3 DEF Min
\* A non-empty set of natural numbers up to n has a greatest element, which Max names.
LEMMA MaxOfBounded ==
    ASSUME NEW n \in Nat, NEW S \in SUBSET (0..n), S # {}
    PROVE  Max(S) \in S /\ \A y \in S : Max(S) >= y
<1> DEFINE mirror == {n - x : x \in S}
<1>1. mirror \in SUBSET Nat /\ mirror # {}
  <2>1. \A x \in S : n - x \in Nat
      OBVIOUS
  <2>2. PICK x \in S : TRUE
      OBVIOUS
  <2>3. n - x \in mirror
      OBVIOUS
  <2> QED
      BY <2>1, <2>3
<1>2. Min(mirror) \in mirror /\ \A y \in mirror : Min(mirror) <= y
  <2> HIDE DEF mirror
  <2> QED
    BY <1>1, MinOfNat
<1>3. PICK x \in S : Min(mirror) = n - x
    BY <1>2
<1>4. \A y \in S : x >= y
    BY <1>2, <1>3
<1> QED
    BY <1>4 DEF Max

\* So has a non-empty finite one.
LEMMA MaxOfFinite ==
    ASSUME NEW S \in SUBSET Nat, IsFiniteSet(S), S # {}
    PROVE  Max(S) \in S /\ \A y \in S : Max(S) >= y
<1> DEFINE topless == {T \in FiniteSubsetsOf(S) : T # {} /\ ~\E m \in T : \A y \in T : m >= y}
<1>1. topless = {}
  <2>1. SUFFICES ASSUME topless # {} PROVE FALSE
      OBVIOUS
  <2>2. PICK T \in topless : \A U \in topless : ~(<<U, T>> \in StrictSubsetOrdering(S))
      BY <2>1, FS_StrictSubsetOrderingWellFounded, WFMin, Zenon
  <2>3. PICK x \in T : TRUE
      BY <2>2
  <2> DEFINE U == T \ {x}
  <2>4. T \subseteq S /\ U \subseteq S /\ U # T /\ IsFiniteSet(U)
      BY <2>2, <2>3, FS_RemoveElement DEF FiniteSubsetsOf
  <2>5. U \notin topless
      BY <2>2, <2>4 DEF StrictSubsetOrdering
  <2>6. CASE U = {}
      BY <2>2, <2>3, <2>4, <2>6
  <2>7. CASE U # {}
    <3>1. PICK m \in U : \A y \in U : m >= y
        BY <2>4, <2>5, <2>7 DEF FiniteSubsetsOf
    <3>2. \A y \in T : (IF m >= x THEN m ELSE x) >= y
        BY <2>3, <2>4, <3>1
    <3> QED
        BY <2>2, <2>3, <3>1, <3>2
  <2> QED
      BY <2>6, <2>7
<1>2. S \in FiniteSubsetsOf(S)
    BY DEF FiniteSubsetsOf
<1>3. \E m \in S : \A y \in S : m >= y
    BY <1>1, <1>2
<1> QED
    BY <1>3 DEF Max

-----------------------------------------------------------------------------
(* The dedup window and its index.                                          *)

DistinctIds(seen) == \A i, j \in 1..Len(seen) : seen[i].id = seen[j].id => i = j

\* The index holds the ids of the window, each of which stands there once.
Indexed(s) == s.index = Ids(s.state.seen) /\ DistinctIds(s.state.seen)

\* s and t differ in their window and index alone.
SameButWindow(s, t) ==
    /\ t.state.bindings = s.state.bindings
    /\ t.state.created = s.state.created
    /\ t.state.events = s.state.events
    /\ t.maxSeen = s.maxSeen
    /\ t.ttl = s.ttl

WithWindow(s, seen, index) == [s EXCEPT !.state.seen = seen, !.index = index]

\* A store with a well-typed window and index in place of its own is a store.
LEMMA WithWindowType ==
    ASSUME NEW s \in Store, NEW seen \in Seq(SeenEntry), NEW index \in SUBSET EventId
    PROVE  /\ WithWindow(s, seen, index) \in Store
           /\ WithWindow(s, seen, index).state.seen = seen
           /\ WithWindow(s, seen, index).index = index
           /\ SameButWindow(s, WithWindow(s, seen, index))
<1>1. [s.state EXCEPT !.seen = seen] \in State
    BY DEF Store, State
<1>2. [s EXCEPT !.state = [s.state EXCEPT !.seen = seen]] \in Store
    BY <1>1 DEF Store
<1>3. WithWindow(s, seen, index) \in Store
    BY <1>2 DEF Store, WithWindow
<1> QED
    BY <1>1, <1>3 DEF Store, State, SameButWindow, WithWindow

\* Membership in the ids of a window, spelled out.
LEMMA IdsMember ==
    ASSUME NEW seen \in Seq(SeenEntry), NEW x
    PROVE  x \in Ids(seen) <=> \E i \in 1..Len(seen) : x = seen[i].id
BY DEF Ids

\* The ids of a window are event ids.
LEMMA IdsType == ASSUME NEW seen \in Seq(SeenEntry) PROVE Ids(seen) \in SUBSET EventId
<1>1. ASSUME NEW i \in 1..Len(seen) PROVE seen[i].id \in EventId
  <2>1. seen[i] \in SeenEntry
      OBVIOUS
  <2> QED
      BY <2>1 DEF SeenEntry
<1> QED
    BY <1>1, IdsMember

\* The suffix of a window has the ids of the window without those of the prefix.
LEMMA IdsOfSuffix ==
    ASSUME NEW seen \in Seq(SeenEntry), DistinctIds(seen), NEW n \in 0..Len(seen),
           NEW kept \in Seq(SeenEntry), Len(kept) = Len(seen) - n,
           \A i \in 1..Len(seen) - n : kept[i] = seen[n + i]
    PROVE  DistinctIds(kept) /\ Ids(kept) = Ids(seen) \ {seen[i].id : i \in 1..n}
<1> DEFINE gone == {seen[i].id : i \in 1..n}
<1>1. DistinctIds(kept)
  <2>1. ASSUME NEW i \in 1..Len(kept), NEW j \in 1..Len(kept), kept[i].id = kept[j].id
        PROVE  i = j
    <3>1. n + i \in 1..Len(seen) /\ n + j \in 1..Len(seen) /\ seen[n + i].id = seen[n + j].id
        BY <2>1
    <3>2. n + i = n + j
        BY <3>1 DEF DistinctIds
    <3> QED
        BY <3>2
  <2> QED
    BY <2>1 DEF DistinctIds
<1>2. ASSUME NEW x \in Ids(seen), x \notin gone PROVE x \in Ids(kept)
  <2>1. PICK i \in 1..Len(seen) : x = seen[i].id
      BY IdsMember
  <2>2. ~(i <= n)
      BY <1>2, <2>1
  <2>3. i - n \in 1..Len(kept) /\ kept[i - n] = seen[i]
      BY <2>2
  <2> QED
      BY <2>1, <2>3, IdsMember
<1>3. ASSUME NEW x \in Ids(kept) PROVE x \in Ids(seen) /\ x \notin gone
  <2>1. PICK i \in 1..Len(kept) : x = kept[i].id
      BY IdsMember
  <2>2. n + i \in 1..Len(seen) /\ x = seen[n + i].id
      BY <2>1
  <2>3. x \in Ids(seen)
      BY <2>2, IdsMember
  <2>4. ASSUME NEW j \in 1..n PROVE x # seen[j].id
    <3>1. Len(seen) \in Nat
        OBVIOUS
    <3>2. j \in 1..Len(seen) /\ j # n + i
        BY <2>1, <3>1
    <3>3. seen[j].id = seen[n + i].id => j = n + i
        BY <2>2, <3>2 DEF DistinctIds
    <3> QED
        BY <2>2, <3>2, <3>3
  <2> QED
      BY <2>3, <2>4
<1> QED
    BY <1>1, <1>2, <1>3

\* Dropping the oldest entries keeps the index in step with the window.
LEMMA DropOldestIndexed ==
    ASSUME NEW s \in Store, Indexed(s), NEW n \in 0..Len(s.state.seen)
    PROVE  /\ DropOldest(s, n) \in Store
           /\ Indexed(DropOldest(s, n))
           /\ DropOldest(s, n).index \subseteq s.index
           /\ SameButWindow(s, DropOldest(s, n))
<1> DEFINE seen  == s.state.seen
           kept  == SubSeq(seen, n + 1, Len(seen))
           index == s.index \ {seen[i].id : i \in 1..n}
<1>1. seen \in Seq(SeenEntry) /\ s.index \in SUBSET EventId /\ DistinctIds(seen) /\ s.index = Ids(seen)
    BY DEF Store, State, Indexed
<1>3. /\ kept \in Seq(SeenEntry)
      /\ Len(kept) = Len(seen) - n
      /\ \A i \in 1..Len(seen) - n : kept[i] = seen[n + i]
    BY <1>1
<1>4. index \in SUBSET EventId
    BY <1>1
<1>5. DistinctIds(kept) /\ Ids(kept) = index
  <2> HIDE DEF kept, seen
  <2> QED
    BY <1>1, <1>3, IdsOfSuffix DEF seen
<1>6. index \subseteq s.index
    OBVIOUS
<1>7. DropOldest(s, n) = WithWindow(s, kept, index)
    BY Zenon DEF DropOldest, WithWindow
<1> HIDE DEF kept, index
<1> QED
    BY <1>3, <1>4, <1>5, <1>6, <1>7, WithWindowType DEF Indexed

\* Only entries of the window expire.
LEMMA ExpiredPrefixRange ==
    ASSUME NEW s \in Store, NEW now \in Nat
    PROVE  ExpiredPrefix(s, now) \in 0..Len(s.state.seen)
<1> DEFINE fresh == {i \in DOMAIN s.state.seen : s.state.seen[i].time >= now - s.ttl}
<1>1. s.state.seen \in Seq(SeenEntry)
    BY DEF Store, State
<1>2. fresh \in SUBSET (1..Len(s.state.seen)) /\ Len(s.state.seen) \in Nat
    BY <1>1
<1>3. CASE fresh = {}
    BY <1>2, <1>3 DEF ExpiredPrefix
<1>4. CASE fresh # {}
  <2>1. Min(fresh) \in fresh
    <3> HIDE DEF fresh
    <3> QED
      BY <1>2, <1>4, MinOfNat
  <2> QED
    BY <1>2, <1>4, <2>1 DEF ExpiredPrefix
<1> QED
    BY <1>3, <1>4

\* Eviction, by age and by number, keeps the index in step with the window.
LEMMA EvictExpiredIndexed ==
    ASSUME NEW s \in Store, Indexed(s), NEW now \in Nat
    PROVE  /\ EvictExpired(s, now) \in Store
           /\ Indexed(EvictExpired(s, now))
           /\ EvictExpired(s, now).index \subseteq s.index
           /\ SameButWindow(s, EvictExpired(s, now))
<1>1. SameButWindow(s, s)
    BY DEF SameButWindow
<1> QED
    BY <1>1, ExpiredPrefixRange, DropOldestIndexed DEF EvictExpired

\* Rotation cuts the window to its size and keeps the index in step.
LEMMA EvictOverflowIndexed ==
    ASSUME NEW s \in Store, Indexed(s)
    PROVE  /\ EvictOverflow(s) \in Store
           /\ Indexed(EvictOverflow(s))
           /\ EvictOverflow(s).index \subseteq s.index
           /\ SameButWindow(s, EvictOverflow(s))
<1>1. SameButWindow(s, s)
    BY DEF SameButWindow
<1>2. Len(s.state.seen) \in Nat /\ s.maxSeen \in Nat
    BY DEF Store, State
<1>3. Len(s.state.seen) > s.maxSeen => Len(s.state.seen) - s.maxSeen \in 0..Len(s.state.seen)
    BY <1>2
<1> QED
    BY <1>1, <1>3, DropOldestIndexed DEF EvictOverflow

\* A new id enters the window and the index together.
LEMMA AdmitIndexed ==
    ASSUME NEW s \in Store, Indexed(s), NEW id \in EventId, id \notin s.index, NEW now \in Nat
    PROVE  /\ Admit(s, id, now) \in Store
           /\ Indexed(Admit(s, id, now))
           /\ Admit(s, id, now).index \subseteq s.index \cup {id}
           /\ SameButWindow(s, Admit(s, id, now))
<1> DEFINE seen  == s.state.seen
           entry == [id |-> id, time |-> now]
           all   == Append(seen, entry)
           index == s.index \cup {id}
           t     == WithWindow(s, all, index)
<1>1. /\ seen \in Seq(SeenEntry) /\ s.index \in SUBSET EventId /\ Len(seen) \in Nat
      /\ DistinctIds(seen) /\ s.index = Ids(seen)
    BY DEF Store, State, Indexed
<1>2. entry \in SeenEntry
    BY DEF SeenEntry
<1>3. /\ all \in Seq(SeenEntry) /\ Len(all) = Len(seen) + 1
      /\ \A i \in 1..Len(seen) : all[i] = seen[i]
      /\ all[Len(seen) + 1] = entry
    BY <1>1, <1>2, AppendProperties
<1>4. \A i \in 1..Len(seen) : seen[i].id # id
    BY <1>1 DEF Ids
<1>5. DistinctIds(all)
  <2> HIDE DEF all
  <2>1. all[Len(seen) + 1].id = id
      BY <1>3
  <2>2. \A i \in 1..Len(all) : i \in 1..Len(seen) \/ i = Len(seen) + 1
      BY <1>1, <1>3
  <2>3. \A i, j \in 1..Len(seen) : all[i].id = all[j].id => i = j
      BY <1>1, <1>3 DEF DistinctIds
  <2>4. \A i \in 1..Len(seen) : all[i].id # all[Len(seen) + 1].id
      BY <1>3, <1>4, <2>1
  <2> QED
      BY <2>2, <2>3, <2>4 DEF DistinctIds
<1>6. index = Ids(all)
  <2>1. ASSUME NEW x \in index PROVE \E i \in 1..Len(all) : x = all[i].id
    <3>1. CASE x = id
        BY <1>1, <1>3, <3>1
    <3>2. CASE x \in Ids(seen)
        BY <1>1, <1>3, <3>2, IdsMember
    <3> QED
        BY <1>1, <3>1, <3>2
  <2>2. ASSUME NEW i \in 1..Len(all) PROVE all[i].id \in index
    <3>1. CASE i = Len(seen) + 1
        BY <1>3, <3>1
    <3>2. CASE i \in 1..Len(seen)
        BY <1>1, <1>3, <3>2, IdsMember
    <3> QED
        BY <1>1, <1>3, <3>1, <3>2
  <2>3. \A x : x \in Ids(all) <=> \E i \in 1..Len(all) : x = all[i].id
      BY <1>3, IdsMember
  <2> HIDE DEF all, index
  <2>4. \A x : x \in index <=> x \in Ids(all)
      BY <2>1, <2>2, <2>3
  <2> QED
      BY <2>4, Zenon
<1>7. t \in Store /\ Indexed(t) /\ t.index = index /\ SameButWindow(s, t)
  <2>1. index \in SUBSET EventId
      BY <1>1
  <2> HIDE DEF all, index
  <2> QED
      BY <1>3, <1>5, <1>6, <2>1, WithWindowType DEF Indexed
<1>8. Admit(s, id, now) = EvictOverflow(t)
    BY Zenon DEF Admit, WithWindow
<1> HIDE DEF t
<1> QED
    BY <1>7, <1>8, EvictOverflowIndexed DEF SameButWindow

\* markSeen keeps the index in step with the window, whatever it answers.
LEMMA MarkSeenIndexed ==
    ASSUME NEW s \in Store, Indexed(s), NEW id \in EventId, NEW now \in Nat
    PROVE  /\ MarkSeen(s, id, now) \in Store
           /\ Indexed(MarkSeen(s, id, now))
           /\ MarkSeen(s, id, now).index \subseteq s.index \cup {id}
           /\ SameButWindow(s, MarkSeen(s, id, now))
<1> DEFINE s1 == EvictExpired(s, now)
<1>1. s1 \in Store /\ Indexed(s1) /\ s1.index \subseteq s.index /\ SameButWindow(s, s1)
    BY EvictExpiredIndexed
<1>2. MarkSeen(s, id, now) = IF id \in s1.index THEN s1 ELSE Admit(s1, id, now)
    BY DEF MarkSeen
<1> HIDE DEF s1
<1> QED
    BY <1>1, <1>2, AdmitIndexed DEF SameButWindow

-----------------------------------------------------------------------------
(* Which entries a method takes out of the window: some of the oldest.      *)

\* kept is seen without its n oldest entries.
Cut(kept, seen, n) ==
    /\ n \in 0..Len(seen)
    /\ Len(kept) = Len(seen) - n
    /\ \A i \in 1..Len(kept) : kept[i] = seen[n + i]

Older(entry, now, ttl) == ttl > 0 /\ entry.time < now - ttl

\* What was admitted after an entry that is young enough is young enough.
LEMMA YoungerStays ==
    ASSUME NEW a, NEW b, NEW now, NEW ttl,
           a.time \in Nat, b.time \in Nat, now \in Nat, ttl \in Nat,
           a.time <= b.time, ~Older(a, now, ttl)
    PROVE  ~Older(b, now, ttl)
<1> DEFINE x == a.time
           y == b.time
<1>1. x \in Nat /\ y \in Nat /\ x <= y /\ ~(ttl > 0 /\ x < now - ttl)
    BY DEF Older
<1>2. ~(ttl > 0 /\ y < now - ttl)
  <2> HIDE DEF x, y
  <2> QED
      BY <1>1
<1> QED
    BY <1>2 DEF Older

\* DropOldest takes the n oldest out of the window.
LEMMA DropOldestCut ==
    ASSUME NEW s \in Store, NEW n \in 0..Len(s.state.seen)
    PROVE  Cut(DropOldest(s, n).state.seen, s.state.seen, n)
<1> DEFINE seen == s.state.seen
           kept == SubSeq(seen, n + 1, Len(seen))
<1>1. seen \in Seq(SeenEntry)
    BY DEF Store, State
<1>2. Len(kept) = Len(seen) - n /\ \A i \in 1..Len(seen) - n : kept[i] = seen[n + i]
    BY <1>1
<1>3. DropOldest(s, n).state.seen = kept
    BY DEF DropOldest, Store, State
<1> QED
    BY <1>1, <1>2, <1>3 DEF Cut

\* What the eviction by age takes out is older than the ttl, and it stops at the
\* first entry that is not.
LEMMA EvictExpiredCut ==
    ASSUME NEW s \in Store, NEW now \in Nat
    PROVE  \E n \in 0..Len(s.state.seen) :
               /\ Cut(EvictExpired(s, now).state.seen, s.state.seen, n)
               /\ \A i \in 1..n : Older(s.state.seen[i], now, s.ttl)
               /\ n < Len(s.state.seen) => ~Older(s.state.seen[n + 1], now, s.ttl)
<1> DEFINE seen  == s.state.seen
           fresh == {i \in DOMAIN seen : seen[i].time >= now - s.ttl}
           n     == ExpiredPrefix(s, now)
<1>1. seen \in Seq(SeenEntry) /\ s.ttl \in Nat /\ Len(seen) \in Nat
    BY DEF Store, State
<1>2. \A i \in 1..Len(seen) : seen[i].time \in Nat
  <2>1. \A i \in 1..Len(seen) : seen[i] \in SeenEntry
      BY <1>1
  <2> QED
      BY <2>1 DEF SeenEntry
<1>3. n \in 0..Len(seen)
    BY ExpiredPrefixRange
<1>4. CASE s.ttl = 0
  <2>1. EvictExpired(s, now) = s
      BY <1>4 DEF EvictExpired
  <2>2. Cut(s.state.seen, s.state.seen, 0)
      BY <1>1 DEF Cut
  <2> QED
      BY <1>1, <1>4, <2>1, <2>2 DEF Older
<1>5. CASE s.ttl # 0
  <2>1. EvictExpired(s, now) = DropOldest(s, n)
      BY <1>1, <1>5 DEF EvictExpired
  <2>2. Cut(EvictExpired(s, now).state.seen, seen, n)
      BY <1>3, <2>1, DropOldestCut
  <2>3. fresh \in SUBSET Nat /\ fresh \subseteq 1..Len(seen)
      BY <1>1
  <2>4. CASE fresh = {}
    <3>1. n = Len(seen)
        BY <2>4 DEF ExpiredPrefix
    <3>2. \A i \in 1..n : Older(seen[i], now, s.ttl)
        BY <1>1, <1>2, <1>5, <2>4, <3>1 DEF Older
    <3> QED
        BY <1>1, <1>3, <2>2, <3>1, <3>2
  <2>5. CASE fresh # {}
    <3>1. Min(fresh) \in fresh /\ \A y \in fresh : Min(fresh) <= y
      <4> HIDE DEF fresh
      <4> QED
        BY <2>3, <2>5, MinOfNat
    <3>2. n = Min(fresh) - 1
        BY <2>5 DEF ExpiredPrefix
    <3>3. \A i \in 1..n : Older(seen[i], now, s.ttl)
      <4>1. \A i \in 1..n : i \in 1..Len(seen) /\ i \notin fresh
        <5> HIDE DEF fresh, n, seen
        <5>1. Min(fresh) \in Nat /\ n \in Nat
          <6>1. Min(fresh) \in Nat
              BY <2>3, <3>1
          <6>2. n \in Nat
              BY <1>3
          <6> QED
              BY <6>1, <6>2
        <5>2. \A i \in 1..n : i < Min(fresh)
            BY <3>2, <5>1
        <5> QED
          BY <1>1, <1>3, <3>1, <5>1, <5>2
      <4> QED
        BY <1>1, <1>2, <1>5, <4>1 DEF Older
    <3>4. ~Older(seen[n + 1], now, s.ttl)
      <4>1. n + 1 \in fresh
        <5> HIDE DEF fresh, n, seen
        <5>1. Min(fresh) \in Nat
            BY <2>3, <3>1
        <5>2. n + 1 = Min(fresh)
            BY <3>2, <5>1
        <5> QED
            BY <3>1, <5>2
      <4> QED
          BY <1>1, <1>2, <2>3, <4>1 DEF Older
    <3> QED
        BY <1>3, <2>2, <3>3, <3>4
  <2> QED
      BY <2>4, <2>5
<1> QED
    BY <1>4, <1>5

\* An admission appends to the window, which loses what exceeds its size.
LEMMA AdmitCut ==
    ASSUME NEW s \in Store, NEW id \in EventId, NEW now \in Nat
    PROVE  LET all == Append(s.state.seen, [id |-> id, time |-> now])
           IN  \E n \in 0..Len(all) :
                   /\ Cut(Admit(s, id, now).state.seen, all, n)
                   /\ Len(Admit(s, id, now).state.seen) <= s.maxSeen
                   /\ n > 0 => Len(Admit(s, id, now).state.seen) = s.maxSeen
<1> DEFINE entry == [id |-> id, time |-> now]
           all   == Append(s.state.seen, entry)
           t     == WithWindow(s, all, s.index \cup {id})
<1>1. all \in Seq(SeenEntry) /\ Len(all) \in Nat
  <2>1. entry \in SeenEntry
      BY DEF SeenEntry
  <2> QED
      BY <2>1 DEF Store, State
<1>2. t \in Store /\ t.state.seen = all /\ t.maxSeen = s.maxSeen /\ t.maxSeen \in Nat
  <2>1. s.index \cup {id} \in SUBSET EventId
      BY DEF Store
  <2> HIDE DEF all
  <2> QED
      BY <1>1, <2>1, WithWindowType DEF SameButWindow, Store
<1>3. Admit(s, id, now) = EvictOverflow(t)
    BY Zenon DEF Admit, WithWindow
<1> HIDE DEF t, all
<1>4. CASE Len(all) > s.maxSeen
  <2>1. EvictOverflow(t) = DropOldest(t, Len(all) - s.maxSeen)
      BY <1>2, <1>4 DEF EvictOverflow
  <2>2. Len(all) - s.maxSeen \in 0..Len(all)
      BY <1>1, <1>2, <1>4
  <2>3. Cut(Admit(s, id, now).state.seen, all, Len(all) - s.maxSeen)
      BY <1>2, <1>3, <2>1, <2>2, DropOldestCut
  <2>4. Len(Admit(s, id, now).state.seen) = s.maxSeen
      BY <1>1, <1>2, <2>3 DEF Cut
  <2> QED
      BY <1>2, <2>2, <2>3, <2>4 DEF all
<1>5. CASE ~(Len(all) > s.maxSeen)
  <2>1. Admit(s, id, now).state.seen = all
      BY <1>2, <1>3, <1>5 DEF EvictOverflow
  <2>2. Cut(all, all, 0)
      BY <1>1 DEF Cut
  <2> QED
      BY <1>1, <1>2, <1>5, <2>1, <2>2 DEF all
<1> QED
    BY <1>4, <1>5

\* When the entries are in the order of their times, eviction by age leaves
\* the ids of those that are young enough, and these are refused.
LEMMA RefusedIds ==
    ASSUME NEW s \in Store, Indexed(s), NEW now \in Nat, NEW id \in EventId,
           \A i, j \in 1..Len(s.state.seen) :
               i <= j => s.state.seen[i].time <= s.state.seen[j].time
    PROVE  ~IsNew(s, id, now) <=>
               \E i \in 1..Len(s.state.seen) :
                   s.state.seen[i].id = id /\ ~Older(s.state.seen[i], now, s.ttl)
<1> DEFINE seen == s.state.seen
           t    == EvictExpired(s, now)
<1>1. seen \in Seq(SeenEntry) /\ s.ttl \in Nat /\ Len(seen) \in Nat
    BY DEF Store, State
<1>2. \A i \in 1..Len(seen) : seen[i].time \in Nat
  <2>1. \A i \in 1..Len(seen) : seen[i] \in SeenEntry
      BY <1>1
  <2> QED
      BY <2>1 DEF SeenEntry
<1>3. t \in Store /\ t.index = Ids(t.state.seen) /\ t.state.seen \in Seq(SeenEntry)
    BY EvictExpiredIndexed DEF Indexed, Store, State
<1>4. PICK n \in 0..Len(seen) :
        /\ Cut(t.state.seen, seen, n)
        /\ \A i \in 1..n : Older(seen[i], now, s.ttl)
        /\ n < Len(seen) => ~Older(seen[n + 1], now, s.ttl)
    BY EvictExpiredCut
<1>5. ~IsNew(s, id, now) <=> \E i \in 1..Len(t.state.seen) : id = t.state.seen[i].id
    BY <1>3, IdsMember DEF IsNew
<1> HIDE DEF t
<1>6. ASSUME NEW i \in 1..Len(t.state.seen), id = t.state.seen[i].id
      PROVE  \E j \in 1..Len(seen) : seen[j].id = id /\ ~Older(seen[j], now, s.ttl)
  <2>1. n + i \in 1..Len(seen) /\ n + 1 \in 1..Len(seen) /\ t.state.seen[i] = seen[n + i] /\ n < Len(seen)
      BY <1>1, <1>4 DEF Cut
  <2>2. seen[n + 1].time <= seen[n + i].time
    <3>1. n + 1 <= n + i
        BY <1>1, <1>3, <1>6
    <3> QED
        BY <2>1, <3>1
  <2>3. ~Older(seen[n + i], now, s.ttl)
    <3>1. seen[n + 1].time \in Nat /\ seen[n + i].time \in Nat
        BY <1>2, <2>1
    <3>2. ~Older(seen[n + 1], now, s.ttl)
        BY <1>4, <2>1
    <3> QED
        BY <1>1, <2>2, <3>1, <3>2, YoungerStays
  <2> QED
      BY <1>6, <2>1, <2>3
<1>7. ASSUME NEW j \in 1..Len(seen), seen[j].id = id, ~Older(seen[j], now, s.ttl)
      PROVE  \E i \in 1..Len(t.state.seen) : id = t.state.seen[i].id
  <2>1. ~(j <= n)
      BY <1>1, <1>4, <1>7
  <2>2. j - n \in 1..Len(t.state.seen) /\ t.state.seen[j - n] = seen[j]
      BY <1>1, <1>4, <2>1 DEF Cut
  <2> QED
      BY <1>7, <2>2
<1> QED
    BY <1>5, <1>6, <1>7

\* The ids of the newest entries, oldest first, once id is one of at most size.
Rotated(window, id, size) ==
    IF Len(window) < size THEN Append(window, id) ELSE Append(Tail(window), id)

Mirrors(seen, window) ==
    Len(seen) = Len(window) /\ \A i \in 1..Len(window) : seen[i].id = window[i]

\* The ids of a window are those of the sequence that mirrors it.
LEMMA MirrorsIds ==
    ASSUME NEW seen \in Seq(SeenEntry), NEW window \in Seq(EventId), Mirrors(seen, window)
    PROVE  Ids(seen) = {window[i] : i \in DOMAIN window}
<1>1. \A x : x \in Ids(seen) <=> \E i \in 1..Len(seen) : x = seen[i].id
    BY IdsMember
<1>2. DOMAIN window = 1..Len(window)
    OBVIOUS
<1> QED
    BY <1>1, <1>2 DEF Mirrors

\* Without a ttl the window is the newest ids admitted, as many as it holds: a new one
\* enters, and takes the place of the oldest when there is no room.
LEMMA MarkSeenRotates ==
    ASSUME NEW s \in Store, Indexed(s), s.ttl = 0, NEW id \in EventId, NEW now \in Nat,
           NEW window \in Seq(EventId), Mirrors(s.state.seen, window), Len(window) <= s.maxSeen
    PROVE  /\ IsNew(s, id, now) <=> \A i \in DOMAIN window : window[i] # id
           /\ IsNew(s, id, now) =>
                /\ Rotated(window, id, s.maxSeen) \in Seq(EventId)
                /\ Len(Rotated(window, id, s.maxSeen)) <= s.maxSeen
                /\ Mirrors(MarkSeen(s, id, now).state.seen, Rotated(window, id, s.maxSeen))
<1> DEFINE seen  == s.state.seen
           entry == [id |-> id, time |-> now]
           all   == Append(seen, entry)
           new   == Admit(s, id, now).state.seen
           next  == Rotated(window, id, s.maxSeen)
<1>1. EvictExpired(s, now) = s
    BY DEF EvictExpired
<1>2. seen \in Seq(SeenEntry) /\ s.maxSeen \in Nat \ {0} /\ entry \in SeenEntry
    BY DEF Store, State, SeenEntry
<1>3. IsNew(s, id, now) <=> id \notin Ids(seen)
    BY <1>1 DEF IsNew, Indexed
<1>4. IsNew(s, id, now) <=> \A i \in DOMAIN window : window[i] # id
    BY <1>2, <1>3, MirrorsIds
<1>5. IsNew(s, id, now) => MarkSeen(s, id, now) = Admit(s, id, now)
    BY <1>1 DEF MarkSeen, IsNew
<1>6. /\ all \in Seq(SeenEntry) /\ Len(all) = Len(seen) + 1 /\ Len(seen) \in Nat
      /\ \A i \in 1..Len(seen) : all[i] = seen[i]
      /\ all[Len(seen) + 1].id = id
    BY <1>2, AppendProperties
<1>7. PICK n \in 0..Len(all) : /\ Cut(new, all, n)
                               /\ Len(new) <= s.maxSeen
                               /\ n > 0 => Len(new) = s.maxSeen
    BY AdmitCut
<1> HIDE DEF seen, entry, all, new
<1>8. Len(seen) = Len(window) /\ \A i \in 1..Len(window) : seen[i].id = window[i]
    BY DEF Mirrors, seen
<1>9. Len(new) = Len(all) - n /\ \A i \in 1..Len(new) : new[i] = all[n + i]
    BY <1>7 DEF Cut
<1>10. CASE Len(window) < s.maxSeen
  <2>1. n = 0
      BY <1>2, <1>6, <1>7, <1>8, <1>9, <1>10
  <2>2. /\ next \in Seq(EventId) /\ Len(next) = Len(window) + 1
        /\ \A i \in 1..Len(window) : next[i] = window[i]
        /\ next[Len(window) + 1] = id
      BY <1>10, AppendProperties DEF Rotated
  <2> HIDE DEF next
  <2>3. ASSUME NEW i \in 1..Len(next) PROVE new[i].id = next[i]
    <3>1. i \in 1..Len(new) /\ new[i] = all[i]
        BY <1>6, <1>8, <1>9, <2>1, <2>2
    <3>2. CASE i \in 1..Len(window)
        BY <1>6, <1>8, <2>2, <3>1, <3>2
    <3>3. CASE i = Len(window) + 1
        BY <1>6, <1>8, <2>2, <3>1, <3>3
    <3> QED
        BY <2>2, <3>2, <3>3
  <2>4. Len(new) = Len(next)
      BY <1>6, <1>8, <1>9, <2>1, <2>2
  <2>5. Len(next) <= s.maxSeen
      BY <1>2, <1>10, <2>2
  <2>6. Mirrors(new, next)
      BY <2>3, <2>4 DEF Mirrors
  <2> QED
      BY <1>4, <1>5, <2>2, <2>5, <2>6 DEF next, new
<1>11. CASE ~(Len(window) < s.maxSeen)
  <2>1. PICK len \in Nat : len = Len(window) /\ len = s.maxSeen /\ len > 0
      BY <1>2, <1>11
  <2>2. n = 1
      BY <1>6, <1>7, <1>8, <1>9, <2>1
  <2>3. PICK rest : rest = Tail(window)
      OBVIOUS
  <2>4. /\ rest \in Seq(EventId) /\ Len(rest) = len - 1
        /\ \A i \in 1..(len - 1) : rest[i] = window[i + 1]
    <3>0. Len(<<>>) = 0
        OBVIOUS
    <3>1. window # <<>>
      <4>1. Len(window) # 0
          BY <2>1
      <4> QED
          BY <3>0, <4>1, Zenon
    <3>2. /\ Tail(window) \in Seq(EventId) /\ Len(Tail(window)) = Len(window) - 1
          /\ \A i \in 1..Len(Tail(window)) : Tail(window)[i] = window[i + 1]
        BY <3>1, HeadTailProperties
    <3> QED
        BY ONLY <2>1, <2>3, <3>2
  <2>5. next = Append(rest, id)
      BY <1>11, <2>3 DEF Rotated
  <2>6. /\ next \in Seq(EventId) /\ Len(next) = len
        /\ \A i \in 1..(len - 1) : next[i] = rest[i]
        /\ next[len] = id
    <3>1. /\ Append(rest, id) \in Seq(EventId) /\ Len(Append(rest, id)) = Len(rest) + 1
          /\ \A i \in 1..Len(rest) : Append(rest, id)[i] = rest[i]
          /\ Append(rest, id)[Len(rest) + 1] = id
        BY <2>4, AppendProperties
    <3> QED
        BY <2>1, <2>4, <2>5, <3>1
  <2> HIDE DEF next
  <2>7. ASSUME NEW i \in 1..Len(next) PROVE new[i].id = next[i]
    <3>1. i \in 1..Len(new) /\ new[i] = all[1 + i]
        BY <1>6, <1>8, <1>9, <2>1, <2>2, <2>6
    <3>2. CASE i \in 1..(len - 1)
      <4>1. 1 + i = i + 1 /\ i + 1 \in 1..Len(seen) /\ i + 1 \in 1..Len(window)
          BY <1>8, <2>1, <3>2
      <4>2. all[i + 1].id = window[i + 1]
          BY <1>6, <1>8, <4>1
      <4> QED
          BY <2>4, <2>6, <3>1, <3>2, <4>1, <4>2
    <3>3. CASE i = len
      <4>1. 1 + i = Len(seen) + 1
          BY <1>8, <2>1, <3>3
      <4> QED
          BY <1>6, <2>6, <3>1, <3>3, <4>1
    <3> QED
        BY <2>1, <2>6, <3>2, <3>3
  <2>8. Len(new) = Len(next)
      BY <1>6, <1>8, <1>9, <2>1, <2>2, <2>6
  <2>9. Len(next) <= s.maxSeen
      BY <2>1, <2>6
  <2>10. Mirrors(new, next)
      BY <2>7, <2>8 DEF Mirrors
  <2> QED
      BY <1>4, <1>5, <2>6, <2>9, <2>10 DEF next, new
<1> QED
    BY <1>10, <1>11

-----------------------------------------------------------------------------
(* The other methods leave the window and the index alone.                  *)

SameWindow(s, t) ==
    /\ t.state.seen = s.state.seen
    /\ t.index = s.index
    /\ t.maxSeen = s.maxSeen
    /\ t.ttl = s.ttl

\* A subscription without a file starts empty.
LEMMA EmptyStateType == EmptyState \in State /\ DistinctIds(EmptyState.seen)
<1>1. <<>> \in Seq(Session) /\ <<>> \in Seq(SeenEntry) /\ <<>> \in Seq(StoredEvent) /\ Len(<<>>) = 0
    OBVIOUS
<1> QED
    BY <1>1 DEF EmptyState, State, DistinctIds

\* Opening a store indexes the window of its file, and trims nothing.
LEMMA NewSubStoreIndexed ==
    ASSUME NEW file \in State, DistinctIds(file.seen), NEW n \in Int, NEW ttl \in Nat
    PROVE  /\ NewSubStore(file, n, ttl) \in Store
           /\ Indexed(NewSubStore(file, n, ttl))
           /\ NewSubStore(file, n, ttl).state = file
           /\ NewSubStore(file, n, ttl).maxSeen = WindowSize(n)
<1>1. WindowSize(n) \in Nat \ {0}
    BY DefaultMaxEntriesAssumption DEF WindowSize
<1>2. Ids(file.seen) \in SUBSET EventId
    BY IdsType DEF State
<1> QED
    BY <1>1, <1>2 DEF NewSubStore, LoadIndex, Store, Indexed

\* bind changes the one binding and nothing else.
LEMMA BindType ==
    ASSUME NEW s \in Store, NEW key \in Key, NEW sid \in Session
    PROVE  /\ Bind(s, key, sid) \in Store
           /\ SameWindow(s, Bind(s, key, sid))
           /\ Bind(s, key, sid).state.bindings = [s.state.bindings EXCEPT ![key] = sid]
           /\ Bind(s, key, sid).state.events = s.state.events
           /\ Bind(s, key, sid).state.created = s.state.created
<1>1. [s.state.bindings EXCEPT ![key] = sid] \in [Key -> Session \cup {None}]
    BY DEF Store, State
<1>2. [s.state EXCEPT !.bindings = [s.state.bindings EXCEPT ![key] = sid]] \in State
    BY <1>1 DEF Store, State
<1>3. [s EXCEPT !.state = [s.state EXCEPT !.bindings = [s.state.bindings EXCEPT ![key] = sid]]] \in Store
    BY <1>2 DEF Store
<1> QED
    BY <1>1, <1>3 DEF Store, State, SameWindow, Bind

\* unbind changes the one binding and nothing else.
LEMMA UnbindType ==
    ASSUME NEW s \in Store, NEW key \in Key
    PROVE  /\ Unbind(s, key) \in Store
           /\ SameWindow(s, Unbind(s, key))
           /\ Unbind(s, key).state.bindings = [s.state.bindings EXCEPT ![key] = None]
           /\ Unbind(s, key).state.events = s.state.events
           /\ Unbind(s, key).state.created = s.state.created
<1>1. [s.state.bindings EXCEPT ![key] = None] \in [Key -> Session \cup {None}]
    BY DEF Store, State
<1>2. [s.state EXCEPT !.bindings = [s.state.bindings EXCEPT ![key] = None]] \in State
    BY <1>1 DEF Store, State
<1>3. [s EXCEPT !.state = [s.state EXCEPT !.bindings = [s.state.bindings EXCEPT ![key] = None]]] \in Store
    BY <1>2 DEF Store
<1> QED
    BY <1>1, <1>3 DEF Store, State, SameWindow, Unbind

\* addCreated appends to the list of created sessions and changes nothing else.
LEMMA AddCreatedType ==
    ASSUME NEW s \in Store, NEW sid \in Session
    PROVE  /\ AddCreated(s, sid) \in Store
           /\ SameWindow(s, AddCreated(s, sid))
           /\ AddCreated(s, sid).state.bindings = s.state.bindings
           /\ AddCreated(s, sid).state.events = s.state.events
           /\ AddCreated(s, sid).state.created = Append(s.state.created, sid)
<1>1. Append(s.state.created, sid) \in Seq(Session)
    BY DEF Store, State
<1>2. [s.state EXCEPT !.created = Append(s.state.created, sid)] \in State
    BY <1>1 DEF Store, State
<1>3. [s EXCEPT !.state = [s.state EXCEPT !.created = Append(s.state.created, sid)]] \in Store
    BY <1>2 DEF Store
<1> QED
    BY <1>1, <1>3 DEF Store, State, SameWindow, AddCreated

\* The candidates of a router are sessions of the list.
LEMMA RecentCreatedListed ==
    ASSUME NEW s \in Store, NEW n, NEW sid \in RecentCreated(s, n)
    PROVE  sid \in Session /\ \E i \in 1..Len(s.state.created) : sid = s.state.created[i]
<1>1. s.state.created \in Seq(Session)
    BY DEF Store, State
<1>2. PICK i \in {j \in 1..Len(s.state.created) : j > Len(s.state.created) - n} : sid = s.state.created[i]
    BY Zenon DEF RecentCreated
<1> QED
    BY <1>1, <1>2

-----------------------------------------------------------------------------
(* The replay window.                                                       *)

\* Every event id stands once in the replay window.
DistinctEvents(events) ==
    \A i, j \in 1..Len(events) : events[i].event.id = events[j].event.id => i = j

\* Removing an element closes the gap.
LEMMA RemoveAtProperties ==
    ASSUME NEW S, NEW seq \in Seq(S), NEW n \in 1..Len(seq)
    PROVE  /\ RemoveAt(seq, n) \in Seq(S)
           /\ Len(RemoveAt(seq, n)) = Len(seq) - 1
           /\ \A i \in 1..Len(seq) - 1 : RemoveAt(seq, n)[i] = seq[IF i < n THEN i ELSE i + 1]
<1> DEFINE front == SubSeq(seq, 1, n - 1)
           back  == SubSeq(seq, n + 1, Len(seq))
<1>1. front \in Seq(S) /\ Len(front) = n - 1 /\ \A i \in 1..n - 1 : front[i] = seq[i]
    OBVIOUS
<1>2. back \in Seq(S) /\ Len(back) = Len(seq) - n /\ \A i \in 1..Len(seq) - n : back[i] = seq[n + i]
    OBVIOUS
<1>3. RemoveAt(seq, n) = front \o back
    BY DEF RemoveAt
<1> HIDE DEF front, back
<1>4. /\ front \o back \in Seq(S)
      /\ Len(front \o back) = Len(front) + Len(back)
      /\ \A i \in 1..Len(front) + Len(back) :
            (front \o back)[i] = IF i <= Len(front) THEN front[i] ELSE back[i - Len(front)]
    BY <1>1, <1>2, ConcatProperties
<1>6. Len(seq) \in Nat /\ n \in Nat /\ n >= 1 /\ n <= Len(seq) /\ Len(front) + Len(back) = Len(seq) - 1
    BY <1>1, <1>2
<1>5. ASSUME NEW i \in 1..Len(seq) - 1
      PROVE  (front \o back)[i] = seq[IF i < n THEN i ELSE i + 1]
  <2>1. CASE i < n
      BY <1>1, <1>4, <1>6, <2>1
  <2>2. CASE i >= n
    <3>1. (front \o back)[i] = back[i - (n - 1)] /\ i - (n - 1) \in 1..Len(seq) - n
        BY <1>1, <1>4, <1>6, <2>2
    <3>2. n + (i - (n - 1)) = i + 1 /\ ~(i < n)
        BY <1>6, <2>2
    <3> QED
        BY <1>2, <3>1, <3>2
  <2> QED
      BY <1>6, <2>1, <2>2
<1> QED
    BY <1>3, <1>4, <1>5, <1>6

\* What is left of a replay window without an event.
LEMMA WithoutEventProperties ==
    ASSUME NEW events \in Seq(StoredEvent), DistinctEvents(events), NEW id
    PROVE  /\ WithoutEvent(events, id) \in Seq(StoredEvent)
           /\ Len(WithoutEvent(events, id)) <= Len(events)
           /\ DistinctEvents(WithoutEvent(events, id))
           /\ \A i \in 1..Len(WithoutEvent(events, id)) : WithoutEvent(events, id)[i].event.id # id
<1> DEFINE same == {i \in DOMAIN events : events[i].event.id = id}
           n    == Min(same)
<1>1. DOMAIN events = 1..Len(events) /\ Len(events) \in Nat
    OBVIOUS
<1>2. CASE same = {}
    BY <1>1, <1>2 DEF WithoutEvent
<1>3. CASE same # {}
  <2>1. n \in same
    <3>1. same \in SUBSET Nat
        BY <1>1
    <3> HIDE DEF same
    <3> QED
        BY <1>3, <3>1, MinOfNat
  <2>2. n \in 1..Len(events) /\ events[n].event.id = id
      BY <2>1, <1>1
  <2>3. WithoutEvent(events, id) = RemoveAt(events, n)
      BY <1>3 DEF WithoutEvent
  <2> HIDE DEF n, same
  <2> DEFINE rest == RemoveAt(events, n)
             from(i) == IF i < n THEN i ELSE i + 1
  <2>4. /\ rest \in Seq(StoredEvent) /\ Len(rest) = Len(events) - 1
        /\ \A i \in 1..Len(rest) : rest[i] = events[from(i)]
      BY <2>2, RemoveAtProperties
  <2> HIDE DEF rest
  <2>5. \A i \in 1..Len(rest) : from(i) \in 1..Len(events) /\ from(i) # n
      BY <1>1, <2>2, <2>4
  <2>6. \A i \in 1..Len(rest) : rest[i].event.id # id
      BY <2>2, <2>4, <2>5 DEF DistinctEvents
  <2>7. ASSUME NEW i \in 1..Len(rest), NEW j \in 1..Len(rest), rest[i].event.id = rest[j].event.id
        PROVE  i = j
    <3>1. from(i) = from(j)
        BY <2>4, <2>5, <2>7 DEF DistinctEvents
    <3> QED
        BY <2>2, <3>1
  <2> QED
      BY <2>3, <2>4, <2>6, <2>7, <1>1 DEF DistinctEvents, rest
<1> QED
    BY <1>2, <1>3

\* recordEvent leaves at most maxSeen payloads, one per event id.
LEMMA RecordEventProperties ==
    ASSUME NEW s \in Store, DistinctEvents(s.state.events), NEW key \in Key \cup {None}, NEW e \in Event
    PROVE  /\ RecordEvent(s, key, e) \in Store
           /\ SameWindow(s, RecordEvent(s, key, e))
           /\ RecordEvent(s, key, e).state.bindings = s.state.bindings
           /\ RecordEvent(s, key, e).state.created = s.state.created
           /\ DistinctEvents(RecordEvent(s, key, e).state.events)
           /\ Len(RecordEvent(s, key, e).state.events) <= s.maxSeen
<1> DEFINE rest   == WithoutEvent(s.state.events, e.id)
           entry  == [key |-> key, event |-> e]
           all    == Append(rest, entry)
           n      == Len(all)
           kept   == SubSeq(all, n - s.maxSeen + 1, n)
           events == IF n > s.maxSeen THEN kept ELSE all
<1>1. /\ rest \in Seq(StoredEvent) /\ Len(rest) \in Nat /\ DistinctEvents(rest)
      /\ \A i \in 1..Len(rest) : rest[i].event.id # e.id
    BY WithoutEventProperties DEF Store, State
<1>2. entry \in StoredEvent /\ entry.event.id = e.id
    BY DEF StoredEvent
<1>3. s.maxSeen \in Nat \ {0}
    BY DEF Store
<1> HIDE DEF rest, entry
<1>4. /\ all \in Seq(StoredEvent) /\ n = Len(rest) + 1 /\ n \in Nat
      /\ \A i \in 1..Len(rest) : all[i] = rest[i]
      /\ all[n] = entry
    BY <1>1, <1>2, AppendProperties
<1> HIDE DEF all, n
<1>5. DistinctEvents(all)
  <2>1. \A i \in 1..Len(all) : i \in 1..Len(rest) \/ i = n
      BY <1>1, <1>4 DEF n
  <2>2. \A i, j \in 1..Len(rest) : all[i].event.id = all[j].event.id => i = j
      BY <1>1, <1>4 DEF DistinctEvents
  <2>3. \A i \in 1..Len(rest) : all[i].event.id # all[n].event.id
      BY <1>1, <1>2, <1>4
  <2> QED
      BY <2>1, <2>2, <2>3 DEF DistinctEvents
<1>6. events \in Seq(StoredEvent) /\ DistinctEvents(events) /\ Len(events) <= s.maxSeen
  <2>1. CASE n > s.maxSeen
    <3>1. /\ kept \in Seq(StoredEvent) /\ Len(kept) = s.maxSeen
          /\ \A i \in 1..s.maxSeen : kept[i] = all[n - s.maxSeen + i]
      <4> DEFINE m == n - s.maxSeen + 1
      <4>1. m \in 1..n /\ n = Len(all) /\ n - m + 1 = s.maxSeen
          BY <1>3, <1>4, <2>1 DEF n
      <4>2. /\ SubSeq(all, m, n) \in Seq(StoredEvent)
            /\ Len(SubSeq(all, m, n)) = n - m + 1
            /\ \A i \in 1..n - m + 1 : SubSeq(all, m, n)[i] = all[m + i - 1]
        <5> HIDE DEF m
        <5> QED
          BY <1>4, <4>1
      <4>3. \A i \in 1..s.maxSeen : m + i - 1 = n - s.maxSeen + i
          BY <1>3, <1>4
      <4> QED
          BY <4>1, <4>2, <4>3
    <3> HIDE DEF kept
    <3>2. ASSUME NEW i \in 1..Len(kept), NEW j \in 1..Len(kept), kept[i].event.id = kept[j].event.id
          PROVE  i = j
      <4>1. /\ n - s.maxSeen + i \in 1..Len(all) /\ n - s.maxSeen + j \in 1..Len(all)
            /\ all[n - s.maxSeen + i].event.id = all[n - s.maxSeen + j].event.id
          BY <1>3, <1>4, <2>1, <3>1, <3>2 DEF n
      <4>2. n - s.maxSeen + i = n - s.maxSeen + j
          BY <1>5, <4>1 DEF DistinctEvents
      <4> QED
          BY <1>3, <1>4, <3>1, <4>2
    <3> QED
        BY <1>3, <2>1, <3>1, <3>2 DEF DistinctEvents
  <2>2. CASE ~(n > s.maxSeen)
      BY <1>3, <1>4, <1>5, <2>2 DEF n
  <2> QED
      BY <2>1, <2>2
<1>7. RecordEvent(s, key, e) = [s EXCEPT !.state = [s.state EXCEPT !.events = events]]
    BY Zenon DEF RecordEvent, events, kept, n, all, rest, entry
<1> HIDE DEF events
<1>8. [s.state EXCEPT !.events = events] \in State
    BY <1>6 DEF Store, State
<1>9. [s EXCEPT !.state = [s.state EXCEPT !.events = events]] \in Store
    BY <1>8 DEF Store
<1> QED
    BY <1>6, <1>7, <1>8, <1>9 DEF Store, State, SameWindow

\* The other entries of a replay window keep their places, counted from the end,
\* or come closer to it, when an event leaves.
LEMMA WithoutEventPlaces ==
    ASSUME NEW events \in Seq(StoredEvent), NEW id, NEW p \in 1..Len(events),
           events[p].event.id # id
    PROVE  \E q \in 1..Len(WithoutEvent(events, id)) :
               /\ WithoutEvent(events, id)[q] = events[p]
               /\ Len(WithoutEvent(events, id)) - q <= Len(events) - p
<1> DEFINE same == {i \in DOMAIN events : events[i].event.id = id}
           n    == Min(same)
<1>1. DOMAIN events = 1..Len(events) /\ Len(events) \in Nat
    OBVIOUS
<1>2. CASE same = {}
    BY <1>1, <1>2 DEF WithoutEvent
<1>3. CASE same # {}
  <2>1. n \in same
    <3>1. same \in SUBSET Nat
        BY <1>1
    <3> HIDE DEF same
    <3> QED
        BY <1>3, <3>1, MinOfNat
  <2>2. n \in 1..Len(events) /\ n # p
      BY <2>1, <1>1
  <2> DEFINE rest == RemoveAt(events, n)
  <2>3. WithoutEvent(events, id) = rest
      BY <1>3 DEF WithoutEvent
  <2> HIDE DEF n, same
  <2>4. /\ Len(rest) = Len(events) - 1
        /\ \A i \in 1..Len(events) - 1 : rest[i] = events[IF i < n THEN i ELSE i + 1]
      BY <2>2, RemoveAtProperties
  <2> HIDE DEF rest
  <2>5. CASE p < n
    <3>1. p \in 1..Len(rest) /\ Len(rest) - p <= Len(events) - p
        BY <1>1, <2>2, <2>4, <2>5
    <3>2. rest[p] = events[p]
        BY <2>4, <2>5, <3>1
    <3> QED
        BY <2>3, <3>1, <3>2
  <2>6. CASE ~(p < n)
    <3>1. p - 1 \in 1..Len(rest) /\ Len(rest) - (p - 1) <= Len(events) - p
          /\ ~(p - 1 < n) /\ (p - 1) + 1 = p
        BY <1>1, <2>2, <2>4, <2>6
    <3>2. rest[p - 1] = events[p]
        BY <2>4, <3>1
    <3> QED
        BY <2>3, <3>1, <3>2
  <2> QED
      BY <2>5, <2>6
<1> QED
    BY <1>2, <1>3

\* recordEvent puts the event at the end; another entry moves back by one place
\* at most, and is trimmed only from the place that the cap gives up.
LEMMA RecordEventPlaces ==
    ASSUME NEW s \in Store, DistinctEvents(s.state.events), NEW key \in Key \cup {None}, NEW e \in Event
    PROVE  LET old == s.state.events
               new == RecordEvent(s, key, e).state.events
           IN  /\ Len(new) \in Nat \ {0} /\ new[Len(new)].event = e
               /\ \A p \in 1..Len(old) :
                      old[p].event.id # e.id /\ (Len(old) - p) + 1 < s.maxSeen =>
                          \E q \in 1..Len(new) : new[q] = old[p] /\ Len(new) - q <= (Len(old) - p) + 1
<1> DEFINE old   == s.state.events
           rest  == WithoutEvent(old, e.id)
           entry == [key |-> key, event |-> e]
           all   == Append(rest, entry)
           n     == Len(all)
           new   == IF n > s.maxSeen THEN SubSeq(all, n - s.maxSeen + 1, n) ELSE all
           gone  == IF n > s.maxSeen THEN n - s.maxSeen ELSE 0
<1>1. /\ old \in Seq(StoredEvent) /\ Len(old) \in Nat
      /\ rest \in Seq(StoredEvent) /\ Len(rest) \in Nat
  <2>1. old \in Seq(StoredEvent)
      BY DEF Store, State
  <2> QED
      BY <2>1, WithoutEventProperties
<1>2. s.maxSeen \in Nat \ {0} /\ entry \in StoredEvent /\ entry.event = e
    BY DEF Store, StoredEvent
<1>3. RecordEvent(s, key, e).state.events = new
    BY DEF RecordEvent, Store, State
<1>4. \A p \in 1..Len(old) : old[p].event.id # e.id =>
          \E q \in 1..Len(rest) : rest[q] = old[p] /\ Len(rest) - q <= Len(old) - p
    BY <1>1, WithoutEventPlaces
<1> HIDE DEF rest, entry, old
<1>5. /\ all \in Seq(StoredEvent) /\ n = Len(rest) + 1 /\ n \in Nat
      /\ \A i \in 1..Len(rest) : all[i] = rest[i]
      /\ all[n] = entry
    BY <1>1, <1>2, AppendProperties
<1>6. /\ gone \in 0..n - 1 /\ Len(new) = n - gone
      /\ \A i \in 1..n - gone : new[i] = all[gone + i]
  <2>1. CASE n > s.maxSeen
    <3> DEFINE m == n - s.maxSeen + 1
    <3>1. m \in 1..n /\ n = Len(all) /\ n - m + 1 = s.maxSeen
        BY <1>2, <1>5, <2>1
    <3>2. /\ Len(SubSeq(all, m, n)) = n - m + 1
          /\ \A i \in 1..n - m + 1 : SubSeq(all, m, n)[i] = all[m + i - 1]
      <4> HIDE DEF m, all
      <4>1. all \in Seq(StoredEvent) /\ m \in 1..Len(all)
          BY <1>5, <3>1
      <4> QED
          BY <3>1, <4>1
    <3>3. \A i \in 1..s.maxSeen : m + i - 1 = gone + i
        BY <1>2, <1>5, <2>1
    <3>4. new = SubSeq(all, m, n) /\ gone = n - s.maxSeen
        BY <2>1
    <3>5. gone \in 0..n - 1 /\ n - gone = s.maxSeen
        BY <1>2, <1>5, <2>1
    <3> HIDE DEF all, n, new, gone, m
    <3>6. Len(new) = n - gone
        BY <3>1, <3>2, <3>4, <3>5
    <3>7. ASSUME NEW i \in 1..n - gone PROVE new[i] = all[gone + i]
      <4>1. i \in 1..s.maxSeen /\ i \in 1..n - m + 1
          BY <3>1, <3>5
      <4>2. SubSeq(all, m, n)[i] = all[m + i - 1] /\ m + i - 1 = gone + i
          BY <3>2, <3>3, <4>1
      <4> QED
          BY <3>4, <4>2
    <3> QED
        BY <3>5, <3>6, <3>7
  <2>2. CASE ~(n > s.maxSeen)
    <3>1. new = all /\ gone = 0 /\ Len(all) = n
        BY <2>2
    <3>2. n \in Nat /\ n >= 1
        BY <1>1, <1>5
    <3> HIDE DEF all, n, new, gone
    <3>3. \A i \in 1..n : 0 + i = i
        OBVIOUS
    <3> QED
        BY <3>1, <3>2, <3>3
  <2> QED
      BY <2>1, <2>2
<1>7. n > s.maxSeen => gone = n - s.maxSeen
    OBVIOUS
<1>8. ~(n > s.maxSeen) => gone = 0
    OBVIOUS
<1> HIDE DEF all, n, new, gone
<1>9. Len(new) \in Nat \ {0} /\ new[Len(new)].event = e
  <2>1. n - gone \in 1..n - gone /\ gone + (n - gone) = n
      BY <1>5, <1>6
  <2> QED
      BY <1>2, <1>5, <1>6, <2>1
<1>10. ASSUME NEW p \in 1..Len(old), old[p].event.id # e.id, (Len(old) - p) + 1 < s.maxSeen
       PROVE  \E q \in 1..Len(new) : new[q] = old[p] /\ Len(new) - q <= (Len(old) - p) + 1
  <2>1. PICK r \in 1..Len(rest) : rest[r] = old[p] /\ Len(rest) - r <= Len(old) - p
      BY <1>4, <1>10
  <2>2. n - r < s.maxSeen /\ n - r <= (Len(old) - p) + 1
      BY <1>1, <1>2, <1>5, <1>10, <2>1
  <2>3. r - gone \in 1..n - gone /\ gone + (r - gone) = r /\ (n - gone) - (r - gone) = n - r
      BY <1>1, <1>2, <1>5, <1>6, <1>7, <1>8, <2>2
  <2>4. new[r - gone] = old[p]
      BY <1>5, <1>6, <2>1, <2>3
  <2> QED
      BY <1>6, <2>2, <2>3, <2>4
<1> QED
    BY <1>3, <1>9, <1>10 DEF old

\* lookupEvent returns a recorded event or nothing.
LEMMA LookupEventType ==
    ASSUME NEW s \in Store, NEW target
    PROVE  LookupEvent(s, target) \in Event \cup {None}
<1> DEFINE events == s.state.events
           hits   == {i \in DOMAIN events : Selects(target, events[i])}
<1>1. events \in Seq(StoredEvent) /\ DOMAIN events = 1..Len(events) /\ Len(events) \in Nat
    BY DEF Store, State
<1>2. hits \in SUBSET (0..Len(events)) /\ hits \subseteq 1..Len(events)
    BY <1>1
<1>3. ASSUME hits # {} PROVE events[Max(hits)] \in StoredEvent
  <2> HIDE DEF hits
  <2>1. Max(hits) \in hits
      BY <1>1, <1>2, <1>3, MaxOfBounded
  <2>2. Max(hits) \in 1..Len(events)
      BY <1>2, <2>1
  <2> HIDE DEF events
  <2> QED
      BY <1>1, <2>2, ElementOfSeq
<1> QED
    BY <1>3 DEF LookupEvent, StoredEvent
=============================================================================
