------------------------ MODULE StoreLifecycle_proofs ------------------------
(***************************************************************************)
(* What holds of one store through its life, for any number of callers,    *)
(* events and window sizes, with a disk that fails or not: the types, the  *)
(* agreement of the index with the window, and the bound on the replay     *)
(* window.                                                                 *)
(*                                                                         *)
(* None of these is inductive alone: a reopened store is as good as the    *)
(* file it reads, so the inductive invariant says of the file what the     *)
(* properties say of the store.                                            *)
(*                                                                         *)
(* What the store answers is related to what it was told (HistoryInv): the *)
(* window is the end of the history of admissions, and what it lacks of it *)
(* has rotated out or expired; the same of the file, up to what is         *)
(* durable.  The refinement of DedupWindow and the agreement of a reopened *)
(* store with the one before it follow.  ReplayInv follows each id of the  *)
(* dedup window to its payload in the replay window.                       *)
(***************************************************************************)
EXTENDS StoreLifecycle, SubStore_proofs

\* What a file must be for a store opened from it to be right.
StateOK(state) ==
    /\ DistinctIds(state.seen)
    /\ DistinctEvents(state.events)
    /\ Len(state.events) <= MaxWindow

StoreOK(s) == Indexed(s) /\ StateOK(s.state) /\ s.maxSeen <= MaxWindow

Inv ==
    /\ TypeOK
    /\ StateOK(file)
    /\ store # None => StoreOK(store)
    /\ durable <= Len(hist)

-----------------------------------------------------------------------------
\* The largest window is a size, and no configured size exceeds it.
LEMMA MaxWindowBounds ==
    /\ MaxWindow \in Nat
    /\ \A n \in MaxEntriesChoices : WindowSize(n) <= MaxWindow
<1> DEFINE sizes == {WindowSize(n) : n \in MaxEntriesChoices}
<1>1. \A n \in MaxEntriesChoices : WindowSize(n) \in Nat
    BY MaxEntriesAssumption, DefaultMaxEntriesAssumption DEF WindowSize
<1>2. IsFiniteSet(sizes)
  <2> DEFINE size == [n \in MaxEntriesChoices |-> WindowSize(n)]
  <2>1. size \in Surjection(MaxEntriesChoices, sizes)
      BY DEF Surjection
  <2> HIDE DEF size, sizes
  <2> QED
      BY <2>1, MaxEntriesAssumption, FS_Surjection
<1>3. sizes # {} /\ sizes \in SUBSET Nat
    BY <1>1, MaxEntriesAssumption
<1>4. Max(sizes) \in sizes /\ \A y \in sizes : Max(sizes) >= y
  <2> HIDE DEF sizes
  <2> QED
    BY <1>2, <1>3, MaxOfFinite
<1> QED
    BY <1>1, <1>3, <1>4 DEF MaxWindow

\* A store that is right before a persisting call's Commit leaves a right store
\* and a right file, whether the disk took the write or not.
LEMMA CommitOK ==
    ASSUME \E s \in Store : StoreOK(s) /\ Commit(s), file \in State, StateOK(file)
    PROVE  /\ store' \in Store /\ StoreOK(store')
           /\ file' \in State /\ StateOK(file')
           /\ dirty' \in BOOLEAN
           /\ durable' = durable \/ durable' = Len(hist')
<1>0. PICK s \in Store : StoreOK(s) /\ Commit(s)
    OBVIOUS
<1>1. PICK ok \in PersistOutcomes :
        /\ store' = s
        /\ file' = IF ok THEN s.state ELSE file
        /\ dirty' = ~ok
        /\ durable' = IF ok THEN Len(hist') ELSE durable
    BY <1>0 DEF Commit
<1>2. s.state \in State /\ StateOK(s.state)
    BY <1>0 DEF Store, StoreOK
<1>3. dirty' \in BOOLEAN
    BY <1>1, PersistAssumption
<1>4. file' \in State /\ StateOK(file')
    BY <1>1, <1>2
<1> QED
    BY <1>0, <1>1, <1>3, <1>4

-----------------------------------------------------------------------------
\* A subscription starts with an empty file and no process.
LEMMA InitInv == Init => Inv
<1> SUFFICES ASSUME Init PROVE Inv
    OBVIOUS
<1>1. EmptyState.events = <<>> /\ Len(<<>>) = 0
    BY DEF EmptyState
<1>2. StateOK(file) /\ file \in State
    BY <1>1, EmptyStateType, MaxWindowBounds DEF Init, StateOK, DistinctEvents
<1>3. TypeOK
  <2>1. <<>> \in Seq(SeenEntry)
      OBVIOUS
  <2> QED
      BY <1>2, <2>1 DEF Init, TypeOK, Idle
<1> QED
    BY <1>2, <1>3 DEF Init, Inv

\* Every call of the store, every crash and every reopening keeps the invariant.
LEMMA NextInv == Inv /\ [Next]_vars => Inv'
<1> SUFFICES ASSUME Inv, [Next]_vars PROVE Inv'
    OBVIOUS
<1> USE DEF Inv
<1>1. ASSUME NEW n \in MaxEntriesChoices, Open(n) PROVE Inv'
  <2>1. n \in Int /\ TTL \in Nat /\ WindowSize(n) <= MaxWindow
      BY MaxEntriesAssumption, TTLAssumption, MaxWindowBounds
  <2>2. file \in State /\ DistinctIds(file.seen)
      BY DEF TypeOK, StateOK
  <2>3. store' \in Store /\ StoreOK(store')
      BY <1>1, <2>1, <2>2, NewSubStoreIndexed DEF Open, StoreOK
  <2>4. TypeOK'
      BY <1>1, <2>3 DEF Open, TypeOK
  <2> QED
      BY <1>1, <2>3, <2>4 DEF Open, StateOK
<1>2. ASSUME NEW c \in Caller, NEW e \in Event, MarkSeenCall(c, e) PROVE Inv'
  <2>1. store \in Store /\ StoreOK(store) /\ now \in Nat /\ e.id \in EventId
      BY <1>2 DEF MarkSeenCall, TypeOK, EventId
  <2> DEFINE s == MarkSeen(store, e.id, now)
  <2>2. s \in Store /\ StoreOK(s)
      BY <2>1, MarkSeenIndexed DEF StoreOK, StateOK, SameButWindow, Indexed
  <2> HIDE DEF s
  <2>3. CASE IsNew(store, e.id, now)
    <3>1. Commit(s) /\ hist' = Append(hist, [id |-> e.id, time |-> now])
        BY <1>2, <2>3 DEF MarkSeenCall, s
    <3>2. hist' \in Seq(SeenEntry) /\ Len(hist') = Len(hist) + 1 /\ Len(hist) \in Nat
        BY <2>1, <3>1 DEF TypeOK, SeenEntry
    <3>3. /\ store' \in Store /\ StoreOK(store') /\ file' \in State /\ StateOK(file')
          /\ dirty' \in BOOLEAN /\ (durable' = durable \/ durable' = Len(hist'))
        BY <2>2, <3>1, CommitOK DEF TypeOK
    <3>4. TypeOK'
        BY <1>2, <2>3, <3>2, <3>3 DEF MarkSeenCall, TypeOK
    <3> QED
        BY <3>2, <3>3, <3>4 DEF TypeOK
  <2>4. CASE ~IsNew(store, e.id, now)
    <3>1. store' = s /\ UNCHANGED <<file, pending, dirty, interrupted, crossed, hist, durable, now>>
        BY <1>2, <2>4 DEF MarkSeenCall, s
    <3> QED
        BY <2>2, <3>1 DEF TypeOK, StateOK
  <2> QED
      BY <2>3, <2>4
<1>3. ASSUME NEW c \in Caller, RecordEventCall(c) PROVE Inv'
  <2>1. store \in Store /\ StoreOK(store) /\ pending[c] \in Event
      BY <1>3 DEF RecordEventCall, TypeOK
  <2> DEFINE s == RecordEvent(store, pending[c].key, pending[c])
  <2>2. s \in Store /\ StoreOK(s)
    <3>1. pending[c].key \in Key
        BY <2>1, EventKeyAssumption
    <3> QED
        BY <2>1, <3>1, MaxWindowBounds, RecordEventProperties
        DEF StoreOK, StateOK, SameWindow, Indexed, Store
  <2> HIDE DEF s
  <2>3. Commit(s) /\ hist' = hist
      BY <1>3 DEF RecordEventCall, s
  <2>4. /\ store' \in Store /\ StoreOK(store') /\ file' \in State /\ StateOK(file')
        /\ dirty' \in BOOLEAN /\ (durable' = durable \/ durable' = Len(hist'))
      BY <2>2, <2>3, CommitOK DEF TypeOK
  <2> QED
      BY <1>3, <2>3, <2>4 DEF RecordEventCall, TypeOK
<1>4. ASSUME NEW k \in Key, NEW sid \in Session, BindCall(k, sid) PROVE Inv'
  <2>1. store \in Store /\ StoreOK(store)
      BY <1>4 DEF BindCall, TypeOK
  <2>2. Bind(store, k, sid) \in Store /\ StoreOK(Bind(store, k, sid))
      BY <2>1, BindType DEF StoreOK, StateOK, SameWindow, Indexed
  <2>3. /\ store' \in Store /\ StoreOK(store') /\ file' \in State /\ StateOK(file')
        /\ dirty' \in BOOLEAN /\ (durable' = durable \/ durable' = Len(hist'))
      BY <1>4, <2>2, CommitOK DEF BindCall, TypeOK
  <2> QED
      BY <1>4, <2>3 DEF BindCall, TypeOK
<1>5. ASSUME NEW k \in Key, UnbindCall(k) PROVE Inv'
  <2>1. store \in Store /\ StoreOK(store)
      BY <1>5 DEF UnbindCall, TypeOK
  <2>2. Unbind(store, k) \in Store /\ StoreOK(Unbind(store, k))
      BY <2>1, UnbindType DEF StoreOK, StateOK, SameWindow, Indexed
  <2>3. /\ store' \in Store /\ StoreOK(store') /\ file' \in State /\ StateOK(file')
        /\ dirty' \in BOOLEAN /\ (durable' = durable \/ durable' = Len(hist'))
      BY <1>5, <2>2, CommitOK DEF UnbindCall, TypeOK
  <2> QED
      BY <1>5, <2>3 DEF UnbindCall, TypeOK
<1>6. ASSUME NEW sid \in Session, AddCreatedCall(sid) PROVE Inv'
  <2>1. store \in Store /\ StoreOK(store)
      BY <1>6 DEF AddCreatedCall, TypeOK
  <2>2. AddCreated(store, sid) \in Store /\ StoreOK(AddCreated(store, sid))
      BY <2>1, AddCreatedType DEF StoreOK, StateOK, SameWindow, Indexed
  <2>3. /\ store' \in Store /\ StoreOK(store') /\ file' \in State /\ StateOK(file')
        /\ dirty' \in BOOLEAN /\ (durable' = durable \/ durable' = Len(hist'))
      BY <1>6, <2>2, CommitOK DEF AddCreatedCall, TypeOK
  <2> QED
      BY <1>6, <2>3 DEF AddCreatedCall, TypeOK
<1>7. ASSUME Drop PROVE Inv'
  <2>1. hist' \in Seq(SeenEntry) /\ Len(hist') = durable
      BY <1>7 DEF Drop, TypeOK
  <2>2. PendingIds \subseteq EventId
      BY DEF PendingIds, TypeOK, EventId
  <2>3. Ids(file.seen) \subseteq EventId
      BY IdsType DEF TypeOK, State
  <2>4. TypeOK'
      BY <1>7, <2>1, <2>2, <2>3 DEF Drop, TypeOK, Idle
  <2> QED
      BY <1>7, <2>1, <2>4 DEF Drop, TypeOK, StateOK
<1>8. ASSUME Tick PROVE Inv'
    BY <1>8 DEF Tick, TypeOK, StateOK
<1>9. CASE UNCHANGED vars
    BY <1>9 DEF vars, TypeOK, StateOK
<1> QED
    BY <1>1, <1>2, <1>3, <1>4, <1>5, <1>6, <1>7, <1>8, <1>9 DEF Next

\* The invariant holds in every reachable state.
LEMMA Invariance == Spec => []Inv
BY InitInv, NextInv, PTL DEF Spec

-----------------------------------------------------------------------------
\* Type correctness, for every number of callers, events and window sizes.
THEOREM TypeCorrect == Spec => []TypeOK
<1>1. Inv => TypeOK
    BY DEF Inv
<1> QED
    BY <1>1, Invariance, PTL

\* The index that markSeen consults and the window that is persisted agree after
\* every rotation, expiry, failed write and reload (IndexMatchesWindow), so that
\* no id that left the window is refused and none that is in it is driven again.
THEOREM IndexCorrect == Spec => []IndexMatchesWindow
<1>1. ASSUME Inv, store # None PROVE IndexMatchesWindow
  <2>1. store.state.seen \in Seq(SeenEntry) /\ Indexed(store)
      BY <1>1 DEF Inv, TypeOK, StoreOK, Store, State
  <2> QED
      BY <2>1 DEF IndexMatchesWindow, IsInjective, Indexed, DistinctIds
<1>2. Inv => IndexMatchesWindow
    BY <1>1 DEF IndexMatchesWindow
<1> QED
    BY <1>2, Invariance, PTL

\* The replay window that Retry reads holds one payload per event id and no more
\* payloads than the largest window configured, whatever sizes a store was
\* opened with before (ReplayWindowBounded).
THEOREM ReplayBounded == Spec => []ReplayWindowBounded
<1>1. ASSUME Inv, store # None PROVE ReplayWindowBounded
  <2>1. store.state.events \in Seq(StoredEvent) /\ StateOK(store.state)
      BY <1>1 DEF Inv, TypeOK, StoreOK, Store, State
  <2> QED
      BY <2>1 DEF ReplayWindowBounded, IsInjective, StateOK, DistinctEvents
<1>2. Inv => ReplayWindowBounded
    BY <1>1 DEF ReplayWindowBounded
<1> QED
    BY <1>2, Invariance, PTL

-----------------------------------------------------------------------------
(* The window and the history of admissions.  Whatever was evicted, lost by *)
(* a restart or never written, a window is the end of the history: of all   *)
(* admissions in memory, of the durable ones in the file.                   *)

\* seen is what is left, at time t, of the first n entries of h: only entries that
\* are not among the newest MinWindow, or too old, are gone.
Remains(seen, h, n, t) ==
    /\ Len(seen) <= n
    /\ \A i \in 1..Len(seen) : seen[i] = h[n - Len(seen) + i]
    /\ \A i \in 1..n - Len(seen) : i <= n - MinWindow \/ Older(h[i], t, TTL)

Chronological(h, t) ==
    \A i, j \in 1..Len(h) : i <= j => h[i].time <= h[j].time /\ h[j].time <= t

\* While everything is on disk, memory is ahead of the file in what it evicted alone.
Ahead(seen, old, t) ==
    \E n \in 0..Len(old) : Cut(seen, old, n) /\ \A i \in 1..n : Older(old[i], t, TTL)

OpenHistory(s) ==
    /\ s.ttl = TTL /\ s.maxSeen \in MinWindow..MaxWindow
    /\ Remains(s.state.seen, hist, Len(hist), now)
    /\ Len(s.state.seen) <= MaxWindow
    /\ durable = Len(hist) => Ahead(s.state.seen, file.seen, now)

FileHistory ==
    /\ durable <= Len(hist)
    /\ Remains(file.seen, hist, durable, now)
    /\ Len(file.seen) <= MaxWindow

HistoryInv ==
    /\ Chronological(hist, now)
    /\ FileHistory
    /\ store = None => durable = Len(hist)
    /\ store # None => OpenHistory(store)

\* The smallest window is a size, and no configured size is below it.
LEMMA MinWindowBounds ==
    /\ MinWindow \in Nat \ {0}
    /\ \A n \in MaxEntriesChoices : MinWindow <= WindowSize(n)
<1> DEFINE sizes == {WindowSize(n) : n \in MaxEntriesChoices}
<1>1. \A n \in MaxEntriesChoices : WindowSize(n) \in Nat \ {0}
    BY MaxEntriesAssumption, DefaultMaxEntriesAssumption DEF WindowSize
<1>2. sizes # {} /\ sizes \in SUBSET Nat
    BY <1>1, MaxEntriesAssumption
<1>3. Min(sizes) \in sizes /\ \A y \in sizes : Min(sizes) <= y
  <2> HIDE DEF sizes
  <2> QED
    BY <1>2, MinOfNat
<1> QED
    BY <1>1, <1>3 DEF MinWindow

\* Entries of a window and of the history have a time.
LEMMA EntryTimes ==
    ASSUME NEW h \in Seq(SeenEntry)
    PROVE  Len(h) \in Nat /\ \A i \in 1..Len(h) : h[i] \in SeenEntry /\ h[i].time \in Nat
<1>1. \A i \in 1..Len(h) : h[i] \in SeenEntry
    OBVIOUS
<1> QED
    BY <1>1 DEF SeenEntry

\* A window that loses entries beyond the smallest size, or too old, still remains.
LEMMA RemainsCut ==
    ASSUME NEW seen, NEW kept, NEW h, NEW n \in Nat, NEW t, NEW k,
           Len(seen) \in Nat, Remains(seen, h, n, t), Cut(kept, seen, k),
           \A i \in 1..k : n - Len(seen) + i <= n - MinWindow \/ Older(seen[i], t, TTL)
    PROVE  Remains(kept, h, n, t)
<1>1. MinWindow \in Nat /\ k \in 0..Len(seen) /\ Len(kept) = Len(seen) - k /\ Len(seen) <= n
    BY MinWindowBounds DEF Cut, Remains
<1>2. ASSUME NEW i \in 1..Len(kept) PROVE kept[i] = h[n - Len(kept) + i]
  <2>1. k + i \in 1..Len(seen) /\ kept[i] = seen[k + i] /\ n - Len(seen) + (k + i) = n - Len(kept) + i
      BY <1>1 DEF Cut
  <2> QED
      BY <2>1 DEF Remains
<1>3. ASSUME NEW i \in 1..n - Len(kept) PROVE i <= n - MinWindow \/ Older(h[i], t, TTL)
  <2>1. CASE i <= n - Len(seen)
      BY <1>1, <2>1 DEF Remains
  <2>2. CASE ~(i <= n - Len(seen))
    <3> DEFINE j == i - (n - Len(seen))
    <3>1. j \in 1..k /\ j \in 1..Len(seen) /\ n - Len(seen) + j = i
        BY <1>1, <2>2
    <3>2. seen[j] = h[i]
        BY <3>1 DEF Remains
    <3> QED
        BY <3>1, <3>2
  <2> QED
      BY <2>1, <2>2
<1> QED
    BY <1>1, <1>2, <1>3 DEF Remains

\* An admission enters the window and the history together.
LEMMA RemainsAppend ==
    ASSUME NEW seen \in Seq(SeenEntry), NEW h \in Seq(SeenEntry), NEW e \in SeenEntry, NEW t,
           Remains(seen, h, Len(h), t)
    PROVE  Remains(Append(seen, e), Append(h, e), Len(h) + 1, t)
<1> DEFINE s1 == Append(seen, e)
           h1 == Append(h, e)
<1>1. /\ Len(seen) \in Nat /\ Len(h) \in Nat /\ MinWindow \in Nat /\ Len(seen) <= Len(h)
      /\ Len(s1) = Len(seen) + 1 /\ Len(h1) = Len(h) + 1
      /\ \A i \in 1..Len(seen) : s1[i] = seen[i]
      /\ \A i \in 1..Len(h) : h1[i] = h[i]
      /\ s1[Len(seen) + 1] = e /\ h1[Len(h) + 1] = e
    BY MinWindowBounds, AppendProperties DEF Remains
<1> HIDE DEF s1, h1
<1>2. ASSUME NEW i \in 1..Len(s1) PROVE s1[i] = h1[Len(h) + 1 - Len(s1) + i]
  <2>1. CASE i = Len(seen) + 1
      BY <1>1, <2>1
  <2>2. CASE i # Len(seen) + 1
    <3>1. i \in 1..Len(seen) /\ Len(h) - Len(seen) + i \in 1..Len(h)
          /\ Len(h) + 1 - Len(s1) + i = Len(h) - Len(seen) + i
        BY <1>1, <2>2
    <3>2. seen[i] = h[Len(h) - Len(seen) + i]
        BY <3>1 DEF Remains
    <3> QED
        BY <1>1, <3>1, <3>2
  <2> QED
      BY <2>1, <2>2
<1>3. ASSUME NEW i \in 1..(Len(h) + 1) - Len(s1)
      PROVE  i <= (Len(h) + 1) - MinWindow \/ Older(h1[i], t, TTL)
  <2>1. i \in 1..Len(h) - Len(seen) /\ i \in 1..Len(h)
      BY <1>1
  <2>2. i <= Len(h) - MinWindow \/ Older(h[i], t, TTL)
      BY <2>1 DEF Remains
  <2> QED
      BY <1>1, <2>1, <2>2
<1>4. Len(s1) <= Len(h) + 1
    BY <1>1
<1>5. Remains(s1, h1, Len(h) + 1, t)
  <2> DEFINE n == Len(h) + 1
  <2>1. Len(s1) <= n
      BY <1>4
  <2>2. \A i \in 1..Len(s1) : s1[i] = h1[n - Len(s1) + i]
      BY <1>2
  <2>3. \A i \in 1..n - Len(s1) : i <= n - MinWindow \/ Older(h1[i], t, TTL)
      BY <1>3
  <2> HIDE DEF n
  <2>4. Remains(s1, h1, n, t)
      BY <2>1, <2>2, <2>3, Zenon DEF Remains
  <2> QED
      BY <2>4 DEF n
<1> QED
    BY <1>5 DEF s1, h1

\* What remains of a prefix does not depend on what comes after it.
LEMMA RemainsPrefix ==
    ASSUME NEW seen, NEW h, NEW g, NEW n \in Nat, NEW t, Len(seen) \in Nat,
           Remains(seen, h, n, t), \A i \in 1..n : g[i] = h[i]
    PROVE  Remains(seen, g, n, t)
<1>1. \A i \in 1..Len(seen) : n - Len(seen) + i \in 1..n
    BY DEF Remains
<1>2. \A i \in 1..n - Len(seen) : i \in 1..n
    OBVIOUS
<1> QED
    BY <1>1, <1>2 DEF Remains

\* What is too old stays so.
LEMMA RemainsLater ==
    ASSUME NEW seen, NEW h \in Seq(SeenEntry), NEW n \in 0..Len(h), NEW t \in Nat, NEW u \in Nat,
           t <= u, Len(seen) \in Nat, Remains(seen, h, n, t)
    PROVE  Remains(seen, h, n, u)
<1>1. \A i \in 1..Len(h) : Older(h[i], t, TTL) => Older(h[i], u, TTL)
    BY EntryTimes, TTLAssumption DEF Older
<1>2. \A i \in 1..n - Len(seen) : i \in 1..Len(h)
    BY EntryTimes
<1> QED
    BY <1>1, <1>2 DEF Remains

\* The entries of a window are in the order of their times, as the history is.
LEMMA RemainsChronological ==
    ASSUME NEW seen \in Seq(SeenEntry), NEW h \in Seq(SeenEntry), NEW n \in 0..Len(h), NEW t,
           Remains(seen, h, n, t), Chronological(h, t)
    PROVE  \A i, j \in 1..Len(seen) : i <= j => seen[i].time <= seen[j].time
<1>1. Len(seen) \in Nat /\ Len(h) \in Nat /\ Len(seen) <= n
    BY DEF Remains
<1>2. \A i \in 1..Len(seen) : n - Len(seen) + i \in 1..Len(h)
    BY <1>1
<1>3. ASSUME NEW i \in 1..Len(seen), NEW j \in 1..Len(seen), i <= j
      PROVE  seen[i].time <= seen[j].time
  <2> DEFINE p == n - Len(seen) + i
             q == n - Len(seen) + j
  <2>1. p \in 1..Len(h) /\ q \in 1..Len(h) /\ p <= q
      BY <1>1, <1>2, <1>3
  <2>2. seen[i] = h[p] /\ seen[j] = h[q]
      BY DEF Remains
  <2> HIDE DEF p, q
  <2>3. h[p].time <= h[q].time
      BY <2>1 DEF Chronological
  <2> QED
      BY <2>2, <2>3
<1> QED
    BY <1>3

\* The typing that the steps below need of the open store.
LEMMA OpenStore ==
    ASSUME Inv, store # None
    PROVE  /\ store \in Store /\ Indexed(store)
           /\ store.state.seen \in Seq(SeenEntry) /\ Len(store.state.seen) \in Nat
           /\ hist \in Seq(SeenEntry) /\ Len(hist) \in Nat /\ now \in Nat
BY DEF Inv, TypeOK, StoreOK, Store, State

\* The typing of the file and the history.
LEMMA FileTypes ==
    ASSUME Inv
    PROVE  /\ file \in State /\ file.seen \in Seq(SeenEntry) /\ Len(file.seen) \in Nat
           /\ hist \in Seq(SeenEntry) /\ Len(hist) \in Nat /\ durable \in Nat /\ now \in Nat
BY DEF Inv, TypeOK, State

\* A window is ahead of itself by nothing.
LEMMA AheadOfItself ==
    ASSUME NEW seen \in Seq(SeenEntry), NEW t
    PROVE  Ahead(seen, seen, t)
<1>1. Cut(seen, seen, 0)
    BY DEF Cut
<1> QED
    BY <1>1 DEF Ahead

\* An eviction by age keeps a window ahead of the file.
LEMMA AheadFurther ==
    ASSUME NEW kept, NEW seen, NEW old, NEW n, NEW t,
           Len(seen) \in Nat, Len(old) \in Nat, Ahead(seen, old, t),
           Cut(kept, seen, n), \A i \in 1..n : Older(seen[i], t, TTL)
    PROVE  Ahead(kept, old, t)
<1>1. PICK m \in 0..Len(old) : Cut(seen, old, m) /\ \A i \in 1..m : Older(old[i], t, TTL)
    BY DEF Ahead
<1>2. n \in 0..Len(seen) /\ Len(seen) = Len(old) - m /\ Len(kept) = Len(seen) - n
    BY <1>1 DEF Cut
<1>3. Cut(kept, old, m + n)
  <2>1. ASSUME NEW i \in 1..Len(kept) PROVE kept[i] = old[m + n + i]
    <3>1. n + i \in 1..Len(seen) /\ m + (n + i) = m + n + i
        BY <1>2
    <3> QED
        BY <1>1, <1>2, <3>1 DEF Cut
  <2> QED
      BY <1>2, <2>1 DEF Cut
<1>4. ASSUME NEW i \in 1..m + n PROVE Older(old[i], t, TTL)
  <2>1. CASE i <= m
      BY <1>1, <2>1
  <2>2. CASE ~(i <= m)
    <3>1. i - m \in 1..n /\ i - m \in 1..Len(seen) /\ m + (i - m) = i
        BY <1>2, <2>2
    <3>2. seen[i - m] = old[i]
        BY <1>1, <3>1 DEF Cut
    <3> QED
        BY <3>1, <3>2
  <2> QED
      BY <2>1, <2>2
<1> QED
    BY <1>2, <1>3, <1>4 DEF Ahead

-----------------------------------------------------------------------------
(* Every step keeps the history.                                            *)

\* A store opened from the file has what the file has.
LEMMA OpenKeepsHistory ==
    ASSUME Inv, HistoryInv, NEW n \in MaxEntriesChoices, Open(n)
    PROVE  HistoryInv'
<1>1. n \in Int /\ TTL \in Nat /\ WindowSize(n) <= MaxWindow /\ MinWindow <= WindowSize(n)
      /\ WindowSize(n) \in Nat /\ MinWindow \in Nat /\ MaxWindow \in Nat
    BY MaxEntriesAssumption, TTLAssumption, DefaultMaxEntriesAssumption, MaxWindowBounds, MinWindowBounds
    DEF WindowSize
<1>2. store = None /\ store' = NewSubStore(file, n, TTL)
      /\ UNCHANGED <<file, hist, durable, now>>
    BY DEF Open
<1>3. store'.state = file /\ store'.ttl = TTL /\ store'.maxSeen = WindowSize(n)
    BY <1>2 DEF NewSubStore
<1>4. durable = Len(hist) /\ FileHistory /\ Chronological(hist, now)
    BY <1>2 DEF HistoryInv
<1>5. Ahead(file.seen, file.seen, now)
    BY FileTypes, AheadOfItself
<1>6. OpenHistory(store)'
    BY <1>1, <1>2, <1>3, <1>4, <1>5 DEF FileHistory, OpenHistory
<1>7. FileHistory' /\ Chronological(hist, now)'
    BY <1>2, <1>4 DEF FileHistory
<1>8. durable' = Len(hist')
    BY <1>2, <1>4
<1> QED
    BY <1>6, <1>7, <1>8 DEF HistoryInv

\* A call that persists a store whose window is the end of the history leaves a
\* file whose window is, too, or leaves the file as it was.
LEMMA CommitKeepsHistory ==
    ASSUME Inv, FileHistory, NEW s \in Store, Commit(s), now' = now,
           hist' \in Seq(SeenEntry), Len(hist) <= Len(hist'), \A i \in 1..Len(hist) : hist'[i] = hist[i],
           Chronological(hist', now),
           s.ttl = TTL, s.maxSeen \in MinWindow..MaxWindow,
           Remains(s.state.seen, hist', Len(hist'), now), Len(s.state.seen) <= MaxWindow,
           hist' = hist /\ durable = Len(hist) => Ahead(s.state.seen, file.seen, now),
           hist' # hist => Len(hist') = Len(hist) + 1
    PROVE  HistoryInv'
<1>1. PICK ok \in PersistOutcomes :
        /\ store' = s
        /\ file' = IF ok THEN s.state ELSE file
        /\ durable' = IF ok THEN Len(hist') ELSE durable
    BY DEF Commit
<1>2. s.state.seen \in Seq(SeenEntry) /\ Len(s.state.seen) \in Nat /\ Len(hist') \in Nat /\ s # None
  <2>1. s # None
      BY NoStoreAssumption
  <2> QED
      BY <2>1 DEF Store, State
<1>3. CASE ok
  <2>1. file' = s.state /\ durable' = Len(hist')
      BY <1>1, <1>3
  <2>2. FileHistory'
      BY <1>2, <2>1 DEF FileHistory
  <2>3. OpenHistory(store)'
    <3>1. Ahead(s.state.seen, s.state.seen, now)
        BY <1>2, AheadOfItself
    <3> QED
        BY <1>1, <2>1, <3>1 DEF OpenHistory
  <2> QED
      BY <1>1, <1>2, <2>1, <2>2, <2>3 DEF HistoryInv
<1>4. CASE ~ok
  <2>1. file' = file /\ durable' = durable
      BY <1>1, <1>4
  <2>2. FileHistory'
    <3>1. durable \in Nat /\ durable <= Len(hist) /\ Remains(file.seen, hist, durable, now)
        BY FileTypes DEF FileHistory
    <3>2. \A i \in 1..durable : hist'[i] = hist[i]
        BY <3>1, FileTypes
    <3>3. Remains(file.seen, hist', durable, now)
        BY <3>1, <3>2, FileTypes, RemainsPrefix
    <3> QED
        BY <1>2, <2>1, <3>1, <3>3, FileTypes DEF FileHistory
  <2>3. durable' = Len(hist') => Ahead(s.state.seen, file.seen, now)
    <3>1. durable <= Len(hist)
        BY DEF FileHistory
    <3>2. CASE hist' = hist
        BY <2>1, <3>2
    <3>3. CASE hist' # hist
        BY <2>1, <3>1, <3>3, FileTypes
    <3> QED
        BY <3>2, <3>3
  <2>4. OpenHistory(store)'
      BY <1>1, <2>1, <2>3 DEF OpenHistory
  <2> QED
      BY <1>1, <1>2, <2>2, <2>4 DEF HistoryInv
<1> QED
    BY <1>3, <1>4

\* markSeen: the admission of a new id, and the eviction alone of a duplicate.
LEMMA MarkSeenKeepsHistory ==
    ASSUME Inv, HistoryInv, NEW c \in Caller, NEW e \in Event, MarkSeenCall(c, e)
    PROVE  HistoryInv'
<1> DEFINE seen == store.state.seen
           s1   == EvictExpired(store, now)
           s    == MarkSeen(store, e.id, now)
<1>1. /\ store # None /\ store \in Store /\ Indexed(store) /\ e.id \in EventId /\ now' = now
      /\ seen \in Seq(SeenEntry) /\ Len(seen) \in Nat
      /\ hist \in Seq(SeenEntry) /\ Len(hist) \in Nat /\ now \in Nat
    BY OpenStore DEF MarkSeenCall, EventId
<1>2. OpenHistory(store) /\ FileHistory /\ Chronological(hist, now)
    BY <1>1 DEF HistoryInv
<1>3. /\ MinWindow \in Nat /\ MaxWindow \in Nat /\ store.maxSeen \in MinWindow..MaxWindow
      /\ store.ttl = TTL /\ Remains(seen, hist, Len(hist), now) /\ Len(seen) <= MaxWindow
    BY <1>2, MinWindowBounds, MaxWindowBounds DEF OpenHistory
<1>4. PICK n \in 0..Len(seen) : Cut(s1.state.seen, seen, n) /\ \A i \in 1..n : Older(seen[i], now, TTL)
    BY <1>1, <1>3, EvictExpiredCut
<1>5. /\ s1 \in Store /\ s1.state.seen \in Seq(SeenEntry) /\ Len(s1.state.seen) \in Nat
      /\ s1.maxSeen = store.maxSeen /\ s1.ttl = store.ttl
  <2>1. s1 \in Store /\ s1.maxSeen = store.maxSeen /\ s1.ttl = store.ttl
      BY <1>1, EvictExpiredIndexed DEF SameButWindow
  <2> HIDE DEF s1
  <2> QED
      BY <2>1 DEF Store, State
<1>6. Remains(s1.state.seen, hist, Len(hist), now)
    BY <1>1, <1>3, <1>4, RemainsCut
<1>7. Len(s1.state.seen) <= MaxWindow
    BY <1>1, <1>3, <1>4 DEF Cut
<1>8. s \in Store
    BY <1>1, MarkSeenIndexed
<1>9. CASE IsNew(store, e.id, now)
  <2> DEFINE entry == [id |-> e.id, time |-> now]
             all   == Append(s1.state.seen, entry)
             h1    == Append(hist, entry)
  <2>1. hist' = h1 /\ Commit(s)
      BY <1>1, <1>9 DEF MarkSeenCall
  <2>2. s = Admit(s1, e.id, now)
      BY <1>9 DEF IsNew, MarkSeen
  <2>3. entry \in SeenEntry /\ entry.time = now
      BY <1>1 DEF SeenEntry
  <2>4. PICK k \in 0..Len(all) :
          /\ Cut(s.state.seen, all, k)
          /\ Len(s.state.seen) <= s1.maxSeen
          /\ k > 0 => Len(s.state.seen) = s1.maxSeen
      BY <1>1, <1>5, <2>2, AdmitCut
  <2> HIDE DEF s, s1, entry
  <2>5. /\ h1 \in Seq(SeenEntry) /\ Len(h1) = Len(hist) + 1
        /\ \A i \in 1..Len(hist) : h1[i] = hist[i]
        /\ h1[Len(hist) + 1] = entry
      BY <1>1, <2>3, AppendProperties
  <2>6. all \in Seq(SeenEntry) /\ Len(all) \in Nat /\ Len(all) = Len(s1.state.seen) + 1
      BY <1>5, <2>3, AppendProperties
  <2>7. Remains(all, h1, Len(h1), now)
      BY <1>1, <1>5, <1>6, <2>3, <2>5, RemainsAppend
  <2> HIDE DEF all, h1
  <2>8. Remains(s.state.seen, h1, Len(h1), now)
    <3>1. k \in Nat /\ Len(all) \in Nat /\ Len(h1) \in Nat
        BY <1>1, <2>4, <2>5, <2>6
    <3>2. ASSUME NEW i \in 1..k PROVE Len(h1) - Len(all) + i <= Len(h1) - MinWindow
      <4>1. Len(s.state.seen) = s1.maxSeen
          BY <2>4, <3>1, <3>2
      <4>2. Len(all) - k = s1.maxSeen
          BY <2>4, <4>1 DEF Cut
      <4>3. Len(all) - k >= MinWindow
          BY <1>3, <1>5, <4>2
      <4> QED
          BY <1>3, <3>1, <3>2, <4>3
    <3>3. \A i \in 1..k : Len(h1) - Len(all) + i <= Len(h1) - MinWindow \/ Older(all[i], now, TTL)
        BY <3>2
    <3>4. Cut(s.state.seen, all, k)
        BY <2>4
    <3> QED
        BY <2>7, <3>1, <3>3, <3>4, RemainsCut
  <2>9. Len(s.state.seen) <= MaxWindow
    <3>1. Len(s.state.seen) \in Nat
        BY <1>8 DEF Store, State
    <3> QED
        BY <1>3, <1>5, <2>4, <3>1
  <2>10. Chronological(h1, now)
    <3>1. \A j \in 1..Len(hist) : hist[j].time <= now
        BY <1>2, EntryTimes, <1>1 DEF Chronological
    <3>2. ASSUME NEW i \in 1..Len(h1), NEW j \in 1..Len(h1), i <= j
          PROVE  h1[i].time <= h1[j].time /\ h1[j].time <= now
      <4>1. CASE j \in 1..Len(hist)
        <5>1. i \in 1..Len(hist)
            BY <1>1, <3>2, <4>1
        <5> QED
            BY <1>2, <2>5, <3>2, <4>1, <5>1 DEF Chronological
      <4>2. CASE j \notin 1..Len(hist)
        <5>1. j = Len(hist) + 1 /\ h1[j].time = now
            BY <1>1, <2>3, <2>5, <4>2
        <5>2. i = j \/ i \in 1..Len(hist)
            BY <1>1, <2>5, <3>2, <5>1
        <5> QED
            BY <1>1, <2>5, <3>1, <5>1, <5>2
      <4> QED
          BY <4>1, <4>2
    <3> QED
        BY <3>2 DEF Chronological
  <2>11. s.ttl = TTL /\ s.maxSeen = store.maxSeen
      BY <1>1, <1>3, MarkSeenIndexed DEF SameButWindow, s
  <2>12. h1 # hist
      BY <1>1, <2>5
  <2> QED
      BY <1>1, <1>2, <1>3, <1>8, <2>1, <2>5, <2>8, <2>9, <2>10, <2>11, <2>12, CommitKeepsHistory
<1>10. CASE ~IsNew(store, e.id, now)
  <2>1. store' = s1 /\ UNCHANGED <<file, hist, durable, now>>
      BY <1>1, <1>10 DEF MarkSeenCall, MarkSeen, IsNew
  <2>2. durable = Len(hist) => Ahead(s1.state.seen, file.seen, now)
    <3> HIDE DEF s1
    <3>1. durable = Len(hist) => Ahead(seen, file.seen, now)
        BY <1>2 DEF OpenHistory
    <3> QED
        BY <1>1, <1>4, <3>1, FileTypes, AheadFurther
  <2>3. OpenHistory(store)'
      BY <1>3, <1>5, <1>6, <1>7, <2>1, <2>2 DEF OpenHistory
  <2>4. FileHistory' /\ Chronological(hist, now)'
      BY <1>2, <2>1 DEF FileHistory
  <2>5. store' # None
      BY <1>5, <2>1, NoStoreAssumption
  <2> QED
      BY <2>3, <2>4, <2>5 DEF HistoryInv
<1> QED
    BY <1>9, <1>10

\* The other calls leave the window alone.
LEMMA OtherCallKeepsHistory ==
    ASSUME Inv, HistoryInv, store # None, NEW s \in Store, SameWindow(store, s), Commit(s),
           hist' = hist, now' = now
    PROVE  HistoryInv'
<1>1. OpenHistory(store) /\ FileHistory /\ Chronological(hist, now) /\ hist \in Seq(SeenEntry) /\ Len(hist) \in Nat
    BY OpenStore DEF HistoryInv
<1> QED
    BY <1>1, CommitKeepsHistory DEF OpenHistory, SameWindow

\* A restart cuts the history back to what is durable.
LEMMA DropKeepsHistory ==
    ASSUME Inv, HistoryInv, Drop
    PROVE  HistoryInv'
<1> DEFINE h1 == SubSeq(hist, 1, durable)
<1>1. store' = None /\ hist' = h1 /\ UNCHANGED <<file, durable, now>>
    BY DEF Drop
<1>2. FileHistory /\ Chronological(hist, now)
    BY DEF HistoryInv
<1>3. hist \in Seq(SeenEntry) /\ Len(hist) \in Nat /\ durable \in Nat /\ durable <= Len(hist)
      /\ Len(file.seen) \in Nat
    BY <1>2, FileTypes DEF FileHistory
<1>4. h1 \in Seq(SeenEntry) /\ Len(h1) = durable /\ \A i \in 1..durable : h1[i] = hist[i]
    BY <1>3
<1> HIDE DEF h1
<1>5. Chronological(h1, now)
  <2>1. \A i \in 1..Len(h1) : i \in 1..Len(hist)
      BY <1>3, <1>4
  <2> QED
      BY <1>2, <1>4, <2>1 DEF Chronological
<1>6. Remains(file.seen, h1, durable, now)
    BY <1>2, <1>3, <1>4, RemainsPrefix DEF FileHistory
<1>7. FileHistory'
    BY <1>1, <1>2, <1>3, <1>4, <1>6 DEF FileHistory
<1> QED
    BY <1>1, <1>4, <1>5, <1>7 DEF HistoryInv

\* As time passes entries grow old and none returns.
LEMMA TickKeepsHistory ==
    ASSUME Inv, HistoryInv, Tick
    PROVE  HistoryInv'
<1>1. now' = now + 1 /\ UNCHANGED <<file, store, hist, durable>>
    BY DEF Tick
<1>2. file.seen \in Seq(SeenEntry) /\ Len(file.seen) \in Nat
      /\ hist \in Seq(SeenEntry) /\ Len(hist) \in Nat /\ durable \in Nat /\ now \in Nat
    BY FileTypes
<1>3. FileHistory /\ Chronological(hist, now)
    BY DEF HistoryInv
<1>4. Chronological(hist, now + 1)
    BY <1>2, <1>3, EntryTimes DEF Chronological
<1>5. FileHistory'
  <2>1. Remains(file.seen, hist, durable, now + 1)
      BY <1>2, <1>3, RemainsLater DEF FileHistory
  <2> QED
      BY <1>1, <1>3, <2>1 DEF FileHistory
<1>6. ASSUME store # None PROVE OpenHistory(store)'
  <2>1. OpenHistory(store) /\ Len(store.state.seen) \in Nat
      BY <1>6, OpenStore DEF HistoryInv
  <2>2. Remains(store.state.seen, hist, Len(hist), now + 1)
      BY <1>2, <2>1, RemainsLater DEF OpenHistory
  <2>3. Ahead(store.state.seen, file.seen, now) => Ahead(store.state.seen, file.seen, now + 1)
    <3>1. \A i \in 1..Len(file.seen) : Older(file.seen[i], now, TTL) => Older(file.seen[i], now + 1, TTL)
        BY <1>2, EntryTimes, TTLAssumption DEF Older
    <3>2. \A n \in 0..Len(file.seen) : \A i \in 1..n : i \in 1..Len(file.seen)
        BY <1>2
    <3> QED
        BY <3>1, <3>2 DEF Ahead
  <2> QED
      BY <1>1, <2>1, <2>2, <2>3 DEF OpenHistory
<1> QED
    BY <1>1, <1>3, <1>4, <1>5, <1>6 DEF HistoryInv

\* A subscription starts without a history.
LEMMA InitHistory == Init => HistoryInv
<1> SUFFICES ASSUME Init PROVE HistoryInv
    OBVIOUS
<1>1. hist = <<>> /\ Len(hist) = 0 /\ file.seen = <<>> /\ durable = 0 /\ store = None
    BY DEF Init, EmptyState
<1>2. Chronological(hist, now)
    BY <1>1 DEF Chronological
<1>3. MaxWindow \in Nat
    BY MaxWindowBounds
<1>4. FileHistory
    BY <1>1, <1>3 DEF FileHistory, Remains
<1> QED
    BY <1>1, <1>2, <1>4 DEF HistoryInv

\* Every step keeps the windows the end of the history.
LEMMA NextHistory == Inv /\ HistoryInv /\ [Next]_vars => HistoryInv'
<1> SUFFICES ASSUME Inv, HistoryInv, [Next]_vars PROVE HistoryInv'
    OBVIOUS
<1>1. ASSUME NEW n \in MaxEntriesChoices, Open(n) PROVE HistoryInv'
    BY <1>1, OpenKeepsHistory
<1>2. ASSUME NEW c \in Caller, NEW e \in Event, MarkSeenCall(c, e) PROVE HistoryInv'
    BY <1>2, MarkSeenKeepsHistory
<1>3. ASSUME NEW c \in Caller, RecordEventCall(c) PROVE HistoryInv'
  <2>1. /\ store # None /\ store \in Store /\ DistinctEvents(store.state.events)
        /\ pending[c] \in Event /\ pending[c].key \in Key /\ hist' = hist /\ now' = now
        /\ Commit(RecordEvent(store, pending[c].key, pending[c]))
      BY <1>3, EventKeyAssumption DEF RecordEventCall, Inv, TypeOK, StoreOK, StateOK
  <2> QED
      BY <2>1, RecordEventProperties, OtherCallKeepsHistory
<1>4. ASSUME NEW k \in Key, NEW sid \in Session, BindCall(k, sid) PROVE HistoryInv'
  <2>1. store # None /\ store \in Store /\ hist' = hist /\ now' = now /\ Commit(Bind(store, k, sid))
      BY <1>4, OpenStore DEF BindCall
  <2> QED
      BY <2>1, BindType, OtherCallKeepsHistory
<1>5. ASSUME NEW k \in Key, UnbindCall(k) PROVE HistoryInv'
  <2>1. store # None /\ store \in Store /\ hist' = hist /\ now' = now /\ Commit(Unbind(store, k))
      BY <1>5, OpenStore DEF UnbindCall
  <2> QED
      BY <2>1, UnbindType, OtherCallKeepsHistory
<1>6. ASSUME NEW sid \in Session, AddCreatedCall(sid) PROVE HistoryInv'
  <2>1. store # None /\ store \in Store /\ hist' = hist /\ now' = now /\ Commit(AddCreated(store, sid))
      BY <1>6, OpenStore DEF AddCreatedCall
  <2> QED
      BY <2>1, AddCreatedType, OtherCallKeepsHistory
<1>7. CASE Drop
    BY <1>7, DropKeepsHistory
<1>8. CASE Tick
    BY <1>8, TickKeepsHistory
<1>9. CASE UNCHANGED vars
    BY <1>9 DEF vars, HistoryInv, FileHistory, OpenHistory
<1> QED
    BY <1>1, <1>2, <1>3, <1>4, <1>5, <1>6, <1>7, <1>8, <1>9 DEF Next

\* In every reachable state the windows are the end of the history.
LEMMA HistoryInvariance == Spec => []HistoryInv
BY Invariance, InitHistory, NextHistory, PTL DEF Spec

-----------------------------------------------------------------------------
(* What the history says of the answers.                                    *)

\* The store refuses the ids of the young entries of its window.
LEMMA StoreRefuses ==
    ASSUME Inv, HistoryInv, store # None, NEW id \in EventId
    PROVE  ~IsNew(store, id, now) <=>
               \E i \in 1..Len(store.state.seen) :
                   store.state.seen[i].id = id /\ ~Older(store.state.seen[i], now, TTL)
<1>1. /\ store \in Store /\ Indexed(store) /\ store.state.seen \in Seq(SeenEntry)
      /\ hist \in Seq(SeenEntry) /\ Len(hist) \in Nat /\ now \in Nat
    BY OpenStore
<1>2. store.ttl = TTL /\ Remains(store.state.seen, hist, Len(hist), now) /\ Chronological(hist, now)
    BY DEF HistoryInv, OpenHistory
<1>3. \A i, j \in 1..Len(store.state.seen) :
          i <= j => store.state.seen[i].time <= store.state.seen[j].time
  <2>1. Len(hist) \in 0..Len(hist)
      BY <1>1
  <2> QED
      BY <1>1, <1>2, <2>1, RemainsChronological
<1> QED
    BY <1>1, <1>2, <1>3, RefusedIds

\* An admission of the window is one of the newest w that is young enough.
LEMMA WindowMember ==
    ASSUME NEW w \in Nat, NEW id, hist \in Seq(SeenEntry), now \in Nat
    PROVE  id \in Contract!Window(w) <=>
               \E j \in 1..Len(hist) : /\ hist[j].id = id /\ j > Len(hist) - w
                                       /\ ~Older(hist[j], now, TTL)
<1>1. DOMAIN hist = 1..Len(hist) /\ \A j \in 1..Len(hist) : hist[j].time \in Nat
    BY EntryTimes
<1>2. \A j \in 1..Len(hist) : (TTL = 0 \/ hist[j].time >= now - TTL) <=> ~Older(hist[j], now, TTL)
    BY <1>1, TTLAssumption DEF Older
<1>3. id \in Contract!Window(w) <=>
          \E j \in 1..Len(hist) : /\ hist[j].id = id /\ j > Len(hist) - w
                                  /\ TTL = 0 \/ hist[j].time >= now - TTL
    BY <1>1, Zenon DEF Contract!Window
<1> QED
    BY <1>2, <1>3

\* What is refused is in the largest window, what is new is not in the smallest.
LEMMA AnswersByTheWindow ==
    ASSUME Inv, HistoryInv, store # None, NEW id \in EventId
    PROVE  /\ ~IsNew(store, id, now) => id \in Contract!Window(MaxWindow)
           /\ IsNew(store, id, now) => id \notin Contract!Window(MinWindow)
<1> DEFINE seen == store.state.seen
           n    == Len(hist)
           gap  == n - Len(seen)
<1>1. seen \in Seq(SeenEntry) /\ Len(seen) \in Nat /\ hist \in Seq(SeenEntry) /\ n \in Nat /\ now \in Nat
    BY OpenStore
<1>2. Remains(seen, hist, n, now) /\ Len(seen) <= MaxWindow /\ MinWindow \in Nat /\ MaxWindow \in Nat
    BY MinWindowBounds, MaxWindowBounds DEF HistoryInv, OpenHistory
<1>5. Len(seen) \in Nat /\ n \in Nat /\ Len(seen) <= n
    BY <1>1, <1>2 DEF Remains
<1>3. ASSUME ~IsNew(store, id, now) PROVE id \in Contract!Window(MaxWindow)
  <2>1. PICK i \in 1..Len(seen) : seen[i].id = id /\ ~Older(seen[i], now, TTL)
      BY <1>3, StoreRefuses
  <2>2. gap + i \in 1..n /\ gap + i > n - MaxWindow
    <3> HIDE DEF seen
    <3>1. Len(seen) <= MaxWindow /\ MaxWindow \in Nat
        BY <1>2
    <3> QED
        BY <1>5, <3>1
  <2>3. seen[i] = hist[gap + i]
      BY <1>2 DEF Remains
  <2> HIDE DEF gap
  <2> QED
      BY <1>1, <1>2, <2>1, <2>2, <2>3, WindowMember
<1>4. ASSUME id \in Contract!Window(MinWindow) PROVE ~IsNew(store, id, now)
  <2>1. PICK j \in 1..n : hist[j].id = id /\ j > n - MinWindow /\ ~Older(hist[j], now, TTL)
      BY <1>1, <1>2, <1>4, WindowMember
  <2>2. ~(j <= gap)
    <3>1. j <= gap => j \in 1..gap
        BY <1>1
    <3>2. ~(j <= n - MinWindow)
        BY <1>1, <1>2, <2>1
    <3> QED
        BY <1>2, <2>1, <3>1, <3>2 DEF Remains
  <2>3. j - gap \in 1..Len(seen) /\ gap + (j - gap) = j
    <3> HIDE DEF seen
    <3> QED
        BY <1>5, <2>2
  <2>4. seen[j - gap] = hist[j]
      BY <1>2, <2>3 DEF Remains
  <2> HIDE DEF gap
  <2> QED
      BY <2>1, <2>3, <2>4, StoreRefuses
<1> QED
    BY <1>3, <1>4

\* A store opened from a file that is up to date answers as the live one.
LEMMA FileAnswersAlike ==
    ASSUME Inv, HistoryInv, store # None, durable = Len(hist), NEW id \in EventId
    PROVE  IsNew(NewSubStore(file, store.maxSeen, TTL), id, now) = IsNew(store, id, now)
<1> DEFINE seen == store.state.seen
           old  == file.seen
           t    == NewSubStore(file, store.maxSeen, TTL)
<1>1. /\ file \in State /\ old \in Seq(SeenEntry) /\ Len(old) \in Nat /\ DistinctIds(old)
      /\ hist \in Seq(SeenEntry) /\ Len(hist) \in Nat /\ now \in Nat
    BY FileTypes DEF Inv, StateOK
<1>2. store.maxSeen \in Int /\ TTL \in Nat /\ seen \in Seq(SeenEntry) /\ Len(seen) \in Nat
    BY OpenStore, TTLAssumption DEF Store
<1>3. t \in Store /\ Indexed(t) /\ t.state = file
    BY <1>1, <1>2, NewSubStoreIndexed
<1>4. t.ttl = TTL
    BY DEF NewSubStore
<1>5. \A i, j \in 1..Len(old) : i <= j => old[i].time <= old[j].time
  <2>1. Remains(old, hist, Len(hist), now) /\ Chronological(hist, now)
      BY DEF HistoryInv, FileHistory
  <2>2. Len(hist) \in 0..Len(hist)
      BY <1>1
  <2> QED
      BY <1>1, <2>1, <2>2, RemainsChronological
<1> HIDE DEF t
<1>6. ~IsNew(t, id, now) <=> \E i \in 1..Len(old) : old[i].id = id /\ ~Older(old[i], now, TTL)
    BY <1>1, <1>3, <1>4, <1>5, RefusedIds
<1>7. ~IsNew(store, id, now) <=> \E i \in 1..Len(seen) : seen[i].id = id /\ ~Older(seen[i], now, TTL)
    BY StoreRefuses
<1>8. PICK n \in 0..Len(old) : Cut(seen, old, n) /\ \A i \in 1..n : Older(old[i], now, TTL)
    BY DEF HistoryInv, OpenHistory, Ahead
<1>9. ASSUME NEW i \in 1..Len(seen), seen[i].id = id, ~Older(seen[i], now, TTL)
      PROVE  \E j \in 1..Len(old) : old[j].id = id /\ ~Older(old[j], now, TTL)
  <2>1. n + i \in 1..Len(old) /\ seen[i] = old[n + i]
      BY <1>1, <1>2, <1>8 DEF Cut
  <2> QED
      BY <1>9, <2>1
<1>10. ASSUME NEW j \in 1..Len(old), old[j].id = id, ~Older(old[j], now, TTL)
       PROVE  \E i \in 1..Len(seen) : seen[i].id = id /\ ~Older(seen[i], now, TTL)
  <2>1. ~(j <= n)
      BY <1>8, <1>10
  <2>2. j - n \in 1..Len(seen) /\ n + (j - n) = j
      BY <1>1, <1>8, <2>1 DEF Cut
  <2>3. seen[j - n] = old[j]
      BY <1>8, <2>2 DEF Cut
  <2> QED
      BY <1>10, <2>2, <2>3
<1>11. IsNew(t, id, now) <=> IsNew(store, id, now)
    BY <1>6, <1>7, <1>9, <1>10
<1> QED
    BY <1>11 DEF IsNew, t

\* The dedup check refuses an id only while it is in the window (markSeen,
\* evictLocked, load).
THEOREM RefusesOnlyWhatIsInTheWindow == Spec => []RefusesOnlyTheWindow
<1>1. Inv /\ HistoryInv => RefusesOnlyTheWindow
    BY AnswersByTheWindow DEF RefusesOnlyTheWindow
<1> QED
    BY <1>1, Invariance, HistoryInvariance, PTL

\* While every admission reached the disk, a process that starts from the file
\* answers every id as the one that ended would have.
THEOREM RestartAnswersAlike == Spec => []ReloadAnswersAlike
<1>1. Inv /\ HistoryInv => ReloadAnswersAlike
    BY FileAnswersAlike DEF ReloadAnswersAlike
<1> QED
    BY <1>1, Invariance, HistoryInvariance, PTL

-----------------------------------------------------------------------------
(* The refinement.                                                          *)

\* A call that admits nothing is at most a write that caught up.
LEMMA CommitIsPersisted ==
    ASSUME NEW s, Commit(s), hist' = hist, now' = now
    PROVE  Contract!Persisted \/ UNCHANGED Contract!dwVars
BY Zenon DEF Commit, Contract!Persisted, Contract!dwVars

\* An admission is one that the contract allows.
LEMMA AdmissionIsProcess ==
    ASSUME Inv, HistoryInv, NEW c \in Caller, NEW e \in Event, MarkSeenCall(c, e)
    PROVE  Contract!DWNext \/ UNCHANGED Contract!dwVars
<1>1. e.id \in EventId /\ store # None
    BY DEF EventId, MarkSeenCall
<1>2. CASE IsNew(store, e.id, now)
  <2>1. hist' = Append(hist, [id |-> e.id, time |-> now]) /\ now' = now
        /\ Commit(MarkSeen(store, e.id, now))
      BY <1>2 DEF MarkSeenCall
  <2>2. durable' \in {durable, Len(hist')}
      BY <2>1 DEF Commit
  <2>3. e.id \notin Contract!Window(MinWindow)
      BY <1>1, <1>2, AnswersByTheWindow
  <2>4. Contract!Process(e.id)
      BY <2>1, <2>2, <2>3 DEF Contract!Process
  <2> QED
      BY <1>1, <2>4 DEF Contract!DWNext
<1>3. CASE ~IsNew(store, e.id, now)
    BY <1>3 DEF MarkSeenCall, Contract!dwVars
<1> QED
    BY <1>2, <1>3

\* Every step of the store is one of the contract or none at all.
LEMMA StepImplementsContract ==
    Inv /\ HistoryInv /\ [Next]_vars => [Contract!DWNext]_Contract!dwVars
<1> SUFFICES ASSUME Inv, HistoryInv, [Next]_vars
             PROVE  Contract!DWNext \/ UNCHANGED Contract!dwVars
    OBVIOUS
<1>1. ASSUME NEW n \in MaxEntriesChoices, Open(n) PROVE UNCHANGED Contract!dwVars
    BY <1>1 DEF Open, Contract!dwVars
<1>2. ASSUME NEW c \in Caller, NEW e \in Event, MarkSeenCall(c, e)
      PROVE  Contract!DWNext \/ UNCHANGED Contract!dwVars
    BY <1>2, AdmissionIsProcess
<1>3. ASSUME NEW c \in Caller, RecordEventCall(c)
      PROVE  Contract!Persisted \/ UNCHANGED Contract!dwVars
    BY <1>3, CommitIsPersisted DEF RecordEventCall
<1>4. ASSUME NEW k \in Key, NEW sid \in Session, BindCall(k, sid)
      PROVE  Contract!Persisted \/ UNCHANGED Contract!dwVars
    BY <1>4, CommitIsPersisted DEF BindCall
<1>5. ASSUME NEW k \in Key, UnbindCall(k)
      PROVE  Contract!Persisted \/ UNCHANGED Contract!dwVars
    BY <1>5, CommitIsPersisted DEF UnbindCall
<1>6. ASSUME NEW sid \in Session, AddCreatedCall(sid)
      PROVE  Contract!Persisted \/ UNCHANGED Contract!dwVars
    BY <1>6, CommitIsPersisted DEF AddCreatedCall
<1>7. ASSUME Drop PROVE Contract!Restart
    BY <1>7 DEF Drop, Contract!Restart
<1>8. ASSUME Tick PROVE Contract!Tick
    BY <1>8 DEF Tick, Contract!Tick
<1>9. CASE UNCHANGED vars
    BY <1>9 DEF vars, Contract!dwVars
<1> QED
    BY <1>1, <1>2, <1>3, <1>4, <1>5, <1>6, <1>7, <1>8, <1>9 DEF Next, Contract!DWNext

\* The store implements the contract of its dedup: over any sequence of calls,
\* evictions, failed writes, restarts and changes of the window size an id is
\* processed at most once per window (markSeen, load, persist).
THEOREM ImplementsDedupWindow == Spec => OncePerWindow
<1>1. Init => Contract!DWInit
    BY DEF Init, Contract!DWInit
<1>2. Spec => Contract!DWSpec
    BY <1>1, StepImplementsContract, Invariance, HistoryInvariance, PTL DEF Spec, Contract!DWSpec
<1> QED
    BY <1>2 DEF OncePerWindow

-----------------------------------------------------------------------------
(* The replay window and the dedup window.  A caller marks and records in   *)
(* two calls, so a payload stands as close to the end of its window as the  *)
(* id to the end of the other, but for the one in hand.  A caller that      *)
(* marks between the two calls of another ends that for good (crossed).     *)

\* Every id of the window is excused or has a payload, at least d closer to the end.
Covered(seen, events, excused, d) ==
    \A i \in 1..Len(seen) :
        \/ seen[i].id \in excused
        \/ \E p \in 1..Len(events) : /\ events[p].event.id = seen[i].id
                                     /\ (Len(events) - p) + d <= Len(seen) - i

InHand == IF PendingIds = {} THEN 0 ELSE 1

Aligned(state) == Covered(state.seen, state.events, PendingIds \cup interrupted, InHand)

\* No two callers have an event in hand.
Alone == \A c, d \in Caller : pending[c] # None /\ pending[d] # None => c = d

SerialInv ==
    /\ Alone
    /\ store = None => pending = Idle /\ ~dirty
    /\ ~dirty => Aligned(file)
    /\ store # None => Aligned(store.state)
    /\ PendingIds # {} => Len(store.state.seen) <= store.maxSeen

ReplayInv == ~crossed => SerialInv

\* The eviction of the oldest ids uncovers none of the others.
LEMMA CoveredCut ==
    ASSUME NEW seen, NEW kept, NEW events, NEW excused, NEW d \in Nat, NEW n,
           Len(seen) \in Nat, Covered(seen, events, excused, d), Cut(kept, seen, n)
    PROVE  Covered(kept, events, excused, d)
<1>1. ASSUME NEW i \in 1..Len(kept)
      PROVE  /\ n + i \in 1..Len(seen) /\ kept[i] = seen[n + i]
             /\ Len(kept) - i = Len(seen) - (n + i)
    BY DEF Cut
<1> QED
    BY <1>1 DEF Covered

\* An id that enters the window makes room for its payload.
LEMMA CoveredAppend ==
    ASSUME NEW seen \in Seq(SeenEntry), NEW events \in Seq(StoredEvent), NEW e \in SeenEntry,
           NEW x, NEW y, Covered(seen, events, x, 0), x \subseteq y, e.id \in y
    PROVE  Covered(Append(seen, e), events, y, 1)
<1> DEFINE s1 == Append(seen, e)
<1>1. /\ Len(seen) \in Nat /\ Len(events) \in Nat /\ Len(s1) = Len(seen) + 1
      /\ \A i \in 1..Len(seen) : s1[i] = seen[i]
      /\ s1[Len(seen) + 1] = e
    BY AppendProperties
<1> HIDE DEF s1
<1>2. ASSUME NEW i \in 1..Len(s1)
      PROVE  \/ s1[i].id \in y
             \/ \E p \in 1..Len(events) : /\ events[p].event.id = s1[i].id
                                          /\ (Len(events) - p) + 1 <= Len(s1) - i
  <2>1. CASE i = Len(seen) + 1
      BY <1>1, <2>1
  <2>2. CASE i # Len(seen) + 1
    <3>1. i \in 1..Len(seen) /\ s1[i] = seen[i]
        BY <1>1, <2>2
    <3>2. CASE seen[i].id \in x
        BY <3>1, <3>2
    <3>3. CASE seen[i].id \notin x
      <4>1. PICK p \in 1..Len(events) : /\ events[p].event.id = seen[i].id
                                        /\ (Len(events) - p) + 0 <= Len(seen) - i
          BY <3>1, <3>3 DEF Covered
      <4>2. (Len(events) - p) + 1 <= Len(s1) - i
          BY <1>1, <3>1, <4>1
      <4> QED
          BY <3>1, <4>1, <4>2
    <3> QED
        BY <3>2, <3>3
  <2> QED
      BY <2>1, <2>2
<1> QED
    BY <1>2 DEF Covered, s1

\* recordEvent covers the id in hand, and keeps the others covered while the
\* window holds no more than its cap.
LEMMA CoveredRecord ==
    ASSUME NEW s \in Store, DistinctEvents(s.state.events), NEW key \in Key, NEW e \in Event,
           NEW x, Len(s.state.seen) <= s.maxSeen,
           Covered(s.state.seen, s.state.events, {e.id} \cup x, 1)
    PROVE  Covered(s.state.seen, RecordEvent(s, key, e).state.events, x, 0)
<1> DEFINE seen == s.state.seen
           old  == s.state.events
           new  == RecordEvent(s, key, e).state.events
<1>1. Len(seen) \in Nat /\ Len(old) \in Nat /\ s.maxSeen \in Nat
    BY DEF Store, State
<1>2. /\ Len(new) \in Nat \ {0} /\ new[Len(new)].event = e
      /\ \A p \in 1..Len(old) :
             old[p].event.id # e.id /\ (Len(old) - p) + 1 < s.maxSeen =>
                 \E q \in 1..Len(new) : new[q] = old[p] /\ Len(new) - q <= (Len(old) - p) + 1
    BY RecordEventPlaces
<1>3. Len(seen) <= s.maxSeen /\ Covered(seen, old, {e.id} \cup x, 1)
    OBVIOUS
<1> HIDE DEF seen, old, new
<1>4. ASSUME NEW i \in 1..Len(seen), seen[i].id \notin x
      PROVE  \E q \in 1..Len(new) : new[q].event.id = seen[i].id /\ (Len(new) - q) + 0 <= Len(seen) - i
  <2>1. CASE seen[i].id = e.id
    <3>1. Len(new) \in 1..Len(new) /\ (Len(new) - Len(new)) + 0 <= Len(seen) - i
        BY <1>1, <1>2
    <3> QED
        BY <1>2, <2>1, <3>1
  <2>2. CASE seen[i].id # e.id
    <3>1. PICK p \in 1..Len(old) : old[p].event.id = seen[i].id /\ (Len(old) - p) + 1 <= Len(seen) - i
        BY <1>3, <1>4, <2>2 DEF Covered
    <3>2. (Len(old) - p) + 1 < s.maxSeen
        BY <1>1, <1>3, <3>1
    <3>3. PICK q \in 1..Len(new) : new[q] = old[p] /\ Len(new) - q <= (Len(old) - p) + 1
        BY <1>2, <2>2, <3>1, <3>2
    <3>4. (Len(new) - q) + 0 <= Len(seen) - i
        BY <1>1, <1>2, <3>1, <3>3
    <3> QED
        BY <3>1, <3>3, <3>4
  <2> QED
      BY <2>1, <2>2
<1> QED
    BY <1>4 DEF Covered, seen, new

\* What a caller alone has in hand.
LEMMA HandOfOne ==
    ASSUME NEW c \in Caller, Alone, pending[c] # None
    PROVE  PendingIds = {pending[c].id} /\ InHand = 1
<1>1. PendingIds = {pending[c].id}
    BY DEF PendingIds, Alone
<1> QED
    BY <1>1 DEF InHand

\* Nobody has anything in hand when no call is under way.
LEMMA IdleHand == PendingIds = {} => InHand = 0
BY DEF InHand

\* A call that persists leaves a file that is covered, or a memory ahead of it.
LEMMA CommitKeepsReplay ==
    ASSUME NEW s \in Store, Commit(s), Alone',
           Covered(s.state.seen, s.state.events, PendingIds' \cup interrupted', InHand'),
           PendingIds' # {} => Len(s.state.seen) <= s.maxSeen
    PROVE  SerialInv'
<1>1. PICK ok \in PersistOutcomes : store' = s /\ file' = (IF ok THEN s.state ELSE file) /\ dirty' = ~ok
    BY DEF Commit
<1>2. s # None
    BY NoStoreAssumption
<1>3. Aligned(store.state)'
    BY <1>1 DEF Aligned
<1>4. ASSUME ~dirty' PROVE Aligned(file)'
  <2>1. file' = s.state
      BY <1>1, <1>4, PersistAssumption
  <2> QED
      BY <2>1 DEF Aligned
<1> QED
    BY <1>1, <1>2, <1>3, <1>4 DEF SerialInv

\* markSeen by a caller that meets no other.
LEMMA MarkSeenKeepsReplay ==
    ASSUME NEW c \in Caller, Inv, SerialInv, ~crossed', NEW e \in Event, MarkSeenCall(c, e)
    PROVE  SerialInv'
<1> DEFINE seen   == store.state.seen
           events == store.state.events
           x      == PendingIds \cup interrupted
           s1     == EvictExpired(store, now)
           s      == MarkSeen(store, e.id, now)
<1>1. /\ store # None /\ store \in Store /\ Indexed(store) /\ e.id \in EventId /\ now \in Nat
      /\ seen \in Seq(SeenEntry) /\ Len(seen) \in Nat
      /\ pending[c] = None /\ pending \in [Caller -> Event \cup {None}]
    BY OpenStore DEF MarkSeenCall, EventId, Inv, TypeOK
<1>2. Covered(seen, events, x, InHand) /\ InHand \in Nat
    BY <1>1 DEF SerialInv, Aligned, InHand
<1>3. events \in Seq(StoredEvent)
    BY <1>1 DEF Store, State
<1>4. /\ s1 \in Store /\ s1.state.seen \in Seq(SeenEntry) /\ Len(s1.state.seen) \in Nat
      /\ s1.state.events = events /\ s1.maxSeen = store.maxSeen
  <2>1. s1 \in Store /\ SameButWindow(store, s1)
      BY <1>1, EvictExpiredIndexed
  <2> HIDE DEF s1
  <2> QED
      BY <2>1 DEF SameButWindow, Store, State
<1>5. Covered(s1.state.seen, events, x, InHand) /\ Len(s1.state.seen) <= Len(seen)
  <2>1. PICK n \in 0..Len(seen) : Cut(s1.state.seen, seen, n)
      BY <1>1, EvictExpiredCut
  <2> HIDE DEF x, s1, seen, events
  <2>2. Covered(s1.state.seen, events, x, InHand)
      BY <1>1, <1>2, <2>1, CoveredCut
  <2> QED
      BY <1>1, <2>1, <2>2 DEF Cut
<1>6. s \in Store /\ s.state.events = events
    BY <1>1, MarkSeenIndexed DEF SameButWindow
<1>7. CASE IsNew(store, e.id, now)
  <2> DEFINE entry == [id |-> e.id, time |-> now]
             all   == Append(s1.state.seen, entry)
             y     == PendingIds' \cup interrupted'
  <2>1. /\ pending' = [pending EXCEPT ![c] = e] /\ interrupted' = interrupted \ {e.id}
        /\ Commit(s) /\ PendingIds = {}
      BY <1>1, <1>7 DEF MarkSeenCall
  <2>2. PendingIds' = {e.id} /\ InHand' = 1 /\ Alone' /\ InHand = 0
    <3>1. pending'[c] = e /\ e # None /\ \A d \in Caller \ {c} : pending'[d] = pending[d]
        BY <1>1, <2>1, NoneAssumption
    <3>2. \A d \in Caller : pending[d] = None
        BY <2>1 DEF PendingIds
    <3>3. Alone'
        BY <3>1, <3>2 DEF Alone
    <3>4. PendingIds' = {e.id}
        BY <3>1, <3>2 DEF PendingIds
    <3> QED
        BY <2>1, <3>3, <3>4 DEF InHand
  <2>3. x \subseteq y /\ e.id \in y
      BY <2>1, <2>2
  <2>4. entry \in SeenEntry /\ entry.id = e.id
      BY <1>1 DEF SeenEntry
  <2>5. Covered(all, events, y, 1)
    <3> HIDE DEF x, y, s1, seen, events, entry
    <3> QED
        BY <1>3, <1>4, <1>5, <2>2, <2>3, <2>4, CoveredAppend
  <2>6. PICK k \in 0..Len(all) :
          /\ Cut(s.state.seen, all, k)
          /\ Len(s.state.seen) <= s1.maxSeen
    <3>1. s = Admit(s1, e.id, now)
        BY <1>7 DEF IsNew, MarkSeen
    <3> HIDE DEF s, s1
    <3> QED
        BY <1>1, <1>4, <3>1, AdmitCut
  <2>7. Covered(s.state.seen, events, y, 1)
    <3>1. Len(all) \in Nat
      <4> HIDE DEF entry, s1
      <4> QED
        BY <1>4, <2>4
    <3> HIDE DEF y, s1, s, all, events
    <3> QED
        BY <2>5, <2>6, <3>1, CoveredCut
  <2>8. s.maxSeen = s1.maxSeen
      BY <1>1, <1>4, MarkSeenIndexed DEF SameButWindow
  <2> HIDE DEF s, s1, all
  <2> QED
      BY <1>6, <2>1, <2>2, <2>6, <2>7, <2>8, CommitKeepsReplay
<1>8. CASE ~IsNew(store, e.id, now)
  <2>1. store' = s1 /\ UNCHANGED <<file, pending, dirty, interrupted>>
      BY <1>1, <1>8 DEF MarkSeenCall, MarkSeen, IsNew
  <2>2. PendingIds' = PendingIds /\ InHand' = InHand /\ Alone'
      BY <2>1 DEF PendingIds, InHand, SerialInv, Alone
  <2>3. store' # None
      BY <1>4, <2>1, NoStoreAssumption
  <2>4. Aligned(store.state)'
      BY <1>4, <1>5, <2>1, <2>2 DEF Aligned
  <2>5. ~dirty' => Aligned(file)'
      BY <2>1, <2>2 DEF SerialInv, Aligned
  <2>6. PendingIds' # {} => Len(store'.state.seen) <= store'.maxSeen
    <3> HIDE DEF s1
    <3>1. store \in Store /\ store.maxSeen \in Nat
        BY <1>1 DEF Store
    <3>2. PendingIds # {} => Len(seen) <= store.maxSeen
        BY DEF SerialInv
    <3> QED
        BY <1>1, <1>4, <1>5, <2>1, <2>2, <3>1, <3>2
  <2> QED
      BY <2>2, <2>3, <2>4, <2>5, <2>6 DEF SerialInv
<1> QED
    BY <1>7, <1>8

\* recordEvent by the caller that alone has an event in hand.
LEMMA RecordEventKeepsReplay ==
    ASSUME NEW c \in Caller, Inv, SerialInv, RecordEventCall(c)
    PROVE  SerialInv'
<1> DEFINE e == pending[c]
           s == RecordEvent(store, e.key, e)
<1>1. /\ store # None /\ store \in Store /\ e # None /\ e \in Event /\ e.key \in Key
      /\ DistinctEvents(store.state.events) /\ Commit(s)
      /\ pending' = [pending EXCEPT ![c] = None] /\ interrupted' = interrupted
      /\ pending \in [Caller -> Event \cup {None}]
    BY EventKeyAssumption DEF RecordEventCall, Inv, TypeOK, StoreOK, StateOK
<1>2. PendingIds = {e.id} /\ InHand = 1
    BY <1>1, HandOfOne DEF SerialInv
<1>3. PendingIds' = {} /\ InHand' = 0 /\ Alone'
  <2>1. \A d \in Caller : pending'[d] = None
      BY <1>1 DEF SerialInv, Alone
  <2>2. PendingIds' = {}
      BY <2>1 DEF PendingIds
  <2> QED
      BY <2>1, <2>2 DEF InHand, Alone
<1>4. Covered(store.state.seen, store.state.events, {e.id} \cup interrupted, 1)
    BY <1>1, <1>2 DEF SerialInv, Aligned
<1>5. Len(store.state.seen) <= store.maxSeen
    BY <1>2 DEF SerialInv
<1>6. s \in Store /\ s.state.seen = store.state.seen
    BY <1>1, RecordEventProperties DEF SameWindow
<1>7. Covered(store.state.seen, s.state.events, interrupted, 0)
    BY <1>1, <1>4, <1>5, CoveredRecord
<1>8. PendingIds' \cup interrupted' = interrupted
    BY <1>1, <1>3
<1> HIDE DEF s
<1> QED
    BY <1>1, <1>3, <1>6, <1>7, <1>8, CommitKeepsReplay

\* The calls that leave both windows alone.
LEMMA OtherCallKeepsReplay ==
    ASSUME SerialInv, store # None, NEW s \in Store, SameWindow(store, s),
           s.state.events = store.state.events, Commit(s), UNCHANGED <<pending, interrupted>>
    PROVE  SerialInv'
<1>1. PendingIds' = PendingIds /\ InHand' = InHand /\ Alone'
    BY DEF PendingIds, InHand, SerialInv, Alone
<1>2. Aligned(store.state) /\ (PendingIds # {} => Len(store.state.seen) <= store.maxSeen)
    BY DEF SerialInv
<1>3. s.state.seen = store.state.seen /\ s.maxSeen = store.maxSeen
    BY DEF SameWindow
<1>4. Covered(s.state.seen, s.state.events, PendingIds' \cup interrupted', InHand')
    BY <1>1, <1>2, <1>3 DEF Aligned
<1> QED
    BY <1>1, <1>2, <1>3, <1>4, CommitKeepsReplay

\* A restart excuses what was in hand, and what the file may lack when memory was ahead.
LEMMA DropKeepsReplay ==
    ASSUME Inv, SerialInv, Drop
    PROVE  SerialInv'
<1>1. /\ store' = None /\ pending' = Idle /\ dirty' = FALSE /\ file' = file
      /\ interrupted' = interrupted \cup PendingIds \cup (IF dirty THEN Ids(file.seen) ELSE {})
    BY DEF Drop
<1>2. PendingIds' = {} /\ InHand' = 0 /\ Alone'
  <2>1. PendingIds' = {} /\ Alone'
      BY <1>1 DEF PendingIds, Idle, Alone
  <2> QED
      BY <2>1 DEF InHand
<1>3. /\ file.seen \in Seq(SeenEntry) /\ Len(file.seen) \in Nat
      /\ file.events \in Seq(StoredEvent) /\ Len(file.events) \in Nat
    BY FileTypes DEF State
<1>4. ASSUME NEW i \in 1..Len(file.seen), file.seen[i].id \notin interrupted'
      PROVE  \E p \in 1..Len(file.events) : /\ file.events[p].event.id = file.seen[i].id
                                            /\ (Len(file.events) - p) + 0 <= Len(file.seen) - i
  <2>1. ~dirty
    <3>1. file.seen[i].id \in Ids(file.seen)
        BY <1>3, IdsMember
    <3> QED
        BY <1>1, <1>4, <3>1
  <2>2. file.seen[i].id \notin PendingIds \cup interrupted
      BY <1>1, <1>4
  <2>3. Covered(file.seen, file.events, PendingIds \cup interrupted, InHand)
      BY <2>1 DEF SerialInv, Aligned
  <2>4. PICK p \in 1..Len(file.events) :
          /\ file.events[p].event.id = file.seen[i].id
          /\ (Len(file.events) - p) + InHand <= Len(file.seen) - i
      BY <2>2, <2>3 DEF Covered
  <2>5. InHand \in {0, 1}
      BY DEF InHand
  <2>6. (Len(file.events) - p) + 0 <= Len(file.seen) - i
      BY <1>3, <2>4, <2>5
  <2> QED
      BY <2>4, <2>6
<1>5. Aligned(file)'
    BY <1>1, <1>2, <1>4 DEF Aligned, Covered
<1> QED
    BY <1>1, <1>2, <1>5 DEF SerialInv

\* A store opened from the file is covered as the file is.
LEMMA OpenKeepsReplay ==
    ASSUME Inv, SerialInv, NEW n \in MaxEntriesChoices, Open(n)
    PROVE  SerialInv'
<1>1. /\ store = None /\ store'.state = file
      /\ UNCHANGED <<file, pending, dirty, interrupted>>
    BY DEF Open, NewSubStore
<1>2. PendingIds = {} /\ PendingIds' = {} /\ InHand' = InHand /\ Alone'
  <2>1. pending = Idle
      BY <1>1 DEF SerialInv
  <2> QED
      BY <1>1, <2>1 DEF PendingIds, Idle, InHand, Alone
<1>3. store' # None
  <2>1. n \in Int /\ TTL \in Nat /\ file \in State /\ DistinctIds(file.seen)
      BY MaxEntriesAssumption, TTLAssumption, FileTypes DEF Inv, StateOK
  <2>2. store' \in Store
      BY <2>1, NewSubStoreIndexed DEF Open
  <2> QED
      BY <2>2, NoStoreAssumption
<1>4. ~dirty /\ Aligned(file)
    BY <1>1 DEF SerialInv
<1>5. Aligned(file)' /\ Aligned(store.state)'
    BY <1>1, <1>2, <1>4 DEF Aligned
<1> QED
    BY <1>1, <1>2, <1>3, <1>5 DEF SerialInv

\* A subscription starts with nothing to replay and nothing in hand.
LEMMA InitReplay == Init => SerialInv
<1> SUFFICES ASSUME Init PROVE SerialInv
    OBVIOUS
<1>1. /\ store = None /\ pending = Idle /\ dirty = FALSE
      /\ file.seen = <<>> /\ Len(file.seen) = 0
    BY DEF Init, EmptyState
<1>2. PendingIds = {} /\ Alone
    BY <1>1 DEF PendingIds, Idle, Alone
<1>3. Aligned(file)
    BY <1>1 DEF Aligned, Covered
<1> QED
    BY <1>1, <1>2, <1>3 DEF SerialInv

\* Every step that does not make two callers cross keeps the ids covered.
LEMMA NextReplay == Inv /\ ReplayInv /\ [Next]_vars => ReplayInv'
<1> SUFFICES ASSUME Inv, SerialInv, [Next]_vars, ~crossed' PROVE SerialInv'
  <2>1. ASSUME [Next]_vars, crossed PROVE crossed'
      BY <2>1 DEF Next, vars, Open, MarkSeenCall, RecordEventCall, BindCall, UnbindCall, AddCreatedCall, Drop, Tick
  <2> QED
      BY <2>1 DEF ReplayInv
<1>1. ASSUME NEW n \in MaxEntriesChoices, Open(n) PROVE SerialInv'
    BY <1>1, OpenKeepsReplay
<1>2. ASSUME NEW d \in Caller, NEW e \in Event, MarkSeenCall(d, e) PROVE SerialInv'
    BY <1>2, MarkSeenKeepsReplay
<1>3. ASSUME NEW d \in Caller, RecordEventCall(d) PROVE SerialInv'
    BY <1>3, RecordEventKeepsReplay
<1>4. ASSUME NEW k \in Key, NEW sid \in Session, BindCall(k, sid) PROVE SerialInv'
  <2>1. store # None /\ store \in Store /\ UNCHANGED <<pending, interrupted>> /\ Commit(Bind(store, k, sid))
      BY <1>4, OpenStore DEF BindCall
  <2> QED
      BY <2>1, BindType, OtherCallKeepsReplay
<1>5. ASSUME NEW k \in Key, UnbindCall(k) PROVE SerialInv'
  <2>1. store # None /\ store \in Store /\ UNCHANGED <<pending, interrupted>> /\ Commit(Unbind(store, k))
      BY <1>5, OpenStore DEF UnbindCall
  <2> QED
      BY <2>1, UnbindType, OtherCallKeepsReplay
<1>6. ASSUME NEW sid \in Session, AddCreatedCall(sid) PROVE SerialInv'
  <2>1. store # None /\ store \in Store /\ UNCHANGED <<pending, interrupted>> /\ Commit(AddCreated(store, sid))
      BY <1>6, OpenStore DEF AddCreatedCall
  <2> QED
      BY <2>1, AddCreatedType, OtherCallKeepsReplay
<1>7. CASE Drop
    BY <1>7, DropKeepsReplay
<1>8. ASSUME Tick \/ UNCHANGED vars PROVE SerialInv'
  <2>1. UNCHANGED <<file, store, pending, dirty, interrupted>>
      BY <1>8 DEF Tick, vars
  <2> QED
      BY <2>1 DEF SerialInv, Aligned, InHand, PendingIds, Alone
<1> QED
    BY <1>1, <1>2, <1>3, <1>4, <1>5, <1>6, <1>7, <1>8 DEF Next

\* What the dispatchers of a subscription admitted can be replayed as long as its
\* id is in the dedup window, unless it has yet to be recorded or a restart
\* separated the two (markSeen, recordEvent), for any number of dispatchers until
\* two of them cross.
THEOREM SeenStaysRetryable == Spec => []SeenIsRetryable
<1>1. ReplayInv /\ Inv => SeenIsRetryable
  <2> SUFFICES ASSUME SerialInv, Inv, store # None, NEW x \in Ids(store.state.seen),
                      x \notin PendingIds \cup interrupted
               PROVE  \E p \in DOMAIN store.state.events : store.state.events[p].event.id = x
      BY DEF SeenIsRetryable, EverySeenIsRetryable, ReplayInv
  <2>1. store.state.seen \in Seq(SeenEntry) /\ store.state.events \in Seq(StoredEvent)
      BY OpenStore DEF Store, State
  <2>2. PICK i \in 1..Len(store.state.seen) : x = store.state.seen[i].id
      BY <2>1, IdsMember
  <2>3. PICK p \in 1..Len(store.state.events) : store.state.events[p].event.id = x
      BY <2>2 DEF SerialInv, Aligned, Covered
  <2> QED
      BY <2>1, <2>3
<1>2. Init => ReplayInv
    BY InitReplay DEF ReplayInv
<1>3. Inv /\ ReplayInv /\ [Next]_vars => ReplayInv'
    BY NextReplay
<1> QED
    BY <1>1, <1>2, <1>3, Invariance, PTL DEF Spec
=============================================================================
