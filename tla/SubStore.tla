------------------------------ MODULE SubStore ------------------------------
(***************************************************************************)
(* One subscription's persistent state (internal/eventbus/substore.go) as  *)
(* operators on a store object.  Every method of the code holds the        *)
(* object's mutex from its first to its last line, so a method is one      *)
(* operator and one atomic step of the modules that use it.                *)
(*                                                                         *)
(*   state    what persist() writes to the subscription's file             *)
(*   index    the map `set`, an index over state.seen                      *)
(*   maxSeen, ttl   the dedup window's configuration                       *)
(*                                                                         *)
(* The file is state alone: load() reads it back and rebuilds the index.   *)
(* None stands for an absent binding, an empty selector and an empty key.  *)
(***************************************************************************)
EXTENDS Integers, Sequences, SequencesExt, FiniteSetsExt

CONSTANTS Key,                  \* values of a keyed policy's Key(event)
          Session,              \* session ids the agent runtime may hand out
          Event,                \* inbound events: records with an id, a subject and the
                                \* key a keyed policy computes for them
          None,
          DefaultMaxEntries     \* defaultDedupMaxEntries

ASSUME NoneAssumption ==
    /\ None \notin Key /\ None \notin Session /\ None \notin Event
    /\ \A e \in Event : e.id # None /\ e.subject # None

ASSUME EventKeyAssumption == \A e \in Event : e.key \in Key

ASSUME DefaultMaxEntriesAssumption == DefaultMaxEntries \in Nat \ {0}

EventId == {e.id : e \in Event}
Subject == {e.subject : e \in Event}

SeenEntry == [id : EventId, time : Nat]
StoredEvent == [key : Key \cup {None}, event : Event]

State == [bindings : [Key -> Session \cup {None}],
          created  : Seq(Session),
          seen     : Seq(SeenEntry),
          events   : Seq(StoredEvent)]

Store == [state : State, index : SUBSET EventId, maxSeen : Nat \ {0}, ttl : Nat]

\* None is no store either.
ASSUME NoStoreAssumption == None \notin Store

\* What a subscription that never persisted anything starts from.
EmptyState == [bindings |-> [k \in Key |-> None], created |-> <<>>, seen |-> <<>>, events |-> <<>>]

Ids(seen) == {seen[i].id : i \in DOMAIN seen}

-----------------------------------------------------------------------------
\* Mutant: the index of an opened store is not rebuilt.
IndexNotRebuilt(file) == {}

\* load(): the index over the window the file holds.
LoadIndex(file) == Ids(file.seen)

WindowSize(maxEntries) == IF maxEntries <= 0 THEN DefaultMaxEntries ELSE maxEntries

\* Mutant: a size of zero is taken as it is.
NewSubStoreNoDefault(file, maxEntries, ttl) ==
    [state |-> file, index |-> LoadIndex(file), maxSeen |-> maxEntries, ttl |-> ttl]

NewSubStore(file, maxEntries, ttl) ==
    [state   |-> file,
     index   |-> LoadIndex(file),
     maxSeen |-> WindowSize(maxEntries),
     ttl     |-> ttl]

-----------------------------------------------------------------------------
\* Mutant: the entries rotate out of the window and stay in the index.
DropOldestKeepingIndex(s, n) ==
    [s EXCEPT !.state.seen = SubSeq(@, n + 1, Len(@))]

\* The n oldest entries leave the window and the index.
DropOldest(s, n) ==
    [s EXCEPT !.state.seen = SubSeq(@, n + 1, Len(@)),
              !.index      = @ \ {s.state.seen[i].id : i \in 1..n}]

\* The length of the prefix of the window that is older than the ttl: eviction
\* stops at the first entry that is not.
ExpiredPrefix(s, now) ==
    LET fresh == {i \in DOMAIN s.state.seen : s.state.seen[i].time >= now - s.ttl}
    IN  IF fresh = {} THEN Len(s.state.seen) ELSE Min(fresh) - 1

EvictExpired(s, now) ==
    IF s.ttl <= 0 THEN s ELSE DropOldest(s, ExpiredPrefix(s, now))

\* Mutant: the window keeps one entry more than the cap.
EvictOverflowLate(s) ==
    IF Len(s.state.seen) > s.maxSeen + 1 THEN DropOldest(s, Len(s.state.seen) - s.maxSeen - 1) ELSE s

\* Mutant: the window rotates one entry too early.
EvictOverflowEarly(s) ==
    IF Len(s.state.seen) >= s.maxSeen THEN DropOldest(s, Len(s.state.seen) - s.maxSeen + 1) ELSE s

EvictOverflow(s) ==
    IF Len(s.state.seen) > s.maxSeen THEN DropOldest(s, Len(s.state.seen) - s.maxSeen) ELSE s

\* markSeen's reply: TRUE when the id is new and the caller is to process it.
IsNew(s, id, now) == id \notin EvictExpired(s, now).index

\* The window after id entered it.
Admit(s, id, now) ==
    EvictOverflow([s EXCEPT !.state.seen = Append(@, [id |-> id, time |-> now]),
                            !.index      = @ \cup {id}])

\* Mutant: the admission is not indexed.
MarkSeenUnindexed(s, id, now) ==
    IF IsNew(s, id, now)
    THEN EvictOverflow([s EXCEPT !.state.seen = Append(@, [id |-> id, time |-> now])]) ELSE s

\* markSeen(id).  A duplicate evicts too, and only an admission persists.
MarkSeen(s, id, now) ==
    LET s1 == EvictExpired(s, now)
    IN  IF id \in s1.index THEN s1 ELSE Admit(s1, id, now)

-----------------------------------------------------------------------------
\* Mutant: one binding for all keys.
BindEveryKey(s, key, sid) == [s EXCEPT !.state.bindings = [k \in Key |-> sid]]

Bind(s, key, sid) == [s EXCEPT !.state.bindings[key] = sid]

Unbind(s, key) == [s EXCEPT !.state.bindings[key] = None]

\* Mutant: the list of created sessions holds the newest alone.
AddCreatedAlone(s, sid) == [s EXCEPT !.state.created = <<sid>>]

AddCreated(s, sid) == [s EXCEPT !.state.created = Append(@, sid)]

\* recentCreated(n), as the set it lists: the router is offered all of them.
RecentCreated(s, n) ==
    LET len == Len(s.state.created)
    IN  {s.state.created[i] : i \in {j \in 1..len : j > len - n}}

-----------------------------------------------------------------------------
\* The replay window without the first entry of the same event id.
WithoutEvent(events, id) ==
    LET same == {i \in DOMAIN events : events[i].event.id = id}
    IN  IF same = {} THEN events ELSE RemoveAt(events, Min(same))

\* Mutant: a repeated event is stored a second time.
RecordEventTwice(s, key, e) ==
    LET all == Append(s.state.events, [key |-> key, event |-> e])
        n   == Len(all)
    IN  [s EXCEPT !.state.events = IF n > s.maxSeen THEN SubSeq(all, n - s.maxSeen + 1, n) ELSE all]

\* recordEvent(key, e): e becomes the newest entry of the replay window, which
\* keeps the maxSeen newest.
RecordEvent(s, key, e) ==
    LET all == Append(WithoutEvent(s.state.events, e.id), [key |-> key, event |-> e])
        n   == Len(all)
    IN  [s EXCEPT !.state.events = IF n > s.maxSeen THEN SubSeq(all, n - s.maxSeen + 1, n) ELSE all]

\* A retry target; None is an empty selector.
RetryTarget == [id : EventId \cup {None}, key : Key \cup {None}, subject : Subject \cup {None}]

\* The first selector that is not empty decides: id, then key, then subject.
Selects(target, stored) ==
    \/ target.id # None /\ stored.event.id = target.id
    \/ target.id = None /\ target.key # None /\ stored.key = target.key
    \/ /\ target.id = None /\ target.key = None /\ target.subject # None
       /\ stored.event.subject = target.subject

\* lookupEvent: the newest stored event the target selects, None when there is none.
LookupEvent(s, target) ==
    LET hits == {i \in DOMAIN s.state.events : Selects(target, s.state.events[i])}
    IN  IF hits = {} THEN None ELSE s.state.events[Max(hits)].event
=============================================================================
