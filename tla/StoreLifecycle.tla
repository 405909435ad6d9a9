--------------------------- MODULE StoreLifecycle ---------------------------
(***************************************************************************)
(* One subscription's store through its life: opened from its file, called *)
(* by dispatchers, dropped by a crash or by Unregister and opened again,   *)
(* perhaps with another window size.  A dispatcher (Caller) marks an event *)
(* seen and then records its payload, two separate calls of Bus.Dispatch   *)
(* between which other callers and a crash may come; the other operations  *)
(* come in any order.  Persisting may fail: every caller of persist()      *)
(* drops its error and the memory goes on alone.                           *)
(*                                                                         *)
(* hist, durable, interrupted and crossed record what the callers were     *)
(* told and how they met, for the properties; no step reads them.          *)
(***************************************************************************)
EXTENDS SubStore, Functions

CONSTANTS Caller,
          MaxEntriesChoices,    \* DedupConfig.MaxEntries, one per opening
          TTL,
          PersistOutcomes,      \* {TRUE}, or {TRUE, FALSE} when the disk may fail
          MaxTime, MaxAdmissions, MaxCreated    \* bounds of the model

ASSUME MaxEntriesAssumption ==
    MaxEntriesChoices \subseteq Int /\ IsFiniteSet(MaxEntriesChoices) /\ MaxEntriesChoices # {}
ASSUME TTLAssumption == TTL \in Nat
ASSUME PersistAssumption == PersistOutcomes \subseteq BOOLEAN

VARIABLES file,                 \* the state last renamed into place
          store,                \* the open store object, None when there is none
          pending,              \* per caller, the event it admitted and has yet to record
          dirty,                \* the last persist failed: memory is ahead of the file
          interrupted,          \* ids a restart may have separated from their payload
          crossed,              \* two callers were between their two calls at once
          now, hist, durable

vars == <<file, store, pending, dirty, interrupted, crossed, now, hist, durable>>

MinWindow == Min({WindowSize(n) : n \in MaxEntriesChoices})
MaxWindow == Max({WindowSize(n) : n \in MaxEntriesChoices})

Contract == INSTANCE DedupWindow

Idle == [c \in Caller |-> None]

PendingIds == {pending[c].id : c \in {d \in Caller : pending[d] # None}}

Init ==
    /\ file = EmptyState
    /\ store = None
    /\ pending = Idle
    /\ dirty = FALSE
    /\ interrupted = {}
    /\ crossed = FALSE
    /\ now = 0
    /\ hist = <<>>
    /\ durable = 0

-----------------------------------------------------------------------------
\* The store object s after a call that persists, with its file.
Commit(s) ==
    \E ok \in PersistOutcomes :
        /\ store' = s
        /\ file' = IF ok THEN s.state ELSE file
        /\ dirty' = ~ok
        /\ durable' = IF ok THEN Len(hist') ELSE durable

\* newSubStore: the file is read and the index rebuilt; nothing is trimmed.
Open(n) ==
    /\ store = None
    /\ store' = NewSubStore(file, n, TTL)
    /\ UNCHANGED <<file, pending, dirty, interrupted, crossed, now, hist, durable>>

\* markSeen: a new event is admitted, persisted and handed to the caller; a
\* duplicate only evicts what expired, in memory.
MarkSeenCall(c, e) ==
    /\ store # None /\ pending[c] = None
    /\ \/ /\ IsNew(store, e.id, now)
          /\ Len(hist) < MaxAdmissions
          /\ hist' = Append(hist, [id |-> e.id, time |-> now])
          /\ pending' = [pending EXCEPT ![c] = e]
          /\ interrupted' = interrupted \ {e.id}
          /\ crossed' = (crossed \/ PendingIds # {})
          /\ Commit(MarkSeen(store, e.id, now))
       \/ /\ ~IsNew(store, e.id, now)
          /\ store' = MarkSeen(store, e.id, now)
          /\ UNCHANGED <<file, pending, dirty, interrupted, crossed, hist, durable>>
    /\ UNCHANGED now

\* recordEvent by the caller whose admission it follows.
RecordEventCall(c) ==
    /\ store # None /\ pending[c] # None
    /\ pending' = [pending EXCEPT ![c] = None]
    /\ UNCHANGED <<interrupted, crossed, now, hist>>
    /\ Commit(RecordEvent(store, pending[c].key, pending[c]))

BindCall(key, sid) ==
    /\ store # None
    /\ UNCHANGED <<pending, interrupted, crossed, now, hist>>
    /\ Commit(Bind(store, key, sid))

\* unbind: nothing is persisted for a key that is not bound.
UnbindCall(key) ==
    /\ store # None
    /\ store.state.bindings[key] # None
    /\ UNCHANGED <<pending, interrupted, crossed, now, hist>>
    /\ Commit(Unbind(store, key))

AddCreatedCall(sid) ==
    /\ store # None
    /\ Len(store.state.created) < MaxCreated
    /\ UNCHANGED <<pending, interrupted, crossed, now, hist>>
    /\ Commit(AddCreated(store, sid))

\* The process ends, or the subscription is unregistered: the object is gone
\* and the file stays.  What the callers had in hand goes with it, and if the
\* last persist failed the file may hold an id without its payload.  (A caller
\* that goes on with an unregistered object is a matter of EventBus.)
Drop ==
    /\ store # None
    /\ store' = None
    /\ pending' = Idle
    /\ dirty' = FALSE
    /\ interrupted' = interrupted \cup PendingIds \cup (IF dirty THEN Ids(file.seen) ELSE {})
    /\ hist' = SubSeq(hist, 1, durable)
    /\ UNCHANGED <<file, crossed, now, durable>>

Tick ==
    /\ now < MaxTime
    /\ now' = now + 1
    /\ UNCHANGED <<file, store, pending, dirty, interrupted, crossed, hist, durable>>

Next ==
    \/ \E n \in MaxEntriesChoices : Open(n)
    \/ \E c \in Caller, e \in Event : MarkSeenCall(c, e)
    \/ \E c \in Caller : RecordEventCall(c)
    \/ \E k \in Key, s \in Session : BindCall(k, s)
    \/ \E k \in Key : UnbindCall(k)
    \/ \E s \in Session : AddCreatedCall(s)
    \/ Drop
    \/ Tick

Spec == Init /\ [][Next]_vars

-----------------------------------------------------------------------------
TypeOK ==
    /\ file \in State
    /\ store \in Store \cup {None}
    /\ pending \in [Caller -> Event \cup {None}]
    /\ dirty \in BOOLEAN
    /\ interrupted \subseteq EventId
    /\ crossed \in BOOLEAN
    /\ now \in Nat
    /\ hist \in Seq(SeenEntry)
    /\ durable \in Nat

\* The O(1) index and the window it indexes agree after every rotation, expiry
\* and reload, and no id stands in the window twice: otherwise an id that left
\* the window is skipped for ever, or one that is in it is driven again.
IndexMatchesWindow ==
    store # None =>
        /\ store.index = Ids(store.state.seen)
        /\ IsInjective([i \in DOMAIN store.state.seen |-> store.state.seen[i].id])

\* Dropping the process loses no dedup answer: while every admission reached
\* the disk, a store opened from the file tells every id new exactly when the
\* live one does, although the live one also evicts without persisting.
ReloadAnswersAlike ==
    store # None /\ durable = Len(hist) =>
        \A id \in EventId :
            IsNew(NewSubStore(file, store.maxSeen, TTL), id, now) = IsNew(store, id, now)

\* The replay window holds one payload per id and never more than the largest
\* window configured.
ReplayWindowBounded ==
    store # None =>
        /\ IsInjective([i \in DOMAIN store.state.events |-> store.state.events[i].event.id])
        /\ Len(store.state.events) <= MaxWindow

\* What substore.go says of the replay window: an operator can retry every event of
\* the dedup window, once its caller has recorded it, unless a restart came between
\* the two calls or after a failed persist.
EverySeenIsRetryable ==
    store # None =>
        Ids(store.state.seen) \subseteq
            {store.state.events[i].event.id : i \in DOMAIN store.state.events}
            \cup PendingIds \cup interrupted

\* It is so for serial dispatch: as long as no caller admitted an event while another
\* had its own still to record, whoever they are, over rotation, failed writes and
\* restarts with another size.  Two that cross may record in the other order, and the
\* payload then rotates out before its id does.
SeenIsRetryable == ~crossed => EverySeenIsRetryable

\* The dedup check refuses an id only while the id is in the window: nothing
\* that rotated out, expired or was lost in a restart is dropped as a duplicate.
RefusesOnlyTheWindow ==
    store # None =>
        \A id \in EventId : IsNew(store, id, now) \/ id \in Contract!Window(MaxWindow)

\* An id is processed at most once per window, over any sequence of restarts,
\* changes of the window size and failed writes.
OncePerWindow == Contract!DWSpec
=============================================================================
