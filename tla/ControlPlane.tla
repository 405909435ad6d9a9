---------------------------- MODULE ControlPlane ----------------------------
(***************************************************************************)
(* The control plane (internal/eventbus/registry.go) and the pollers it    *)
(* runs (source.go): handlers and sources are added and removed by         *)
(* requests, persisted in one file and rebuilt from it when the process    *)
(* starts; every source is a goroutine that fetches what its upstream      *)
(* shows and dispatches it, tick after tick.                               *)
(*                                                                         *)
(* The registry's mutex is held through each request and by nobody else: a *)
(* request is one step.  RemoveSource cancels the goroutine's context and  *)
(* does not wait for it, so a poller outlives its source for a while and   *)
(* may run beside the poller of a source added again under the same name.  *)
(*                                                                         *)
(* The bus's list of subscriptions and the registry's handlers change      *)
(* together.  A dispatch goes through the subscriptions (Ref) it found     *)
(* when it began, each with its store object, and marks and records in     *)
(* separate steps, while handlers are removed and added again.  Its stores *)
(* persist and every handler matches every event; the sessions, and        *)
(* callers other than the pollers, are left to EventBus.                   *)
(*                                                                         *)
(* driven, newest, forked and acked record what happened, for the          *)
(* properties; no step reads them.                                         *)
(***************************************************************************)
EXTENDS SubStore, Functions, FiniteSets

CONSTANTS Handler, Source,
          Poller,               \* poller goroutines that may run at once
          Object,               \* store objects of one handler that may be alive at once
          MaxEntries,           \* the handlers' DedupConfig.MaxEntries
          PersistOutcomes,      \* {TRUE}, or {TRUE, FALSE} when the disk may fail
          MaxRequests, MaxCrashes    \* bounds of the model

ASSUME PersistAssumption == PersistOutcomes \subseteq BOOLEAN
ASSUME SizeAssumption == MaxEntries \in Int /\ MaxRequests \in Nat /\ MaxCrashes \in Nat
ASSUME NamesAssumption == None \notin Source /\ Handler \cap Source = {} /\ Object # {}

VARIABLES mode,                 \* of the process: down, booting or serving
          todo,                 \* the specs NewRegistry has yet to rebuild
          handlers, sources,    \* Registry.handlers and Registry.sources
          object,               \* the store object that serves each handler
          file,                 \* _registry.json, None when there is none
          poller,               \* the goroutines
          stores,               \* the store object of every Ref
          files,                \* the file of every handler
          shown, past,          \* the events each upstream shows, and those it ever showed
          driven,               \* per handler, how often each event was processed
          newest,               \* the newest events it processed, one window of them
          forked,               \* handlers added again while a dispatch still used them
          acked,                \* what the last answered request on a name achieved
          requests, crashes

registryVars == <<mode, todo, handlers, sources, object, file, acked, requests, forked>>
storeVars == <<stores, files>>
upstreamVars == <<shown, past>>
workVars == <<driven, newest>>
vars == <<registryVars, poller, storeVars, upstreamVars, workVars, crashes>>

Ref == [name : Handler, obj : Object]

Specs == [handlers : SUBSET Handler, sources : SUBSET Source]

ASSUME FileAssumption == None \notin Specs

NoSpecs == [handlers |-> {}, sources |-> {}]

\* batch: the events fetched and not yet dispatched; event, left and at: the dispatch
\* under way, the subscriptions it has yet to come to and the one it is at.
PollerState == [source : Source \cup {None}, cancelled : BOOLEAN, batch : SUBSET Event,
                event : Event \cup {None}, left : SUBSET Ref, at : Ref \cup {None},
                pc : {"off", "tick", "fetch", "dispatch", "mark", "record", "wait"}]

Off == [source |-> None, pc |-> "off", cancelled |-> FALSE, batch |-> {},
        event |-> None, left |-> {}, at |-> None]

Init ==
    /\ mode = "down"
    /\ todo = NoSpecs
    /\ handlers = {} /\ sources = {}
    /\ object = [h \in Handler |-> CHOOSE o \in Object : TRUE]
    /\ file = None
    /\ poller = [p \in Poller |-> Off]
    /\ stores = [r \in Ref |-> None]
    /\ files = [h \in Handler |-> EmptyState]
    /\ shown = [s \in Source |-> {}] /\ past = {}
    /\ driven = [h \in Handler |-> [e \in Event |-> 0]]
    /\ newest = [h \in Handler |-> <<>>]
    /\ forked = {}
    /\ acked = [n \in Handler \cup Source |-> "none"]
    /\ requests = 0
    /\ crashes = 0

-----------------------------------------------------------------------------
(* Starting.  main serves requests when NewRegistry has rebuilt everything; *)
(* the sources rebuilt first poll while the others are being built.         *)

\* Mutant: an absent file is not replaced by an empty one.
LoadAsIs(f) == f

Load(f) == IF f = None THEN NoSpecs ELSE f

Boot ==
    /\ mode = "down"
    /\ mode' = "booting"
    /\ todo' = Load(file)
    /\ UNCHANGED <<handlers, sources, object, file, acked, requests, forked>>
    /\ UNCHANGED <<poller, storeVars, upstreamVars, workVars, crashes>>

\* Subscription r is one that a dispatch under way found and has yet to leave.
InUse(r) == \E p \in Poller : r \in poller[p].left \/ r = poller[p].at

\* Bus.Register opens a new store object on the handler's file; those that nobody
\* refers to any more are collected.
OpenStore(h) ==
    LET free == {r \in Ref : r.name = h /\ ~InUse(r)}
        new  == CHOOSE r \in free : TRUE
    IN  /\ free # {}
        /\ object' = [object EXCEPT ![h] = new.obj]
        /\ stores' = [r \in Ref |-> IF r = new THEN NewSubStore(files[h], MaxEntries, 0)
                                   ELSE IF r \in free THEN None ELSE stores[r]]
        /\ forked' = IF \E r \in Ref : r.name = h /\ InUse(r) THEN forked \cup {h} ELSE forked
        /\ UNCHANGED files

RebuildHandler(h) ==
    /\ mode = "booting" /\ h \in todo.handlers
    /\ todo' = [todo EXCEPT !.handlers = @ \ {h}]
    /\ handlers' = handlers \cup {h}
    /\ OpenStore(h)
    /\ UNCHANGED <<mode, sources, file, acked, requests, poller, upstreamVars, workVars, crashes>>

\* startSource: the goroutine begins with a tick.
StartSource(s) ==
    \E p \in Poller :
        /\ poller[p].pc = "off"
        /\ poller' = [poller EXCEPT ![p] = [Off EXCEPT !.source = s, !.pc = "tick"]]

RebuildSource(s) ==
    /\ mode = "booting" /\ todo.handlers = {} /\ s \in todo.sources
    /\ todo' = [todo EXCEPT !.sources = @ \ {s}]
    /\ StartSource(s)
    /\ sources' = sources \cup {s}
    /\ UNCHANGED <<mode, handlers, object, file, acked, requests, forked>>
    /\ UNCHANGED <<storeVars, upstreamVars, workVars, crashes>>

Serve ==
    /\ mode = "booting" /\ todo = NoSpecs
    /\ mode' = "serving"
    /\ UNCHANGED <<todo, handlers, sources, object, file, acked, requests, forked>>
    /\ UNCHANGED <<poller, storeVars, upstreamVars, workVars, crashes>>

\* The process ends and leaves the files: a crash, or a boot that fails half-way
\* on a spec that no longer builds, for want of its token say.
Exit ==
    /\ mode # "down" /\ crashes < MaxCrashes
    /\ crashes' = crashes + 1
    /\ mode' = "down"
    /\ todo' = NoSpecs
    /\ handlers' = {} /\ sources' = {}
    /\ poller' = [p \in Poller |-> Off]
    /\ stores' = [r \in Ref |-> None]
    /\ UNCHANGED <<object, file, acked, requests, forked, files, upstreamVars, workVars>>

-----------------------------------------------------------------------------
(* Requests.  Those refused (a name that exists, or does not, or a spec     *)
(* that does not compile) change nothing.  The answer follows persisting:   *)
(* an error says that it failed, and the change is live all the same.       *)

\* Mutant: the answer does not wait for the disk.
PersistUnreported(name, achieved) ==
    \E ok \in PersistOutcomes :
        /\ file' = IF ok THEN [handlers |-> handlers', sources |-> sources'] ELSE file
        /\ acked' = [acked EXCEPT ![name] = achieved]

\* persistLocked, and the answer to a request on name.
Persist(name, achieved) ==
    \E ok \in PersistOutcomes :
        /\ file' = IF ok THEN [handlers |-> handlers', sources |-> sources'] ELSE file
        /\ acked' = [acked EXCEPT ![name] = IF ok THEN achieved ELSE "failed"]

Request ==
    /\ mode = "serving" /\ requests < MaxRequests
    /\ requests' = requests + 1
    /\ UNCHANGED <<mode, todo, upstreamVars, workVars, crashes>>

AddHandler(h) ==
    /\ Request
    /\ h \notin handlers
    /\ handlers' = handlers \cup {h}
    /\ OpenStore(h)
    /\ UNCHANGED <<sources, poller>>
    /\ Persist(h, "added")

\* Mutant: the handler's file goes with the handler.
RemoveHandlerForgetting(h) ==
    /\ Request
    /\ h \in handlers
    /\ handlers' = handlers \ {h}
    /\ files' = [files EXCEPT ![h] = EmptyState]
    /\ UNCHANGED <<sources, object, forked, stores, poller>>
    /\ Persist(h, "removed")

\* A dispatch under way keeps its subscription and the store object behind it.
RemoveHandler(h) ==
    /\ Request
    /\ h \in handlers
    /\ handlers' = handlers \ {h}
    /\ UNCHANGED <<sources, object, forked, poller, storeVars>>
    /\ Persist(h, "removed")

AddSource(s) ==
    /\ Request
    /\ s \notin sources
    /\ StartSource(s)
    /\ sources' = sources \cup {s}
    /\ UNCHANGED <<handlers, object, forked, storeVars>>
    /\ Persist(s, "added")

Active(p, s) == poller[p].source = s /\ ~poller[p].cancelled

\* Mutant: the source is forgotten and its poller is not cancelled.
CancelNothing(s) == UNCHANGED poller

\* cancels[s]()
Cancel(s) ==
    poller' = [p \in Poller |-> IF Active(p, s) THEN [poller[p] EXCEPT !.cancelled = TRUE] ELSE poller[p]]

RemoveSource(s) ==
    /\ Request
    /\ s \in sources
    /\ Cancel(s)
    /\ sources' = sources \ {s}
    /\ UNCHANGED <<handlers, object, forked, storeVars>>
    /\ Persist(s, "removed")

-----------------------------------------------------------------------------
(* A poller: Run and tick.                                                  *)

SetPoller(p, q) == poller' = [poller EXCEPT ![p] = q]

\* A fetch with a cancelled context fails at once.
BeginFetch(p) ==
    /\ poller[p].pc = "tick"
    /\ SetPoller(p, [poller[p] EXCEPT !.pc = IF poller[p].cancelled THEN "wait" ELSE "fetch"])
    /\ UNCHANGED <<registryVars, storeVars, upstreamVars, workVars, crashes>>

\* All that the upstream shows, as the codehub, workitem and exec sources return
\* it (GitHub's returns what changed since the last tick).  A context cancelled
\* meanwhile may come too late.
FetchReturns(p) ==
    /\ poller[p].pc = "fetch"
    /\ SetPoller(p, [poller[p] EXCEPT !.pc = "dispatch", !.batch = shown[poller[p].source]])
    /\ UNCHANGED <<registryVars, storeVars, upstreamVars, workVars, crashes>>

\* Mutant: an error ends the poller.
FetchKills(p) ==
    /\ poller[p].pc = "fetch"
    /\ SetPoller(p, Off)
    /\ UNCHANGED <<registryVars, storeVars, upstreamVars, workVars, crashes>>

\* The error is logged and the next tick tries again.
FetchFails(p) ==
    /\ poller[p].pc = "fetch"
    /\ SetPoller(p, [poller[p] EXCEPT !.pc = "wait"])
    /\ UNCHANGED <<registryVars, storeVars, upstreamVars, workVars, crashes>>

\* The poller's dispatch goes on with the subscriptions left, or is done.
GoesOn(q) == IF q.left = {} THEN [q EXCEPT !.pc = "dispatch", !.event = None, !.at = None]
             ELSE [q EXCEPT !.pc = "mark", !.at = None]

\* Dispatch of the next event of the batch begins; the context is not looked at.
DispatchNext(p) ==
    /\ poller[p].pc = "dispatch"
    /\ \E e \in poller[p].batch :
        SetPoller(p, GoesOn([poller[p] EXCEPT !.batch = @ \ {e}, !.event = e,
                                              !.left = {[name |-> h, obj |-> object[h]] : h \in handlers}]))
    /\ UNCHANGED <<registryVars, storeVars, upstreamVars, workVars, crashes>>

\* The store object of subscription r after a call, persisted to its file.
SetStore(r, s) ==
    /\ stores' = [stores EXCEPT ![r] = s]
    /\ files' = [files EXCEPT ![r.name] = s.state]

\* One more subscription: a new event is marked seen, and the handler processes it.
MarkNext(p) ==
    /\ poller[p].pc = "mark"
    /\ \E r \in poller[p].left :
        LET e    == poller[p].event
            here == [poller[p] EXCEPT !.left = @ \ {r}]
        IN  \/ /\ IsNew(stores[r], e.id, 0)
               /\ SetStore(r, MarkSeen(stores[r], e.id, 0))
               /\ driven' = [driven EXCEPT ![r.name][e] = @ + 1]
               /\ newest' = [newest EXCEPT ![r.name] =
                                IF Len(@) < WindowSize(MaxEntries) THEN Append(@, e.id)
                                ELSE Append(Tail(@), e.id)]
               /\ SetPoller(p, [here EXCEPT !.pc = "record", !.at = r])
            \/ /\ ~IsNew(stores[r], e.id, 0)
               /\ SetPoller(p, GoesOn(here))
               /\ UNCHANGED <<storeVars, workVars>>
    /\ UNCHANGED <<registryVars, upstreamVars, crashes>>

RecordNext(p) ==
    /\ poller[p].pc = "record"
    /\ LET r == poller[p].at
       IN  SetStore(r, RecordEvent(stores[r], None, poller[p].event))
    /\ SetPoller(p, GoesOn(poller[p]))
    /\ UNCHANGED <<registryVars, upstreamVars, workVars, crashes>>

TickDone(p) ==
    /\ poller[p].pc = "dispatch" /\ poller[p].batch = {}
    /\ SetPoller(p, [poller[p] EXCEPT !.pc = "wait"])
    /\ UNCHANGED <<registryVars, storeVars, upstreamVars, workVars, crashes>>

\* The ticker fires.  When the context is cancelled too, select takes either.
NextTick(p) ==
    /\ poller[p].pc = "wait"
    /\ SetPoller(p, [poller[p] EXCEPT !.pc = "tick"])
    /\ UNCHANGED <<registryVars, storeVars, upstreamVars, workVars, crashes>>

\* Mutant: the loop waits for the ticker alone.
StopNever(p) == poller[p].pc = "off" /\ SetPoller(p, Off) /\ UNCHANGED vars

Stop(p) ==
    /\ poller[p].pc = "wait" /\ poller[p].cancelled
    /\ SetPoller(p, Off)
    /\ UNCHANGED <<registryVars, storeVars, upstreamVars, workVars, crashes>>

-----------------------------------------------------------------------------
(* The upstreams.  An event is a version of an item, its subject.           *)

Change(s, e) ==
    /\ e \notin past
    /\ past' = past \cup {e}
    /\ shown' = [shown EXCEPT ![s] = {f \in @ : f.subject # e.subject} \cup {e}]
    /\ UNCHANGED <<registryVars, poller, storeVars, workVars, crashes>>

-----------------------------------------------------------------------------
PollerStep(p) ==
    \/ BeginFetch(p) \/ FetchReturns(p) \/ FetchFails(p)
    \/ DispatchNext(p) \/ MarkNext(p) \/ RecordNext(p) \/ TickDone(p) \/ NextTick(p) \/ Stop(p)

Next ==
    \/ Boot \/ Serve \/ Exit
    \/ \E h \in Handler : RebuildHandler(h) \/ AddHandler(h) \/ RemoveHandler(h)
    \/ \E s \in Source : RebuildSource(s) \/ AddSource(s) \/ RemoveSource(s)
    \/ \E p \in Poller : PollerStep(p)
    \/ \E s \in Source, e \in Event : Change(s, e)

Spec == Init /\ [][Next]_vars

\* Goroutines are scheduled, a fetch ends and a failing upstream recovers; select
\* picks at random among its ready cases, so it cannot pass over one for ever.
FairSpec ==
    /\ Spec
    /\ \A p \in Poller : WF_vars(PollerStep(p)) /\ SF_vars(FetchReturns(p)) /\ SF_vars(Stop(p))

-----------------------------------------------------------------------------
TypeOK ==
    /\ mode \in {"down", "booting", "serving"}
    /\ todo \in Specs
    /\ handlers \subseteq Handler /\ sources \subseteq Source
    /\ object \in [Handler -> Object]
    /\ file \in Specs \cup {None}
    /\ poller \in [Poller -> PollerState]
    /\ stores \in [Ref -> Store \cup {None}]
    /\ files \in [Handler -> State]
    /\ shown \in [Source -> SUBSET Event] /\ past \subseteq Event
    /\ driven \in [Handler -> [Event -> Nat]]
    /\ newest \in [Handler -> Seq(EventId)]
    /\ forked \subseteq Handler
    /\ acked \in [Handler \cup Source -> {"none", "added", "removed", "failed"}]
    /\ requests \in Nat /\ crashes \in Nat

\* A request that was answered without an error holds until the next request on
\* that name, over any restarts and whatever other requests failed to persist.
AcknowledgedSurvives ==
    mode = "serving" =>
        \A n \in Handler \cup Source :
            /\ acked[n] = "added"   => n \in handlers \cup sources
            /\ acked[n] = "removed" => n \notin handlers \cup sources

\* Every source that is listed has exactly one poller that is not cancelled,
\* and no other source has one, even while cancelled pollers are still at work.
OnePollerPerSource ==
    mode # "down" =>
        \A s \in Source :
            Cardinality({p \in Poller : Active(p, s)}) = IF s \in sources THEN 1 ELSE 0

\* An upstream item that does not change drives no further work while the window can
\* know it: a handler never processes an event that is among the newest it processed,
\* as many as its window holds, over any number of ticks, two pollers of one source,
\* restarts, and removal of the source or the handler, also under a dispatch that goes
\* on with the old store object.  The exception is a handler added again under one.
UnchangedDrivesNothing ==
    [][\A h \in Handler, e \in Event :
        driven'[h][e] # driven[h][e] => e.id \notin Range(newest[h]) \/ h \in forked]_vars

\* Polling makes up for what was missed: an event that its upstream goes on
\* showing reaches every handler, also one that was added after it was
\* dispatched, and although fetches fail now and then.
EventsReachHandlers ==
    \A s \in Source, h \in Handler, e \in Event :
        s \in sources /\ h \in handlers /\ e \in shown[s] ~>
            \/ driven[h][e] > 0
            \/ s \notin sources \/ h \notin handlers \/ e \notin shown[s]

\* The goroutine of a removed source ends.
PollersEnd == \A p \in Poller : poller[p].cancelled ~> ~poller[p].cancelled
=============================================================================
