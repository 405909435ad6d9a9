------------------------- MODULE ControlPlane_proofs -------------------------
(***************************************************************************)
(* What holds of the control plane for any number of handlers, sources,    *)
(* pollers and requests: an acknowledged request survives every restart,   *)
(* and a source that is listed has one poller at work for it.              *)
(*                                                                         *)
(* Both rest on the boot: while it rebuilds, what is live and what is left *)
(* to do make up the file.  An acknowledgement is a fact of the file, and  *)
(* of what is live once the boot is over; a request that fails to persist  *)
(* makes the two differ on its own name alone, of which nothing is         *)
(* acknowledged any more.                                                  *)
(*                                                                         *)
(* The last theorem is about the pollers' dispatches: while a handler has  *)
(* one store object that anybody refers to, its file mirrors the newest    *)
(* events it processed, whoever fetched them (Stored).                     *)
(***************************************************************************)
EXTENDS ControlPlane, SubStore_proofs

\* What was acknowledged of every name holds of a set of names.
Holds(names) ==
    \A n \in Handler \cup Source :
        /\ acked[n] = "added"   => n \in names
        /\ acked[n] = "removed" => n \notin names

Acknowledged ==
    /\ Holds(Load(file).handlers \cup Load(file).sources)
    /\ mode = "serving" => Holds(handlers \cup sources)

\* The boot has rebuilt a part of the file and has the rest to do.
BootSound ==
    /\ mode = "booting" =>
        /\ handlers \cup todo.handlers = Load(file).handlers
        /\ sources \cup todo.sources = Load(file).sources
        /\ sources \cap todo.sources = {}
    /\ mode = "down" => handlers = {} /\ sources = {}

PollersSound ==
    /\ \A p \in Poller : poller[p].pc = "off" => poller[p] = Off
    /\ \A p \in Poller : poller[p].pc # "off" => poller[p].source \in Source
    /\ \A s \in Source : s \in sources <=> \E p \in Poller : Active(p, s)
    /\ \A s \in Source : \A p, q \in Poller : Active(p, s) /\ Active(q, s) => p = q
    /\ \A p \in Poller : /\ poller[p].pc \in {"mark", "record"} => poller[p].event \in Event
                         /\ poller[p].pc = "record" => poller[p].at \in Ref

FilesSound == \A h \in Handler : DistinctIds(files[h].seen) /\ DistinctEvents(files[h].events)

\* A store object as Register opened it, but for its state.
Opened(s) ==
    /\ s \in Store /\ Indexed(s) /\ s.maxSeen = WindowSize(MaxEntries) /\ s.ttl = 0
    /\ DistinctEvents(s.state.events)

\* Subscription r is the bus's, or one that a dispatch under way works on.
Serves(r) == r.name \in handlers /\ r.obj = object[r.name]

Held(r) ==
    \E p \in Poller : r \in poller[p].left \/ (poller[p].pc = "record" /\ r = poller[p].at)

Live(r) == Serves(r) \/ Held(r)

\* Each has its store object.
ObjectsSound == \A r \in Ref : Live(r) => Opened(stores[r])

\* A handler that was never added again under a dispatch has one of them, which agrees
\* with its file, and the file mirrors the newest events the handler processed.
WindowKept ==
    \A h \in Handler \ forked :
        /\ Mirrors(files[h].seen, newest[h]) /\ Len(newest[h]) <= WindowSize(MaxEntries)
        /\ \A r \in Ref : r.name = h /\ Live(r) => stores[r].state = files[h]
        /\ \A q, r \in Ref : q.name = h /\ r.name = h /\ Live(q) /\ Live(r) => q = r

StoreTypes ==
    /\ object \in [Handler -> Object] /\ forked \subseteq Handler
    /\ stores \in [Ref -> Store \cup {None}] /\ files \in [Handler -> State]
    /\ newest \in [Handler -> Seq(EventId)] /\ driven \in [Handler -> [Event -> Nat]]

Stored == StoreTypes /\ FilesSound /\ ObjectsSound /\ WindowKept

Inv == TypeOK /\ Acknowledged /\ BootSound /\ PollersSound /\ Stored

-----------------------------------------------------------------------------
\* The file as a boot would read it.
LEMMA LoadType ==
    ASSUME TypeOK
    PROVE  Load(file) \in Specs /\ Load(file).handlers \subseteq Handler /\ Load(file).sources \subseteq Source
BY DEF TypeOK, Load, NoSpecs, Specs

\* Nothing is there at first.
LEMMA InitInv == Init => Inv
<1> SUFFICES ASSUME Init PROVE Inv
    OBVIOUS
<1>1. EmptyState \in State /\ EmptyState.seen = <<>> /\ EmptyState.events = <<>> /\ Len(<<>>) = 0
    BY EmptyStateType DEF EmptyState
<1>2. Off \in PollerState /\ Off.source = None /\ Off.pc = "off" /\ Off.cancelled = FALSE /\ Off.left = {}
    BY DEF Off, PollerState
<1>3. StoreTypes
  <2>1. \A r \in Ref : stores[r] = None
      BY DEF Init
  <2>2. \A h \in Handler : object[h] \in Object
      BY NamesAssumption DEF Init
  <2>3. object \in [Handler -> Object] /\ forked \subseteq Handler
      BY <2>2 DEF Init
  <2>4. files \in [Handler -> State] /\ newest \in [Handler -> Seq(EventId)]
      BY <1>1 DEF Init
  <2> QED
      BY <2>3, <2>4 DEF Init, StoreTypes
<1>4. TypeOK
  <2>1. NoSpecs \in Specs
      BY DEF NoSpecs, Specs
  <2> QED
      BY <1>2, <1>3, <2>1 DEF Init, TypeOK, StoreTypes
<1>5. Acknowledged /\ BootSound
    BY DEF Init, Acknowledged, Holds, BootSound
<1>6. PollersSound
    BY <1>2, NamesAssumption DEF Init, PollersSound, Active
<1>7. FilesSound
    BY <1>1 DEF Init, FilesSound, DistinctIds, DistinctEvents
<1>8. \A r \in Ref : ~Live(r)
    BY <1>2 DEF Init, Live, Serves, Held
<1>9. WindowKept
  <2>1. 0 <= WindowSize(MaxEntries)
      BY SizeAssumption, DefaultMaxEntriesAssumption DEF WindowSize
  <2>2. Mirrors(<<>>, <<>>)
      BY <1>1 DEF Mirrors
  <2> QED
      BY <1>1, <1>8, <2>1, <2>2 DEF Init, WindowKept
<1> QED
    BY <1>3, <1>4, <1>5, <1>6, <1>7, <1>8, <1>9 DEF Inv, Stored, ObjectsSound

-----------------------------------------------------------------------------
(* The store objects.                                                       *)

\* Nothing happens to them, and nobody finds another subscription.
LEMMA StoredStays ==
    ASSUME Stored, UNCHANGED <<object, stores, files, newest, driven, forked>>,
           \A r \in Ref : Live(r)' => Live(r)
    PROVE  Stored'
BY DEF Stored, StoreTypes, FilesSound, ObjectsSound, WindowKept

\* A call on the store of a subscription that is live changes it and its file.
LEMMA SetStoreSound ==
    ASSUME Stored, NEW r \in Ref, Live(r), NEW t, Opened(t), SetStore(r, t),
           UNCHANGED <<object, forked>>, \A q \in Ref : Live(q)' => Live(q),
           newest' \in [Handler -> Seq(EventId)], driven' \in [Handler -> [Event -> Nat]],
           \A h \in Handler : h # r.name => newest'[h] = newest[h],
           r.name \notin forked =>
               Mirrors(t.state.seen, newest'[r.name]) /\ Len(newest'[r.name]) <= WindowSize(MaxEntries)
    PROVE  Stored'
<1>1. StoreTypes /\ FilesSound /\ ObjectsSound /\ WindowKept
    BY DEF Stored
<1>2. r.name \in Handler
    BY DEF Ref
<1>3. t \in Store /\ t.state \in State /\ DistinctIds(t.state.seen) /\ DistinctEvents(t.state.events)
    BY DEF Opened, Store, Indexed
<1>4. /\ stores' \in [Ref -> Store \cup {None}] /\ files' \in [Handler -> State]
      /\ \A q \in Ref : stores'[q] = IF q = r THEN t ELSE stores[q]
      /\ \A h \in Handler : files'[h] = IF h = r.name THEN t.state ELSE files[h]
    BY <1>1, <1>2, <1>3 DEF SetStore, StoreTypes
<1>5. StoreTypes'
    BY <1>1, <1>4 DEF StoreTypes
<1>6. FilesSound'
    BY <1>1, <1>3, <1>4 DEF FilesSound
<1>7. ObjectsSound'
    BY <1>1, <1>4 DEF ObjectsSound, Opened
<1>8. WindowKept'
  <2> SUFFICES ASSUME NEW h \in Handler \ forked
               PROVE  /\ Mirrors(files'[h].seen, newest'[h]) /\ Len(newest'[h]) <= WindowSize(MaxEntries)
                      /\ \A q \in Ref : q.name = h /\ Live(q)' => stores'[q].state = files'[h]
                      /\ \A q, u \in Ref : q.name = h /\ u.name = h /\ Live(q)' /\ Live(u)' => q = u
      BY DEF WindowKept
  <2>1. /\ Mirrors(files[h].seen, newest[h]) /\ Len(newest[h]) <= WindowSize(MaxEntries)
        /\ \A q \in Ref : q.name = h /\ Live(q) => stores[q].state = files[h]
        /\ \A q, u \in Ref : q.name = h /\ u.name = h /\ Live(q) /\ Live(u) => q = u
      BY <1>1 DEF WindowKept
  <2>2. CASE h # r.name
    <3>1. files'[h] = files[h] /\ newest'[h] = newest[h] /\ \A q \in Ref : q.name = h => stores'[q] = stores[q]
        BY <1>4, <2>2
    <3> QED
        BY <2>1, <3>1
  <2>3. CASE h = r.name
    <3>1. \A q \in Ref : q.name = h /\ Live(q)' => q = r
        BY <2>1, <2>3
    <3>2. files'[h] = t.state /\ stores'[r] = t
        BY <1>2, <1>4, <2>3
    <3>3. Mirrors(t.state.seen, newest'[h]) /\ Len(newest'[h]) <= WindowSize(MaxEntries)
        BY <2>3
    <3> QED
        BY <3>1, <3>2, <3>3
  <2> QED
      BY <2>2, <2>3
<1> QED
    BY <1>5, <1>6, <1>7, <1>8 DEF Stored

\* Register opens a store object on the file; nobody has another of this handler, unless
\* a dispatch under way uses one, which counts as forked.
LEMMA OpenStoreSound ==
    ASSUME Stored, NEW h \in Handler, OpenStore(h), handlers' = handlers \cup {h},
           UNCHANGED <<poller, newest, driven>>
    PROVE  Stored'
<1>1. StoreTypes /\ FilesSound /\ ObjectsSound /\ WindowKept
    BY DEF Stored
<1>2. PICK free : free = {r \in Ref : r.name = h /\ ~InUse(r)}
    OBVIOUS
<1>3. PICK new : new = CHOOSE r \in free : TRUE
    OBVIOUS
<1>4. /\ free # {} /\ object' = [object EXCEPT ![h] = new.obj]
      /\ stores' = [r \in Ref |-> IF r = new THEN NewSubStore(files[h], MaxEntries, 0)
                                 ELSE IF r \in free THEN None ELSE stores[r]]
      /\ forked' = IF \E r \in Ref : r.name = h /\ InUse(r) THEN forked \cup {h} ELSE forked
      /\ UNCHANGED files
    BY <1>2, <1>3 DEF OpenStore
<1>5. new \in free
    BY <1>3, <1>4
<1>6. new \in Ref /\ new.name = h /\ new.obj \in Object /\ ~InUse(new)
    BY <1>2, <1>5 DEF Ref
<1>7. PICK opened : opened = NewSubStore(files[h], MaxEntries, 0)
    OBVIOUS
<1>8. Opened(opened) /\ opened.state = files[h] /\ opened \in Store
  <2>1. files[h] \in State /\ DistinctIds(files[h].seen) /\ DistinctEvents(files[h].events)
      BY <1>1 DEF StoreTypes, FilesSound
  <2>2. /\ opened \in Store /\ Indexed(opened) /\ opened.state = files[h]
        /\ opened.maxSeen = WindowSize(MaxEntries)
      BY <1>7, <2>1, NewSubStoreIndexed, SizeAssumption
  <2>3. opened.ttl = 0
      BY <1>7 DEF NewSubStore
  <2> QED
      BY <2>1, <2>2, <2>3 DEF Opened
<1>9. /\ object' \in [Handler -> Object] /\ object'[h] = new.obj
      /\ \A g \in Handler : g # h => object'[g] = object[g]
    BY <1>1, <1>4, <1>6 DEF StoreTypes
<1>10. /\ stores' \in [Ref -> Store \cup {None}]
       /\ \A r \in Ref : stores'[r] = IF r = new THEN opened ELSE IF r \in free THEN None ELSE stores[r]
    BY <1>1, <1>4, <1>7, <1>8 DEF StoreTypes
<1>11. \A r \in Ref : (Held(r)' <=> Held(r)) /\ (Held(r) => InUse(r))
    BY DEF Held, InUse
<1>12. \A r \in Ref : r.name # h => (Serves(r)' <=> Serves(r))
  <2>1. \A r \in Ref : r.name \in Handler
      BY DEF Ref
  <2> QED
      BY <1>9, <2>1 DEF Serves
<1>13. \A r \in Ref : r.name = h /\ Serves(r)' => r = new
  <2>1. \A r \in Ref : r = [name |-> r.name, obj |-> r.obj]
      BY DEF Ref
  <2> QED
      BY <1>6, <1>9, <2>1 DEF Serves
<1>14. ASSUME NEW r \in Ref, Live(r)'
       PROVE  r = new \/ (Live(r) /\ stores'[r] = stores[r])
  <2>1. CASE r.name = h
    <3>1. Held(r) => r \notin free
        BY <1>2, <1>11
    <3> QED
        BY <1>10, <1>11, <1>13, <1>14, <2>1, <3>1 DEF Live
  <2>2. CASE r.name # h
      BY <1>2, <1>6, <1>10, <1>11, <1>12, <1>14, <2>2 DEF Live
  <2> QED
      BY <2>1, <2>2
<1>15. ObjectsSound'
    BY <1>1, <1>8, <1>10, <1>14 DEF ObjectsSound, Opened
<1>16. StoreTypes' /\ FilesSound'
    BY <1>1, <1>4, <1>9, <1>10 DEF StoreTypes, FilesSound
<1>17. WindowKept'
  <2> SUFFICES ASSUME NEW g \in Handler \ forked'
               PROVE  /\ Mirrors(files'[g].seen, newest'[g]) /\ Len(newest'[g]) <= WindowSize(MaxEntries)
                      /\ \A q \in Ref : q.name = g /\ Live(q)' => stores'[q].state = files'[g]
                      /\ \A q, u \in Ref : q.name = g /\ u.name = g /\ Live(q)' /\ Live(u)' => q = u
      BY DEF WindowKept
  <2>1. g \notin forked /\ (g = h => \A r \in Ref : r.name = h => ~InUse(r))
      BY <1>4
  <2>2. /\ Mirrors(files[g].seen, newest[g]) /\ Len(newest[g]) <= WindowSize(MaxEntries)
        /\ \A q \in Ref : q.name = g /\ Live(q) => stores[q].state = files[g]
        /\ \A q, u \in Ref : q.name = g /\ u.name = g /\ Live(q) /\ Live(u) => q = u
      BY <1>1, <2>1 DEF WindowKept
  <2>3. CASE g # h
      BY <1>4, <1>6, <1>14, <2>2, <2>3
  <2>4. CASE g = h
    <3>1. \A q \in Ref : q.name = h /\ Live(q)' => q = new
        BY <1>11, <1>13, <2>1, <2>4 DEF Live
    <3> QED
        BY <1>4, <1>6, <1>8, <1>10, <2>2, <2>4, <3>1
  <2> QED
      BY <2>3, <2>4
<1> QED
    BY <1>15, <1>16, <1>17 DEF Stored

-----------------------------------------------------------------------------
(* Starting and stopping.                                                   *)

\* The boot begins with all of the file to do.
LEMMA BootInv == ASSUME Inv, Boot PROVE Inv'
<1>1. Load(file) \in Specs
    BY LoadType DEF Inv
<1>2. /\ UNCHANGED <<handlers, sources, file, acked, requests, poller, shown, past, crashes>>
      /\ UNCHANGED <<object, stores, files, newest, driven, forked>>
    BY DEF Boot, storeVars, upstreamVars, workVars
<1>3. Stored'
    BY <1>2, StoredStays DEF Inv, Live, Serves, Held
<1>4. TypeOK'
    BY <1>1, <1>2 DEF Boot, Inv, TypeOK
<1>5. Acknowledged' /\ BootSound'
    BY <1>2 DEF Boot, Inv, Acknowledged, Holds, BootSound
<1>6. PollersSound'
    BY <1>2 DEF Inv, PollersSound, Active
<1> QED
    BY <1>3, <1>4, <1>5, <1>6 DEF Inv

\* A handler less to do is one more that is live.
LEMMA RebuildHandlerInv == ASSUME Inv, NEW h \in Handler, RebuildHandler(h) PROVE Inv'
<1>1. UNCHANGED <<mode, sources, file, acked, requests, poller, shown, past, newest, driven, crashes>>
    BY DEF RebuildHandler, upstreamVars, workVars
<1>2. /\ mode = "booting" /\ h \in todo.handlers /\ handlers' = handlers \cup {h} /\ todo \in Specs
      /\ todo' = [todo EXCEPT !.handlers = todo.handlers \ {h}] /\ OpenStore(h)
    BY DEF RebuildHandler, Inv, TypeOK
<1>3. todo' \in Specs /\ todo'.handlers = todo.handlers \ {h} /\ todo'.sources = todo.sources
    BY <1>2 DEF Specs
<1>4. Stored'
    BY <1>1, <1>2, OpenStoreSound DEF Inv
<1>5. TypeOK'
    BY <1>1, <1>2, <1>3, <1>4 DEF Inv, TypeOK, Stored, StoreTypes
<1>6. Acknowledged' /\ BootSound'
    BY <1>1, <1>2, <1>3 DEF Inv, Acknowledged, Holds, BootSound
<1>7. PollersSound'
    BY <1>1 DEF Inv, PollersSound, Active
<1> QED
    BY <1>4, <1>5, <1>6, <1>7 DEF Inv

\* A source that is not listed starts: it gets its one poller.
LEMMA StartSourceSound ==
    ASSUME Inv, NEW s \in Source, s \notin sources, StartSource(s), sources' = sources \cup {s}
    PROVE  /\ PollersSound'
           /\ \A r \in Ref : Held(r)' => Held(r)
           /\ poller' \in [Poller -> PollerState]
<1> DEFINE on == [Off EXCEPT !.source = s, !.pc = "tick"]
<1>1. PICK p \in Poller : poller[p].pc = "off" /\ poller' = [poller EXCEPT ![p] = on]
    BY DEF StartSource
<1>2. /\ on \in PollerState
      /\ on.source = s /\ on.pc = "tick" /\ on.cancelled = FALSE
    BY DEF Off, PollerState
<1> HIDE DEF on
<1>3. /\ poller \in [Poller -> PollerState]
      /\ PollersSound
    BY DEF Inv, TypeOK
<1>4. \A q \in Poller : poller'[q] = IF q = p THEN on ELSE poller[q]
    BY <1>1, <1>3
<1>5. Off.source = None /\ Off.left = {} /\ on.left = {}
    BY DEF Off, on
<1>6. \A t \in Source : ~Active(p, t)
    BY <1>1, <1>3, <1>5, NamesAssumption DEF PollersSound, Active
<1>7. \A t \in Source, q \in Poller : Active(q, t)' <=> (Active(q, t) \/ (q = p /\ t = s))
    BY <1>2, <1>4, <1>6 DEF Active
<1>8. \A t \in Source : t \in sources' <=> \E q \in Poller : Active(q, t)'
    BY <1>3, <1>7 DEF PollersSound
<1>9. \A q \in Poller : ~Active(q, s)
    BY <1>3 DEF PollersSound
<1>10. \A t \in Source : \A q, r \in Poller : Active(q, t)' /\ Active(r, t)' => q = r
    BY <1>3, <1>7, <1>9 DEF PollersSound
<1>11. \A q \in Poller : /\ poller'[q].pc = "off" => poller'[q] = Off
                         /\ poller'[q].pc # "off" => poller'[q].source \in Source
                         /\ poller'[q].pc \in {"mark", "record"} => poller'[q].event \in Event
                         /\ poller'[q].pc = "record" => poller'[q].at \in Ref
    BY <1>2, <1>3, <1>4 DEF PollersSound
<1>12. \A r \in Ref : Held(r)' => Held(r)
    BY <1>2, <1>4, <1>5 DEF Held
<1> QED
    BY <1>1, <1>2, <1>3, <1>8, <1>10, <1>11, <1>12 DEF PollersSound, Active

\* A source less to do is one more that is live, with its poller.
LEMMA RebuildSourceInv == ASSUME Inv, NEW s \in Source, RebuildSource(s) PROVE Inv'
<1>1. /\ UNCHANGED <<mode, handlers, file, acked, requests, shown, past, crashes>>
      /\ UNCHANGED <<object, stores, files, newest, driven, forked>>
    BY DEF RebuildSource, storeVars, upstreamVars, workVars
<1>2. /\ mode = "booting" /\ s \in todo.sources /\ sources' = sources \cup {s} /\ todo \in Specs
      /\ todo' = [todo EXCEPT !.sources = todo.sources \ {s}] /\ StartSource(s)
    BY DEF RebuildSource, Inv, TypeOK
<1>3. s \notin sources
    BY <1>2 DEF Inv, BootSound
<1>4. todo' \in Specs /\ todo'.sources = todo.sources \ {s} /\ todo'.handlers = todo.handlers
    BY <1>2 DEF Specs
<1>5. PollersSound' /\ poller' \in [Poller -> PollerState] /\ \A r \in Ref : Held(r)' => Held(r)
    BY <1>2, <1>3, StartSourceSound
<1>6. Stored'
    BY <1>1, <1>5, StoredStays DEF Inv, Live, Serves
<1>7. TypeOK'
    BY <1>1, <1>2, <1>4, <1>5 DEF Inv, TypeOK
<1>8. Acknowledged' /\ BootSound'
    BY <1>1, <1>2, <1>3, <1>4 DEF Inv, Acknowledged, Holds, BootSound
<1> QED
    BY <1>5, <1>6, <1>7, <1>8 DEF Inv

\* When nothing is left to do, what is live is the file.
LEMMA ServeInv == ASSUME Inv, Serve PROVE Inv'
<1>1. /\ UNCHANGED <<todo, handlers, sources, file, acked, requests, poller, shown, past, crashes>>
      /\ UNCHANGED <<object, stores, files, newest, driven, forked>>
    BY DEF Serve, storeVars, upstreamVars, workVars
<1>2. mode = "booting" /\ todo = NoSpecs /\ mode' = "serving"
    BY DEF Serve
<1>3. handlers = Load(file).handlers /\ sources = Load(file).sources
    BY <1>2 DEF Inv, BootSound, NoSpecs
<1>4. Acknowledged' /\ BootSound'
    BY <1>1, <1>2, <1>3 DEF Inv, Acknowledged, Holds, BootSound
<1>5. TypeOK' /\ PollersSound'
    BY <1>1, <1>2 DEF Inv, TypeOK, PollersSound, Active
<1>6. Stored'
    BY <1>1, StoredStays DEF Inv, Live, Serves, Held
<1> QED
    BY <1>4, <1>5, <1>6 DEF Inv

\* The process ends: what was acknowledged is in the file.
LEMMA ExitInv == ASSUME Inv, Exit PROVE Inv'
<1>1. UNCHANGED <<object, file, acked, requests, forked, files, shown, past, newest, driven>>
    BY DEF Exit, upstreamVars, workVars
<1>2. Off.source = None /\ Off.pc = "off" /\ Off.left = {} /\ Off \in PollerState
    BY DEF Off, PollerState
<1>3. \A r \in Ref : ~Live(r)'
    BY <1>2 DEF Exit, Live, Serves, Held
<1>4. Stored'
  <2>1. StoreTypes'
      BY <1>1 DEF Exit, Inv, Stored, StoreTypes
  <2>2. FilesSound' /\ ObjectsSound'
      BY <1>1, <1>3 DEF Inv, Stored, FilesSound, ObjectsSound
  <2>3. WindowKept'
      BY <1>1, <1>3 DEF Inv, Stored, WindowKept
  <2> QED
      BY <2>1, <2>2, <2>3 DEF Stored
<1>5. TypeOK'
  <2>1. NoSpecs \in Specs
      BY DEF NoSpecs, Specs
  <2> QED
      BY <1>1, <1>2, <1>4, <2>1 DEF Exit, Inv, TypeOK, Stored, StoreTypes
<1>6. Acknowledged' /\ BootSound'
    BY <1>1 DEF Exit, Inv, Acknowledged, Holds, BootSound
<1>7. PollersSound'
    BY <1>2, NamesAssumption DEF Exit, PollersSound, Active
<1> QED
    BY <1>4, <1>5, <1>6, <1>7 DEF Inv

-----------------------------------------------------------------------------
(* Requests.                                                                *)

\* A request on a name changes the listing of that name as it reports, and is
\* acknowledged only when the listing is in the file.
LEMMA PersistSound ==
    ASSUME Inv, mode = "serving", NEW n \in Handler \cup Source, NEW a \in {"added", "removed"},
           Persist(n, a), mode' = mode,
           handlers' \subseteq Handler, sources' \subseteq Source,
           handlers' \cup sources' = IF a = "added" THEN (handlers \cup sources) \cup {n}
                                                    ELSE (handlers \cup sources) \ {n}
    PROVE  /\ Acknowledged' /\ BootSound'
           /\ file' \in Specs \cup {None}
           /\ acked' \in [Handler \cup Source -> {"none", "added", "removed", "failed"}]
<1> DEFINE live == [handlers |-> handlers', sources |-> sources']
<1>1. PICK ok \in PersistOutcomes :
        /\ file' = IF ok THEN live ELSE file
        /\ acked' = [acked EXCEPT ![n] = IF ok THEN a ELSE "failed"]
    BY DEF Persist
<1>2. ok \in BOOLEAN
    BY PersistAssumption
<1>3. live \in Specs /\ Load(live) = live /\ live.handlers = handlers' /\ live.sources = sources'
  <2>1. live \in Specs
      BY DEF Specs
  <2> QED
      BY <2>1, FileAssumption DEF Load
<1> HIDE DEF live
<1>4. /\ acked \in [Handler \cup Source -> {"none", "added", "removed", "failed"}]
      /\ Holds(handlers \cup sources) /\ Holds(Load(file).handlers \cup Load(file).sources)
      /\ file \in Specs \cup {None}
    BY DEF Inv, TypeOK, Acknowledged
<1>5. \A m \in Handler \cup Source : m # n => acked'[m] = acked[m]
    BY <1>1, <1>4
<1>6. acked'[n] = IF ok THEN a ELSE "failed"
    BY <1>1, <1>4
<1>7. Holds(handlers \cup sources)'
    BY <1>2, <1>4, <1>5, <1>6 DEF Holds
<1>8. Holds(Load(file).handlers \cup Load(file).sources)'
  <2>1. CASE ok
      BY <1>1, <1>3, <1>7, <2>1 DEF Holds
  <2>2. CASE ~ok
      BY <1>1, <1>4, <1>5, <1>6, <2>2 DEF Holds
  <2> QED
      BY <1>2, <2>1, <2>2
<1> QED
    BY <1>1, <1>2, <1>3, <1>4, <1>7, <1>8 DEF Acknowledged, BootSound

\* A request of a handler changes its listing, and no source's.
LEMMA HandlerRequestInv ==
    ASSUME Inv, NEW h \in Handler, NEW a \in {"added", "removed"},
           Request, UNCHANGED <<sources, poller>>, Persist(h, a), Stored',
           handlers' = IF a = "added" THEN handlers \cup {h} ELSE handlers \ {h}
    PROVE  Inv'
<1>1. mode = "serving" /\ requests' = requests + 1 /\ UNCHANGED <<mode, todo, shown, past, crashes>>
    BY DEF Request, upstreamVars
<1>2. h \in Handler \cup Source /\ h \notin sources /\ handlers' \subseteq Handler /\ sources' \subseteq Source
    BY NamesAssumption DEF Inv, TypeOK
<1>3. handlers' \cup sources' = IF a = "added" THEN (handlers \cup sources) \cup {h}
                                               ELSE (handlers \cup sources) \ {h}
    BY <1>2
<1>4. /\ Acknowledged' /\ BootSound'
      /\ file' \in Specs \cup {None}
      /\ acked' \in [Handler \cup Source -> {"none", "added", "removed", "failed"}]
    BY <1>1, <1>2, <1>3, PersistSound
<1>5. TypeOK'
    BY <1>1, <1>2, <1>4 DEF Inv, TypeOK, Stored, StoreTypes
<1>6. PollersSound'
    BY DEF Inv, PollersSound, Active
<1> QED
    BY <1>4, <1>5, <1>6 DEF Inv

\* A new handler gets a store object.
LEMMA AddHandlerInv == ASSUME Inv, NEW h \in Handler, AddHandler(h) PROVE Inv'
<1>1. /\ Request /\ UNCHANGED <<sources, poller, newest, driven>> /\ OpenStore(h)
      /\ handlers' = handlers \cup {h} /\ Persist(h, "added")
    BY DEF AddHandler, Request, workVars
<1>2. Stored'
    BY <1>1, OpenStoreSound DEF Inv
<1> QED
    BY <1>1, <1>2, HandlerRequestInv

\* A handler that is removed leaves its store object to the dispatches that use it.
LEMMA RemoveHandlerInv == ASSUME Inv, NEW h \in Handler, RemoveHandler(h) PROVE Inv'
<1>1. /\ Request /\ UNCHANGED <<sources, poller>> /\ Persist(h, "removed")
      /\ UNCHANGED <<object, stores, files, newest, driven, forked>>
      /\ handlers' = handlers \ {h}
    BY DEF RemoveHandler, Request, storeVars, workVars
<1>2. Stored'
    BY <1>1, StoredStays DEF Inv, Live, Serves, Held
<1> QED
    BY <1>1, <1>2, HandlerRequestInv

\* A new source gets its poller, and no handler changes.
LEMMA AddSourceInv == ASSUME Inv, NEW s \in Source, AddSource(s) PROVE Inv'
<1>1. /\ mode = "serving" /\ requests' = requests + 1 /\ UNCHANGED <<mode, todo, shown, past, crashes>>
      /\ s \notin sources /\ StartSource(s) /\ sources' = sources \cup {s}
      /\ UNCHANGED handlers /\ Persist(s, "added")
      /\ UNCHANGED <<object, stores, files, newest, driven, forked>>
    BY DEF AddSource, Request, storeVars, upstreamVars, workVars
<1>2. s \in Handler \cup Source /\ handlers' \subseteq Handler /\ sources' \subseteq Source
    BY <1>1 DEF Inv, TypeOK
<1>3. handlers' \cup sources' = (handlers \cup sources) \cup {s}
    BY <1>1
<1>4. /\ Acknowledged' /\ BootSound'
      /\ file' \in Specs \cup {None}
      /\ acked' \in [Handler \cup Source -> {"none", "added", "removed", "failed"}]
    BY <1>1, <1>2, <1>3, PersistSound
<1>5. PollersSound' /\ poller' \in [Poller -> PollerState] /\ \A r \in Ref : Held(r)' => Held(r)
    BY <1>1, StartSourceSound
<1>6. Stored'
    BY <1>1, <1>5, StoredStays DEF Inv, Live, Serves
<1>7. TypeOK'
    BY <1>1, <1>2, <1>4, <1>5 DEF Inv, TypeOK
<1> QED
    BY <1>4, <1>5, <1>6, <1>7 DEF Inv

\* Cancelling leaves every poller at its place: those of s stop being active.
LEMMA CancelSound ==
    ASSUME Inv, NEW s \in Source, Cancel(s), sources' = sources \ {s}
    PROVE  /\ PollersSound'
           /\ \A r \in Ref : Held(r)' => Held(r)
           /\ poller' \in [Poller -> PollerState]
<1>1. /\ poller \in [Poller -> PollerState]
      /\ PollersSound
    BY DEF Inv, TypeOK
<1>2. Off.source = None
    BY DEF Off
<1>3. ASSUME NEW p \in Poller
      PROVE  /\ Active(p, s) => /\ poller'[p].source = s /\ poller'[p].cancelled
                                /\ poller'[p].pc = poller[p].pc
                                /\ poller'[p].left = poller[p].left /\ poller'[p].at = poller[p].at
                                /\ poller'[p].event = poller[p].event
             /\ ~Active(p, s) => poller'[p] = poller[p]
             /\ poller'[p] \in PollerState
    BY <1>1 DEF Cancel, Active, PollerState
<1>4. \A p \in Poller : Active(p, s) => poller[p].pc # "off"
    BY <1>1, <1>2, NamesAssumption DEF PollersSound, Active
<1>5. \A p \in Poller, t \in Source : Active(p, t)' <=> (Active(p, t) /\ t # s)
    BY <1>3 DEF Active
<1>6. \A t \in Source : t \in sources' <=> \E p \in Poller : Active(p, t)'
    BY <1>1, <1>5 DEF PollersSound
<1>7. \A t \in Source : \A p, q \in Poller : Active(p, t)' /\ Active(q, t)' => p = q
    BY <1>1, <1>5 DEF PollersSound
<1>8. \A p \in Poller : /\ poller'[p].pc = "off" => poller'[p] = Off
                        /\ poller'[p].pc # "off" => poller'[p].source \in Source
                        /\ poller'[p].pc \in {"mark", "record"} => poller'[p].event \in Event
                        /\ poller'[p].pc = "record" => poller'[p].at \in Ref
    BY <1>1, <1>3, <1>4 DEF PollersSound, Active
<1>9. poller' = [p \in Poller |-> poller'[p]]
    BY DEF Cancel
<1>10. \A r \in Ref : Held(r)' => Held(r)
    BY <1>3 DEF Held
<1> QED
    BY <1>3, <1>6, <1>7, <1>8, <1>9, <1>10 DEF PollersSound

\* A removed source loses its listing and its active poller together.
LEMMA RemoveSourceInv == ASSUME Inv, NEW s \in Source, RemoveSource(s) PROVE Inv'
<1>1. /\ mode = "serving" /\ requests' = requests + 1 /\ UNCHANGED <<mode, todo, shown, past, crashes>>
      /\ Cancel(s) /\ sources' = sources \ {s}
      /\ UNCHANGED handlers /\ Persist(s, "removed")
      /\ UNCHANGED <<object, stores, files, newest, driven, forked>>
    BY DEF RemoveSource, Request, storeVars, upstreamVars, workVars
<1>2. /\ s \in Handler \cup Source /\ s \notin handlers
      /\ handlers' \subseteq Handler /\ sources' \subseteq Source
    BY <1>1, NamesAssumption DEF Inv, TypeOK
<1>3. handlers' \cup sources' = (handlers \cup sources) \ {s}
    BY <1>1, <1>2
<1>4. /\ Acknowledged' /\ BootSound'
      /\ file' \in Specs \cup {None}
      /\ acked' \in [Handler \cup Source -> {"none", "added", "removed", "failed"}]
    BY <1>1, <1>2, <1>3, PersistSound
<1>5. PollersSound' /\ poller' \in [Poller -> PollerState] /\ \A r \in Ref : Held(r)' => Held(r)
    BY <1>1, CancelSound
<1>6. Stored'
    BY <1>1, <1>5, StoredStays DEF Inv, Live, Serves
<1>7. TypeOK'
    BY <1>1, <1>2, <1>4, <1>5 DEF Inv, TypeOK
<1> QED
    BY <1>4, <1>5, <1>6, <1>7 DEF Inv

-----------------------------------------------------------------------------
(* Pollers.                                                                 *)

\* A poller that moves on, for its source and cancelled as before, or a cancelled
\* one that ends, changes nothing of who polls what.
LEMMA SetPollerSound ==
    ASSUME Inv, NEW p \in Poller, poller[p].pc # "off", NEW q \in PollerState, SetPoller(p, q),
           UNCHANGED sources,
           \/ q.source = poller[p].source /\ q.cancelled = poller[p].cancelled /\ q.pc # "off"
           \/ poller[p].cancelled /\ q = Off,
           q.pc \in {"mark", "record"} => q.event \in Event,
           q.pc = "record" => q.at \in Ref
    PROVE  /\ PollersSound' /\ poller' \in [Poller -> PollerState]
           /\ \A r \in Ref : Held(r)' => Held(r) \/ r \in q.left \/ (q.pc = "record" /\ r = q.at)
<1>1. poller \in [Poller -> PollerState] /\ PollersSound
    BY DEF Inv, TypeOK
<1>2. \A r \in Poller : poller'[r] = IF r = p THEN q ELSE poller[r]
    BY <1>1 DEF SetPoller
<1>3. Off.source = None /\ Off.pc = "off"
    BY DEF Off
<1>4. \A r \in Poller, s \in Source : Active(r, s)' <=> Active(r, s)
    BY <1>2, <1>3, NamesAssumption DEF Active
<1>5. \A r \in Poller : /\ poller'[r].pc = "off" => poller'[r] = Off
                        /\ poller'[r].pc # "off" => poller'[r].source \in Source
                        /\ poller'[r].pc \in {"mark", "record"} => poller'[r].event \in Event
                        /\ poller'[r].pc = "record" => poller'[r].at \in Ref
    BY <1>1, <1>2, <1>3 DEF PollersSound
<1>6. poller' \in [Poller -> PollerState]
    BY <1>1 DEF SetPoller
<1>7. \A s \in Source : s \in sources' <=> \E r \in Poller : Active(r, s)'
    BY <1>1, <1>4 DEF PollersSound
<1>8. \A s \in Source : \A r, t \in Poller : Active(r, s)' /\ Active(t, s)' => r = t
    BY <1>1, <1>4 DEF PollersSound
<1>9. \A r \in Ref : Held(r)' => Held(r) \/ r \in q.left \/ (q.pc = "record" /\ r = q.at)
    BY <1>2 DEF Held
<1> QED
    BY <1>5, <1>6, <1>7, <1>8, <1>9 DEF PollersSound

\* A step of the pollers leaves the registry alone.
LEMMA PollerStepInv ==
    ASSUME Inv, UNCHANGED <<mode, todo, handlers, sources, file, acked, requests, shown, past, crashes>>,
           PollersSound', poller' \in [Poller -> PollerState], Stored'
    PROVE  Inv'
<1>1. TypeOK'
    BY DEF Inv, TypeOK, Stored, StoreTypes
<1>2. Acknowledged' /\ BootSound'
    BY DEF Inv, Acknowledged, Holds, BootSound
<1> QED
    BY <1>1, <1>2 DEF Inv

\* A poller goes on to the subscriptions left, or its dispatch is done.
LEMMA GoesOnType ==
    ASSUME NEW q \in PollerState, q.event \in Event
    PROVE  /\ GoesOn(q) \in PollerState
           /\ GoesOn(q).source = q.source /\ GoesOn(q).cancelled = q.cancelled
           /\ GoesOn(q).pc \in {"dispatch", "mark"} /\ GoesOn(q).left = q.left
           /\ GoesOn(q).pc = "mark" => GoesOn(q).event \in Event
BY DEF GoesOn, PollerState

\* A step of a poller that touches its own record alone, and begins no dispatch.
LEMMA QuietStepInv ==
    ASSUME Inv, NEW p \in Poller,
           BeginFetch(p) \/ FetchReturns(p) \/ FetchFails(p) \/ TickDone(p) \/ NextTick(p) \/ Stop(p)
    PROVE  Inv'
<1>1. /\ UNCHANGED <<mode, todo, handlers, sources, file, acked, requests, shown, past, crashes>>
      /\ UNCHANGED <<object, stores, files, newest, driven, forked>>
    BY DEF BeginFetch, FetchReturns, FetchFails, TickDone, NextTick, Stop,
           registryVars, storeVars, upstreamVars, workVars
<1>2. poller[p] \in PollerState /\ poller \in [Poller -> PollerState] /\ PollersSound
    BY DEF Inv, TypeOK
<1>3. PICK q \in PollerState :
        /\ SetPoller(p, q) /\ poller[p].pc # "off" /\ q.pc \notin {"mark", "record"}
        /\ q.left \subseteq poller[p].left
        /\ \/ q.source = poller[p].source /\ q.cancelled = poller[p].cancelled /\ q.pc # "off"
           \/ poller[p].cancelled /\ q = Off
  <2> DEFINE at(c) == [poller[p] EXCEPT !.pc = c]
  <2>1. ASSUME NEW c \in {"tick", "fetch", "wait"}
        PROVE  /\ at(c) \in PollerState /\ at(c).pc = c /\ at(c).left = poller[p].left
               /\ at(c).source = poller[p].source /\ at(c).cancelled = poller[p].cancelled
      BY <1>2 DEF PollerState
  <2>2. CASE BeginFetch(p)
    <3> DEFINE c == IF poller[p].cancelled THEN "wait" ELSE "fetch"
    <3>1. c \in {"tick", "fetch", "wait"} /\ SetPoller(p, at(c)) /\ poller[p].pc # "off"
        BY <2>2 DEF BeginFetch
    <3> HIDE DEF c
    <3>2. /\ at(c) \in PollerState /\ at(c).pc = c /\ at(c).left = poller[p].left
          /\ at(c).source = poller[p].source /\ at(c).cancelled = poller[p].cancelled
        BY <2>1, <3>1
    <3> HIDE DEF at
    <3> QED
        BY <3>1, <3>2
  <2>3. CASE FetchReturns(p)
    <3> DEFINE q == [poller[p] EXCEPT !.pc = "dispatch", !.batch = shown[poller[p].source]]
    <3>1. poller[p].pc # "off" /\ SetPoller(p, q)
        BY <2>3 DEF FetchReturns
    <3>2. shown[poller[p].source] \in SUBSET Event
        BY <1>2, <3>1 DEF Inv, TypeOK, PollersSound
    <3>3. /\ q \in PollerState /\ q.pc = "dispatch" /\ q.left = poller[p].left
          /\ q.source = poller[p].source /\ q.cancelled = poller[p].cancelled
        BY <1>2, <3>2 DEF PollerState
    <3> HIDE DEF q
    <3> QED
        BY <3>1, <3>3
  <2>4. CASE FetchFails(p) \/ TickDone(p)
    <3>1. SetPoller(p, at("wait")) /\ poller[p].pc # "off"
        BY <2>4 DEF FetchFails, TickDone
    <3> HIDE DEF at
    <3> QED
        BY <2>1, <3>1
  <2>5. CASE NextTick(p)
    <3>1. SetPoller(p, at("tick")) /\ poller[p].pc # "off"
        BY <2>5 DEF NextTick
    <3> HIDE DEF at
    <3> QED
        BY <2>1, <3>1
  <2>6. CASE Stop(p)
    <3>1. Off \in PollerState /\ Off.left = {} /\ Off.pc = "off"
        BY DEF Off, PollerState
    <3> QED
        BY <2>6, <3>1 DEF Stop
  <2> QED
      BY <2>2, <2>3, <2>4, <2>5, <2>6
<1>4. /\ PollersSound' /\ poller' \in [Poller -> PollerState]
      /\ \A r \in Ref : Held(r)' => Held(r) \/ r \in q.left \/ (q.pc = "record" /\ r = q.at)
    BY <1>1, <1>3, SetPollerSound
<1>5. Stored'
  <2>1. \A r \in Ref : Live(r)' => Live(r)
      BY <1>1, <1>3, <1>4 DEF Live, Serves, Held
  <2> QED
      BY <1>1, <2>1, StoredStays DEF Inv
<1> QED
    BY <1>1, <1>4, <1>5, PollerStepInv

\* A dispatch takes the subscriptions of the moment.
LEMMA DispatchNextInv == ASSUME Inv, NEW p \in Poller, DispatchNext(p) PROVE Inv'
<1>1. /\ UNCHANGED <<mode, todo, handlers, sources, file, acked, requests, shown, past, crashes>>
      /\ UNCHANGED <<object, stores, files, newest, driven, forked>>
    BY DEF DispatchNext, registryVars, storeVars, upstreamVars, workVars
<1>2. poller[p] \in PollerState /\ poller[p].pc = "dispatch" /\ handlers \subseteq Handler
      /\ object \in [Handler -> Object]
    BY DEF DispatchNext, Inv, TypeOK
<1>3. PICK snapshot : snapshot = {[name |-> h, obj |-> object[h]] : h \in handlers}
    OBVIOUS
<1>4. snapshot \in SUBSET Ref /\ \A r \in snapshot : Serves(r)
    BY <1>2, <1>3 DEF Ref, Serves
<1>5. PICK e \in poller[p].batch :
        SetPoller(p, GoesOn([poller[p] EXCEPT !.batch = poller[p].batch \ {e}, !.event = e, !.left = snapshot]))
    BY <1>3 DEF DispatchNext
<1>6. e \in Event
    BY <1>2 DEF PollerState
<1> DEFINE q == [poller[p] EXCEPT !.batch = poller[p].batch \ {e}, !.event = e, !.left = snapshot]
<1>7. /\ q \in PollerState /\ q.event \in Event /\ q.left = snapshot
      /\ q.source = poller[p].source /\ q.cancelled = poller[p].cancelled
    BY <1>2, <1>4, <1>6 DEF PollerState
<1>8. SetPoller(p, GoesOn(q))
    BY <1>5
<1> HIDE DEF q
<1>9. PICK u \in PollerState :
        /\ u = GoesOn(q) /\ u.source = poller[p].source /\ u.cancelled = poller[p].cancelled
        /\ u.pc \in {"dispatch", "mark"} /\ u.left = snapshot /\ (u.pc = "mark" => u.event \in Event)
    BY <1>7, GoesOnType
<1>10. /\ PollersSound' /\ poller' \in [Poller -> PollerState]
       /\ \A r \in Ref : Held(r)' => Held(r) \/ r \in u.left \/ (u.pc = "record" /\ r = u.at)
    BY <1>1, <1>2, <1>8, <1>9, SetPollerSound
<1>11. Stored'
  <2>1. \A r \in Ref : Live(r)' => Live(r)
      BY <1>1, <1>4, <1>9, <1>10 DEF Live, Serves
  <2> QED
      BY <1>1, <2>1, StoredStays DEF Inv
<1> QED
    BY <1>1, <1>10, <1>11, PollerStepInv

\* A new event enters the window of the subscription's store, and the newest processed.
LEMMA MarkNextInv == ASSUME Inv, NEW p \in Poller, MarkNext(p) PROVE Inv'
<1>1. /\ UNCHANGED <<mode, todo, handlers, sources, file, acked, requests, shown, past, crashes>>
      /\ UNCHANGED <<object, forked>>
    BY DEF MarkNext, registryVars, upstreamVars
<1>2. /\ poller[p] \in PollerState /\ poller[p].pc = "mark" /\ PollersSound
      /\ poller \in [Poller -> PollerState]
    BY DEF MarkNext, Inv, TypeOK
<1>3. PICK e \in Event : e = poller[p].event
    BY <1>2 DEF PollersSound
<1>4. e.id \in EventId
    BY DEF EventId
<1>5. PICK r \in poller[p].left :
        \/ /\ IsNew(stores[r], e.id, 0)
           /\ SetStore(r, MarkSeen(stores[r], e.id, 0))
           /\ driven' = [driven EXCEPT ![r.name][e] = driven[r.name][e] + 1]
           /\ newest' = [newest EXCEPT ![r.name] =
                            IF Len(newest[r.name]) < WindowSize(MaxEntries) THEN Append(newest[r.name], e.id)
                            ELSE Append(Tail(newest[r.name]), e.id)]
           /\ SetPoller(p, [[poller[p] EXCEPT !.left = poller[p].left \ {r}] EXCEPT !.pc = "record", !.at = r])
        \/ /\ ~IsNew(stores[r], e.id, 0)
           /\ SetPoller(p, GoesOn([poller[p] EXCEPT !.left = poller[p].left \ {r}]))
           /\ UNCHANGED <<stores, files, newest, driven>>
    BY <1>3 DEF MarkNext, storeVars, workVars
<1>6. r \in Ref /\ r.name \in Handler /\ Held(r) /\ Live(r)
    BY <1>2, <1>5 DEF PollerState, Held, Live, Ref
<1>7. Opened(stores[r])
    BY <1>6 DEF Inv, Stored, ObjectsSound
<1>8. PICK here : here = [poller[p] EXCEPT !.left = poller[p].left \ {r}]
    OBVIOUS
<1>9. /\ here \in PollerState /\ here.event \in Event /\ here.left \subseteq poller[p].left
      /\ here.source = poller[p].source /\ here.cancelled = poller[p].cancelled
    BY <1>2, <1>3, <1>8 DEF PollerState
<1>10. CASE IsNew(stores[r], e.id, 0)
  <2>1. /\ SetStore(r, MarkSeen(stores[r], e.id, 0))
        /\ driven' = [driven EXCEPT ![r.name][e] = driven[r.name][e] + 1]
        /\ newest' = [newest EXCEPT ![r.name] = Rotated(newest[r.name], e.id, WindowSize(MaxEntries))]
        /\ SetPoller(p, [here EXCEPT !.pc = "record", !.at = r])
      BY <1>5, <1>8, <1>10 DEF Rotated
  <2>2. PICK u : u = [here EXCEPT !.pc = "record", !.at = r]
      OBVIOUS
  <2>3. /\ u \in PollerState /\ u.pc = "record" /\ u.at = r /\ u.left = here.left /\ u.event = here.event
        /\ u.source = here.source /\ u.cancelled = here.cancelled
      BY <1>6, <1>9, <2>2 DEF PollerState
  <2>4. /\ PollersSound' /\ poller' \in [Poller -> PollerState]
        /\ \A q \in Ref : Held(q)' => Held(q) \/ q \in u.left \/ (u.pc = "record" /\ q = u.at)
    <3>1. SetPoller(p, u)
        BY <2>1, <2>2
    <3>2. /\ poller[p].pc # "off" /\ u.source = poller[p].source /\ u.cancelled = poller[p].cancelled
          /\ u.pc # "off" /\ u.event \in Event /\ u.at \in Ref
        BY <1>2, <1>6, <1>9, <2>3
    <3> QED
        BY <1>1, <2>3, <3>1, <3>2, SetPollerSound
  <2>5. \A q \in Ref : Live(q)' => Live(q)
    <3>1. \A q \in Ref : q \in poller[p].left => Held(q)
        BY DEF Held
    <3> QED
        BY <1>1, <1>6, <1>9, <2>3, <2>4, <3>1 DEF Live, Serves
  <2>6. PICK t : t = MarkSeen(stores[r], e.id, 0)
      OBVIOUS
  <2>7. Opened(t)
      BY <1>4, <1>7, <2>6, MarkSeenIndexed DEF Opened, SameButWindow
  <2>8. /\ newest \in [Handler -> Seq(EventId)] /\ driven \in [Handler -> [Event -> Nat]]
        /\ WindowKept /\ Stored
      BY DEF Inv, Stored, StoreTypes
  <2>9. driven' \in [Handler -> [Event -> Nat]]
      BY <1>6, <2>1, <2>8
  <2>10. newest' \in [Handler -> Seq(EventId)]
    <3>1. Rotated(newest[r.name], e.id, WindowSize(MaxEntries)) \in Seq(EventId)
      <4>1. newest[r.name] \in Seq(EventId)
          BY <1>6, <2>8
      <4>2. WindowSize(MaxEntries) \in Nat \ {0}
          BY SizeAssumption, DefaultMaxEntriesAssumption DEF WindowSize
      <4>3. Len(newest[r.name]) >= WindowSize(MaxEntries) => newest[r.name] # <<>>
          BY <4>1, <4>2, EmptySeq
      <4> QED
          BY <1>4, <4>1, <4>2, <4>3, HeadTailProperties, AppendProperties DEF Rotated
    <3> QED
        BY <1>6, <2>1, <2>8, <3>1
  <2>11. \A h \in Handler : h # r.name => newest'[h] = newest[h]
      BY <1>6, <2>1, <2>8
  <2>12. r.name \notin forked =>
            Mirrors(t.state.seen, newest'[r.name]) /\ Len(newest'[r.name]) <= WindowSize(MaxEntries)
    <3> SUFFICES ASSUME r.name \notin forked
                 PROVE  Mirrors(t.state.seen, newest'[r.name]) /\ Len(newest'[r.name]) <= WindowSize(MaxEntries)
        OBVIOUS
    <3>1. PICK window \in Seq(EventId) : window = newest[r.name]
        BY <1>6, <2>8
    <3>2. stores[r].state = files[r.name] /\ Mirrors(files[r.name].seen, window) /\ Len(window) <= WindowSize(MaxEntries)
        BY <1>6, <2>8, <3>1 DEF WindowKept
    <3>3. PICK s \in Store : s = stores[r]
        BY <1>7 DEF Opened
    <3>4. /\ Indexed(s) /\ s.ttl = 0 /\ s.maxSeen = WindowSize(MaxEntries)
          /\ Mirrors(s.state.seen, window) /\ IsNew(s, e.id, 0)
        BY <1>7, <1>10, <3>2, <3>3 DEF Opened
    <3>5. /\ Len(Rotated(window, e.id, s.maxSeen)) <= s.maxSeen
          /\ Mirrors(MarkSeen(s, e.id, 0).state.seen, Rotated(window, e.id, s.maxSeen))
        BY <1>4, <3>2, <3>4, MarkSeenRotates
    <3>6. newest'[r.name] = Rotated(window, e.id, s.maxSeen)
        BY <1>6, <2>1, <2>8, <3>1, <3>4
    <3> QED
        BY <2>6, <3>3, <3>4, <3>5, <3>6
  <2>13. Stored'
      BY <1>1, <1>6, <2>1, <2>5, <2>6, <2>7, <2>8, <2>9, <2>10, <2>11, <2>12, SetStoreSound
  <2> QED
      BY <1>1, <2>4, <2>13, PollerStepInv
<1>11. CASE ~IsNew(stores[r], e.id, 0)
  <2>1. SetPoller(p, GoesOn(here)) /\ UNCHANGED <<stores, files, newest, driven>>
      BY <1>5, <1>8, <1>11
  <2>2. PICK u \in PollerState :
          /\ u = GoesOn(here) /\ u.source = here.source /\ u.cancelled = here.cancelled
          /\ u.pc \in {"dispatch", "mark"} /\ u.left = here.left /\ (u.pc = "mark" => u.event \in Event)
      BY <1>9, GoesOnType
  <2>3. /\ PollersSound' /\ poller' \in [Poller -> PollerState]
        /\ \A q \in Ref : Held(q)' => Held(q) \/ q \in u.left \/ (u.pc = "record" /\ q = u.at)
      BY <1>1, <1>2, <1>9, <2>1, <2>2, SetPollerSound
  <2>4. \A q \in Ref : Live(q)' => Live(q)
    <3>1. \A q \in Ref : q \in poller[p].left => Held(q)
        BY DEF Held
    <3> QED
        BY <1>1, <1>9, <2>2, <2>3, <3>1 DEF Live, Serves
  <2>5. Stored'
      BY <1>1, <2>1, <2>4, StoredStays DEF Inv
  <2> QED
      BY <1>1, <2>3, <2>5, PollerStepInv
<1> QED
    BY <1>10, <1>11

\* The event enters the replay window, and the dispatch goes on.
LEMMA RecordNextInv == ASSUME Inv, NEW p \in Poller, RecordNext(p) PROVE Inv'
<1>1. /\ UNCHANGED <<mode, todo, handlers, sources, file, acked, requests, shown, past, crashes>>
      /\ UNCHANGED <<object, forked, newest, driven>>
    BY DEF RecordNext, registryVars, upstreamVars, workVars
<1>2. /\ poller[p] \in PollerState /\ poller[p].pc = "record" /\ PollersSound
      /\ poller \in [Poller -> PollerState]
    BY DEF RecordNext, Inv, TypeOK
<1>3. PICK e \in Event : e = poller[p].event
    BY <1>2 DEF PollersSound
<1>4. PICK r \in Ref : r = poller[p].at
    BY <1>2 DEF PollersSound
<1>5. SetStore(r, RecordEvent(stores[r], None, e)) /\ SetPoller(p, GoesOn(poller[p]))
    BY <1>3, <1>4 DEF RecordNext
<1>6. Live(r) /\ r.name \in Handler
    BY <1>2, <1>4 DEF Held, Live, Ref
<1>7. Opened(stores[r])
    BY <1>6 DEF Inv, Stored, ObjectsSound
<1>8. PICK t : t = RecordEvent(stores[r], None, e)
    OBVIOUS
<1>9. Opened(t) /\ t.state.seen = stores[r].state.seen
  <2>1. PICK s \in Store : s = stores[r] /\ Opened(s)
      BY <1>7 DEF Opened
  <2>2. /\ t \in Store /\ SameWindow(s, t) /\ DistinctEvents(t.state.events)
      BY <1>8, <2>1, RecordEventProperties DEF Opened
  <2> QED
      BY <2>1, <2>2 DEF Opened, SameWindow, Indexed
<1>10. PICK u \in PollerState :
        /\ u = GoesOn(poller[p]) /\ u.source = poller[p].source /\ u.cancelled = poller[p].cancelled
        /\ u.pc \in {"dispatch", "mark"} /\ u.left = poller[p].left /\ (u.pc = "mark" => u.event \in Event)
    BY <1>2, <1>3, GoesOnType
<1>11. /\ PollersSound' /\ poller' \in [Poller -> PollerState]
       /\ \A q \in Ref : Held(q)' => Held(q) \/ q \in u.left \/ (u.pc = "record" /\ q = u.at)
    BY <1>1, <1>2, <1>5, <1>10, SetPollerSound
<1>12. \A q \in Ref : Live(q)' => Live(q)
  <2>1. \A q \in Ref : q \in poller[p].left => Held(q)
      BY DEF Held
  <2> QED
      BY <1>1, <1>10, <1>11, <2>1 DEF Live, Serves
<1>13. /\ newest \in [Handler -> Seq(EventId)] /\ driven \in [Handler -> [Event -> Nat]]
       /\ WindowKept /\ Stored
    BY DEF Inv, Stored, StoreTypes
<1>14. r.name \notin forked =>
          Mirrors(t.state.seen, newest'[r.name]) /\ Len(newest'[r.name]) <= WindowSize(MaxEntries)
    BY <1>1, <1>6, <1>9, <1>13 DEF WindowKept
<1>15. Stored'
    BY <1>1, <1>5, <1>6, <1>8, <1>9, <1>12, <1>13, <1>14, SetStoreSound
<1> QED
    BY <1>1, <1>11, <1>15, PollerStepInv

-----------------------------------------------------------------------------
\* Every step preserves the invariant.
LEMMA NextInv == Inv /\ [Next]_vars => Inv'
<1> SUFFICES ASSUME Inv, [Next]_vars PROVE Inv'
    OBVIOUS
<1>1. CASE Boot
    BY <1>1, BootInv
<1>2. CASE Serve
    BY <1>2, ServeInv
<1>3. CASE Exit
    BY <1>3, ExitInv
<1>4. ASSUME NEW h \in Handler, RebuildHandler(h) PROVE Inv'
    BY <1>4, RebuildHandlerInv
<1>5. ASSUME NEW h \in Handler, AddHandler(h) PROVE Inv'
    BY <1>5, AddHandlerInv
<1>6. ASSUME NEW h \in Handler, RemoveHandler(h) PROVE Inv'
    BY <1>6, RemoveHandlerInv
<1>7. ASSUME NEW s \in Source, RebuildSource(s) PROVE Inv'
    BY <1>7, RebuildSourceInv
<1>8. ASSUME NEW s \in Source, AddSource(s) PROVE Inv'
    BY <1>8, AddSourceInv
<1>9. ASSUME NEW s \in Source, RemoveSource(s) PROVE Inv'
    BY <1>9, RemoveSourceInv
<1>10. ASSUME NEW p \in Poller, PollerStep(p) PROVE Inv'
    BY <1>10, QuietStepInv, DispatchNextInv, MarkNextInv, RecordNextInv DEF PollerStep
<1>11. ASSUME NEW s \in Source, NEW e \in Event, Change(s, e) PROVE Inv'
  <2>1. /\ UNCHANGED <<mode, todo, handlers, sources, file, acked, requests, poller, crashes>>
        /\ UNCHANGED <<object, stores, files, newest, driven, forked>>
      BY <1>11 DEF Change, registryVars, storeVars, workVars
  <2>2. shown' \in [Source -> SUBSET Event] /\ past' \subseteq Event
    <3>1. {f \in shown[s] : f.subject # e.subject} \cup {e} \in SUBSET Event
        BY DEF Inv, TypeOK
    <3> QED
        BY <1>11, <3>1 DEF Change, Inv, TypeOK
  <2>3. TypeOK'
      BY <2>1, <2>2 DEF Inv, TypeOK
  <2>4. Stored'
      BY <2>1, StoredStays DEF Inv, Live, Serves, Held
  <2> QED
      BY <2>1, <2>3, <2>4 DEF Inv, Acknowledged, Holds, BootSound, PollersSound, Active
<1>12. CASE UNCHANGED vars
  <2>1. /\ UNCHANGED <<mode, todo, handlers, sources, file, acked, requests, poller, shown, past, crashes>>
        /\ UNCHANGED <<object, stores, files, newest, driven, forked>>
      BY <1>12 DEF vars, registryVars, storeVars, upstreamVars, workVars
  <2>2. Stored'
      BY <2>1, StoredStays DEF Inv, Live, Serves, Held
  <2> QED
      BY <2>1, <2>2 DEF Inv, TypeOK, Acknowledged, Holds, BootSound, PollersSound, Active
<1> QED
    BY <1>1, <1>2, <1>3, <1>4, <1>5, <1>6, <1>7, <1>8, <1>9, <1>10, <1>11, <1>12 DEF Next

\* The invariant of every behaviour.
LEMMA Invariance == Spec => []Inv
BY InitInv, NextInv, PTL DEF Spec

-----------------------------------------------------------------------------
\* Type correctness of the control plane, for every number of handlers, sources
\* and pollers.
THEOREM TypeCorrect == Spec => []TypeOK
<1>1. Inv => TypeOK
    BY DEF Inv
<1> QED
    BY <1>1, Invariance, PTL

\* What a request was answered stays true (AcknowledgedSurvives): through
\* restarts, boots that fail, and other requests that failed to persist.
THEOREM AcknowledgedCorrect == Spec => []AcknowledgedSurvives
<1>1. Inv => AcknowledgedSurvives
    BY DEF Inv, Acknowledged, Holds, AcknowledgedSurvives
<1> QED
    BY <1>1, Invariance, PTL

\* Every listed source is polled, once, and no other is (OnePollerPerSource),
\* whatever pollers of removed sources are still at work.
THEOREM OnePollerCorrect == Spec => []OnePollerPerSource
<1>1. ASSUME Inv PROVE OnePollerPerSource
  <2> SUFFICES ASSUME mode # "down", NEW s \in Source
               PROVE  Cardinality({p \in Poller : Active(p, s)}) = IF s \in sources THEN 1 ELSE 0
      BY DEF OnePollerPerSource
  <2> DEFINE active == {p \in Poller : Active(p, s)}
  <2>1. PollersSound
      BY <1>1 DEF Inv
  <2>2. CASE s \in sources
    <3>1. PICK p \in Poller : Active(p, s)
        BY <2>1, <2>2 DEF PollersSound
    <3>2. active = {p}
        BY <2>1, <3>1 DEF PollersSound
    <3> QED
        BY <2>2, <3>2, FS_Singleton
  <2>3. CASE s \notin sources
    <3>1. active = {}
        BY <2>1, <2>3 DEF PollersSound
    <3> QED
        BY <2>3, <3>1, FS_EmptySet
  <2> QED
      BY <2>2, <2>3
<1>2. Inv => OnePollerPerSource
    BY <1>1
<1> QED
    BY <1>2, Invariance, PTL

-----------------------------------------------------------------------------
\* A handler processes no event that is among the newest it processed, as many as its
\* window holds (UnchangedDrivesNothing): for every window size, any number of ticks,
\* two pollers of one source, restarts, and removals under a dispatch that goes on with
\* the old store object.
THEOREM UnchangedIsQuiet == Spec => UnchangedDrivesNothing
<1> DEFINE Quiet ==
        \A h \in Handler, e \in Event :
            driven'[h][e] # driven[h][e] => e.id \notin Range(newest[h]) \/ h \in forked
<1>1. Inv /\ [Next]_vars => [Quiet]_vars
  <2> SUFFICES ASSUME Inv, Next PROVE Quiet
      BY DEF vars
  <2>1. CASE UNCHANGED driven
      BY <2>1
  <2>2. ASSUME NEW p \in Poller, MarkNext(p) PROVE Quiet
    <3> SUFFICES ASSUME NEW h \in Handler, NEW e \in Event, driven'[h][e] # driven[h][e], h \notin forked
                 PROVE  e.id \notin Range(newest[h])
        OBVIOUS
    <3>1. PICK r \in poller[p].left :
            /\ IsNew(stores[r], poller[p].event.id, 0)
            /\ driven' = [driven EXCEPT ![r.name][poller[p].event] = driven[r.name][poller[p].event] + 1]
        BY <2>2 DEF MarkNext, workVars
    <3>2. r \in Ref /\ Live(r) /\ StoreTypes /\ WindowKept /\ ObjectsSound
        BY <3>1 DEF Inv, TypeOK, PollerState, Stored, Held, Live
    <3>3. h = r.name /\ e = poller[p].event
        BY <3>1, <3>2 DEF StoreTypes
    <3>4. PICK s \in Store : s = stores[r] /\ Indexed(s) /\ s.ttl = 0 /\ s.maxSeen = WindowSize(MaxEntries)
        BY <3>2 DEF ObjectsSound, Opened
    <3>5. PICK window \in Seq(EventId) :
            window = newest[h] /\ Mirrors(s.state.seen, window) /\ Len(window) <= s.maxSeen
        BY <3>2, <3>3, <3>4 DEF StoreTypes, WindowKept
    <3>6. IsNew(s, e.id, 0) /\ e.id \in EventId
        BY <3>1, <3>3, <3>4 DEF EventId
    <3>7. \A i \in DOMAIN window : window[i] # e.id
        BY <3>4, <3>5, <3>6, MarkSeenRotates
    <3> QED
        BY <3>5, <3>7 DEF Range
  <2>3. Boot \/ Serve \/ Exit => UNCHANGED driven
      BY DEF Boot, Serve, Exit, workVars
  <2>4. ASSUME NEW h \in Handler, RebuildHandler(h) \/ AddHandler(h) \/ RemoveHandler(h)
        PROVE  UNCHANGED driven
      BY <2>4 DEF RebuildHandler, AddHandler, RemoveHandler, Request, workVars
  <2>5. ASSUME NEW s \in Source, RebuildSource(s) \/ AddSource(s) \/ RemoveSource(s)
        PROVE  UNCHANGED driven
      BY <2>5 DEF RebuildSource, AddSource, RemoveSource, Request, workVars
  <2>6. ASSUME NEW p \in Poller, PollerStep(p), ~MarkNext(p) PROVE UNCHANGED driven
      BY <2>6 DEF PollerStep, BeginFetch, FetchReturns, FetchFails, DispatchNext, RecordNext,
                  TickDone, NextTick, Stop, workVars
  <2>7. ASSUME NEW s \in Source, NEW e \in Event, Change(s, e) PROVE UNCHANGED driven
      BY <2>7 DEF Change, workVars
  <2> QED
      BY <2>1, <2>2, <2>3, <2>4, <2>5, <2>6, <2>7 DEF Next
<1>2. Spec => [][Quiet]_vars
    BY <1>1, Invariance, PTL DEF Spec
<1> QED
    BY <1>2 DEF UnchangedDrivesNothing
=============================================================================
