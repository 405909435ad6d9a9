--------------------------- MODULE EventBus_proofs ---------------------------
(***************************************************************************)
(* What holds of the bus for any number of callers, handlers, events and   *)
(* sessions, whatever fails: its types, and that conversations never mix.  *)
(*                                                                         *)
(* A turn reaches a session along a path of several steps: an id is        *)
(* created, written into a binding or a list of created sessions, copied   *)
(* to the file, loaded by another process, read into a caller's frame,     *)
(* kept there while other callers go on, and used.  The inductive          *)
(* invariant follows an id along that path: wherever a session stands, it  *)
(* was granted to the handler and the key of that place.                   *)
(*                                                                         *)
(* On this rest further invariants, each in a section of its own: a        *)
(* stateless session in a caller's hands has no turn yet (FreshInv); the   *)
(* object a caller uses and its file agree, unless the handler was forked  *)
(* (Shared); a store knows the newest admissions of its name (WindowInv);  *)
(* each turn is covered by an admission of its own (LedgerInv); an event   *)
(* that is marked is accounted for (DropInv); and the session that talks   *)
(* for a whole key is the one its binding names (KeyInv).                  *)
(*                                                                         *)
(* No theorem assumes a run without a fault, a rotation or a second        *)
(* registration: where the code gives something up, the property names the *)
(* case.  The runs key_race and crash_drop show two of those cases happen. *)
(***************************************************************************)
EXTENDS EventBus, SubStore_proofs

\* The sessions that exist, each with the handler and the key it was created for.
Grants ==
    {g \in Session \X Handler \X (Key \cup {None}) :
        status[g[1]] # "unused" /\ owner[g[1]] = [name |-> g[2], key |-> g[3]]}

\* A file of handler h is sound under the grants G.
StateSound(G, state, h) ==
    /\ DistinctIds(state.seen)
    /\ DistinctEvents(state.events)
    /\ \A k \in Key : state.bindings[k] # None => <<state.bindings[k], h, k>> \in G
    /\ ~Keyed(h) => \A i \in 1..Len(state.created) : <<state.created[i], h, None>> \in G

StoreSound(G, s, h) == s \in Store /\ Indexed(s) /\ StateSound(G, s.state, h)

\* A caller's frame is sound: what its step takes for granted holds.
FrameSound(G, f) ==
    /\ f.pc # "idle" => f.todo # <<>>
    /\ f.pc \notin {"idle", "lookup"} => f.event \in Event
    /\ f.pc \in {"unbind", "binding", "alive", "bind"} => Keyed(Head(f.todo).name)
    /\ f.pc \in {"recent", "summary"} => Policy[Head(f.todo).name] = "routed"
    /\ f.pc \in {"alive", "bind", "add", "send"} =>
        <<f.sid, Head(f.todo).name, PolicyKey(Head(f.todo).name, f.event)>> \in G
    /\ f.pc = "summary" =>
        \A s \in f.listed \cup f.cands : <<s, Head(f.todo).name, None>> \in G

StoresSound(G, refs) == \A i \in 1..Len(refs) : StoreSound(G, stores[refs[i]], refs[i].name)

DistinctNames == \A i, j \in 1..Len(subs) : subs[i].name = subs[j].name => i = j

TurnsSound ==
    \A s \in Session : \A i \in 1..Len(turns[s]) :
        <<s, turns[s][i].name, turns[s][i].key>> \in Grants

Inv ==
    /\ TypeOK
    /\ DistinctNames
    /\ StoresSound(Grants, subs)
    /\ \A h \in Handler : StateSound(Grants, files[h], h)
    /\ \A w \in Worker : StoresSound(Grants, frame[w].todo) /\ FrameSound(Grants, frame[w])
    /\ TurnsSound

-----------------------------------------------------------------------------
(* The methods of a store keep it sound.                                    *)

\* What is sound stays sound when sessions are added.
LEMMA SoundMonotonic ==
    ASSUME NEW G, NEW H, G \subseteq H
    PROVE  /\ \A state, h : StateSound(G, state, h) => StateSound(H, state, h)
           /\ \A s, h : StoreSound(G, s, h) => StoreSound(H, s, h)
           /\ \A f : FrameSound(G, f) => FrameSound(H, f)
<1>1. \A state, h : StateSound(G, state, h) => StateSound(H, state, h)
    BY DEF StateSound
<1>2. \A f : FrameSound(G, f) => FrameSound(H, f)
    BY DEF FrameSound
<1> QED
    BY <1>1, <1>2 DEF StoreSound

\* A store opened from a sound file is sound.
LEMMA NewSubStoreSound ==
    ASSUME NEW G, NEW h, NEW file \in State, StateSound(G, file, h), NEW n \in Int
    PROVE  StoreSound(G, NewSubStore(file, n, 0), h)
BY NewSubStoreIndexed DEF StoreSound, StateSound

\* markSeen touches the dedup window, and keeps its ids distinct and indexed.
LEMMA MarkSeenSound ==
    ASSUME NEW G, NEW h, NEW s, StoreSound(G, s, h), NEW id \in EventId
    PROVE  StoreSound(G, MarkSeen(s, id, 0), h)
<1>1. s \in Store /\ Indexed(s) /\ 0 \in Nat
    BY DEF StoreSound
<1> QED
    BY <1>1, MarkSeenIndexed DEF StoreSound, StateSound, SameButWindow, Indexed

\* recordEvent touches the replay window, and keeps its payloads distinct.
LEMMA RecordEventSound ==
    ASSUME NEW G, NEW h, NEW s, StoreSound(G, s, h), NEW key \in Key \cup {None}, NEW e \in Event
    PROVE  StoreSound(G, RecordEvent(s, key, e), h)
BY RecordEventProperties DEF StoreSound, StateSound, SameWindow, Indexed

\* A binding less is one session less to vouch for.
LEMMA UnbindSound ==
    ASSUME NEW G, NEW h, NEW s, StoreSound(G, s, h), NEW key \in Key
    PROVE  StoreSound(G, Unbind(s, key), h)
<1> DEFINE t == Unbind(s, key)
<1>1. s \in Store /\ Indexed(s) /\ StateSound(G, s.state, h) /\ s.state.bindings \in [Key -> Session \cup {None}]
    BY DEF StoreSound, Store, State
<1>2. /\ t \in Store /\ SameWindow(s, t) /\ t.state.events = s.state.events /\ t.state.created = s.state.created
      /\ t.state.bindings = [s.state.bindings EXCEPT ![key] = None]
    BY <1>1, UnbindType
<1> HIDE DEF t
<1>3. \A k \in Key : t.state.bindings[k] # None => <<t.state.bindings[k], h, k>> \in G
    BY <1>1, <1>2 DEF StateSound
<1>4. Indexed(t) /\ StateSound(G, t.state, h)
    BY <1>1, <1>2, <1>3 DEF StateSound, SameWindow, Indexed
<1> QED
    BY <1>2, <1>4 DEF StoreSound, t

\* A binding to a session granted to its handler and key.
LEMMA BindSound ==
    ASSUME NEW G, NEW h, NEW s, StoreSound(G, s, h), NEW key \in Key,
           NEW sid \in Session, <<sid, h, key>> \in G
    PROVE  StoreSound(G, Bind(s, key, sid), h)
<1> DEFINE t == Bind(s, key, sid)
<1>1. s \in Store /\ Indexed(s) /\ StateSound(G, s.state, h) /\ s.state.bindings \in [Key -> Session \cup {None}]
    BY DEF StoreSound, Store, State
<1>2. /\ t \in Store /\ SameWindow(s, t) /\ t.state.events = s.state.events /\ t.state.created = s.state.created
      /\ t.state.bindings = [s.state.bindings EXCEPT ![key] = sid]
    BY <1>1, BindType
<1> HIDE DEF t
<1>3. \A k \in Key : t.state.bindings[k] # None => <<t.state.bindings[k], h, k>> \in G
    BY <1>1, <1>2 DEF StateSound
<1>4. Indexed(t) /\ StateSound(G, t.state, h)
    BY <1>1, <1>2, <1>3 DEF StateSound, SameWindow, Indexed
<1> QED
    BY <1>2, <1>4 DEF StoreSound, t

\* A list of created sessions with one more of the handler's.
LEMMA AddCreatedSound ==
    ASSUME NEW G, NEW h, NEW s, StoreSound(G, s, h),
           NEW sid \in Session, ~Keyed(h) => <<sid, h, None>> \in G
    PROVE  StoreSound(G, AddCreated(s, sid), h)
<1> DEFINE t == AddCreated(s, sid)
<1>1. /\ s \in Store /\ Indexed(s) /\ StateSound(G, s.state, h)
      /\ s.state.created \in Seq(Session) /\ Len(s.state.created) \in Nat
    BY DEF StoreSound, Store, State
<1>2. /\ t \in Store /\ SameWindow(s, t) /\ t.state.events = s.state.events
      /\ t.state.bindings = s.state.bindings
      /\ t.state.created = Append(s.state.created, sid)
    BY <1>1, AddCreatedType
<1> HIDE DEF t
<1>3. ASSUME ~Keyed(h), NEW i \in 1..Len(t.state.created) PROVE <<t.state.created[i], h, None>> \in G
  <2>1. CASE i \in 1..Len(s.state.created)
      BY <1>1, <1>2, <1>3, <2>1 DEF StateSound
  <2>2. CASE i = Len(s.state.created) + 1
      BY <1>1, <1>2, <1>3, <2>2
  <2> QED
      BY <1>1, <1>2, <2>1, <2>2
<1>4. Indexed(t) /\ StateSound(G, t.state, h)
    BY <1>1, <1>2, <1>3 DEF StateSound, SameWindow, Indexed
<1> QED
    BY <1>2, <1>4 DEF StoreSound, t

-----------------------------------------------------------------------------
(* The frames a step leaves.                                                *)

\* Every subscription of g is one of f.
SubTodo(g, f) == \A i \in 1..Len(g) : \E j \in 1..Len(f) : g[i] = f[j]

\* A frame at rest.
LEMMA IdleFrameSound ==
    ASSUME NEW G
    PROVE  IdleFrame \in Frame /\ FrameSound(G, IdleFrame) /\ IdleFrame.todo = <<>> /\ Len(IdleFrame.todo) = 0
<1>1. <<>> \in Seq(Ref) /\ Len(<<>>) = 0
    OBVIOUS
<1> QED
    BY <1>1 DEF IdleFrame, Frame, FrameSound, PC

MarkFrame(e, todo) == [IdleFrame EXCEPT !.pc = "mark", !.event = e, !.todo = todo]

\* A frame at its "mark" step needs an event and a subscription, no more.
LEMMA MarkFrameSound ==
    ASSUME NEW G, NEW e \in Event, NEW todo \in Seq(Ref), todo # <<>>
    PROVE  MarkFrame(e, todo) \in Frame /\ FrameSound(G, MarkFrame(e, todo)) /\ MarkFrame(e, todo).todo = todo
BY DEF MarkFrame, IdleFrame, Frame, FrameSound, PC

\* A caller goes on with the subscriptions it has left.
LEMMA NextHandlerSound ==
    ASSUME NEW G, NEW f \in Frame, f.todo # <<>>, f.event \in Event
    PROVE  /\ NextHandler(f) \in Frame
           /\ FrameSound(G, NextHandler(f))
           /\ SubTodo(NextHandler(f).todo, f.todo)
<1>1. f.todo \in Seq(Ref) /\ Len(f.todo) \in Nat
    BY DEF Frame
<1>2. CASE Len(f.todo) > 1
  <2> DEFINE rest == Tail(f.todo)
  <2>1. /\ rest \in Seq(Ref) /\ Len(rest) = Len(f.todo) - 1
        /\ \A i \in 1..Len(rest) : rest[i] = f.todo[i + 1]
      BY <1>1, HeadTailProperties
  <2>2. NextHandler(f) = MarkFrame(f.event, rest)
      BY <1>2 DEF NextHandler, MarkFrame
  <2> HIDE DEF rest
  <2>3. rest # <<>>
      BY <1>1, <1>2, <2>1
  <2>4. SubTodo(rest, f.todo)
    <3>1. \A i \in 1..Len(rest) : i + 1 \in 1..Len(f.todo)
        BY <1>1, <2>1
    <3> QED
        BY <2>1, <3>1 DEF SubTodo
  <2> QED
      BY <2>1, <2>2, <2>3, <2>4, MarkFrameSound
<1>3. CASE ~(Len(f.todo) > 1)
    BY <1>3, IdleFrameSound DEF NextHandler, SubTodo
<1> QED
    BY <1>2, <1>3

\* resolve() starts with a step that fits the policy.
LEMMA ResolveSound ==
    ASSUME NEW G, NEW f \in Frame, f.todo # <<>>, NEW e \in Event
    PROVE  /\ Resolve(f, e) \in Frame
           /\ FrameSound(G, Resolve(f, e))
           /\ Resolve(f, e).todo = f.todo
           /\ Resolve(f, e).event = e
<1> DEFINE h == Head(f.todo).name
<1>1. h \in Handler
  <2>1. f.todo \in Seq(Ref)
      BY DEF Frame
  <2>2. Head(f.todo) \in Ref
      BY <2>1, HeadTailProperties
  <2> QED
      BY <2>2 DEF Ref
<1>2. Policy[h] \in {"stateless", "keyed", "routed"}
    BY <1>1, PolicyAssumption
<1>3. /\ ResolveAt(h) \in {"create", "binding", "recent"}
      /\ ResolveAt(h) = "binding" => Keyed(h)
      /\ ResolveAt(h) = "recent" => Policy[h] = "routed"
    BY <1>2 DEF ResolveAt, Keyed
<1>4. Resolve(f, e) = [f EXCEPT !.pc = ResolveAt(h), !.event = e, !.prompt = e \notin Silent[h]]
    BY DEF Resolve
<1> HIDE DEF h
<1>5. /\ Resolve(f, e) \in Frame /\ Resolve(f, e).todo = f.todo
      /\ Resolve(f, e).event = e /\ Resolve(f, e).pc = ResolveAt(h)
    BY <1>3, <1>4 DEF Frame, PC
<1> QED
    BY <1>3, <1>5 DEF FrameSound, h

\* A caller whose session is resolved sends to it, or is done.
LEMMA DeliverSound ==
    ASSUME NEW G, NEW f \in Frame, f.todo # <<>>, f.event \in Event,
           <<f.sid, Head(f.todo).name, PolicyKey(Head(f.todo).name, f.event)>> \in G
    PROVE  /\ Deliver(f) \in Frame
           /\ FrameSound(G, Deliver(f))
           /\ SubTodo(Deliver(f).todo, f.todo)
<1>1. CASE f.prompt
  <2> DEFINE g == [f EXCEPT !.pc = "send"]
  <2>1. g \in Frame /\ g.pc = "send" /\ g.todo = f.todo /\ g.event = f.event /\ g.sid = f.sid
      BY DEF Frame, PC
  <2>2. Deliver(f) = g
      BY <1>1 DEF Deliver
  <2> HIDE DEF g
  <2> QED
      BY <2>1, <2>2 DEF FrameSound, SubTodo
<1>2. CASE ~f.prompt
    BY <1>2, NextHandlerSound DEF Deliver
<1> QED
    BY <1>1, <1>2

-----------------------------------------------------------------------------
(* The shape all steps of a caller share: it moves its own frame, perhaps   *)
(* calls its store, and no session is lost or changes hands.                *)

FrameMove(w) ==
    \E g \in Frame : SetFrame(w, g) /\ FrameSound(Grants', g) /\ SubTodo(g.todo, frame[w].todo)

StoreMove ==
    \/ UNCHANGED <<stores, files>>
    \/ \E r \in Ref, s \in Store : StoreSound(Grants', s, r.name) /\ SetStore(r, s)

HistoryTyped ==
    /\ newest' \in [Handler -> Seq(EventId)]
    /\ forked' \subseteq Handler /\ split' \subseteq Handler \X Key
    /\ orphans' \subseteq Session
    /\ calls' \in Nat

RestTyped ==
    /\ status' \in [Session -> {"unused", "live", "dead"}]
    /\ turns' \in [Session -> Seq(Turn)]
    /\ owner' \in [Session -> [name : Handler, key : Key \cup {None}] \cup {None}]
    /\ errors' \subseteq Handler \X EventId
    /\ HistoryTyped
    /\ UNCHANGED <<subs, crashes>>

\* Such a step keeps the invariant.
LEMMA StepInv ==
    ASSUME Inv, NEW w \in Worker, FrameMove(w), StoreMove, RestTyped,
           Grants \subseteq Grants', TurnsSound'
    PROVE  Inv'
<1>1. PICK g \in Frame : SetFrame(w, g) /\ FrameSound(Grants', g) /\ SubTodo(g.todo, frame[w].todo)
    BY DEF FrameMove
<1>2. /\ frame \in [Worker -> Frame] /\ frame' = [frame EXCEPT ![w] = g]
      /\ stores \in [Ref -> Store \cup {None}] /\ files \in [Handler -> State]
    BY <1>1 DEF SetFrame, Inv, TypeOK
<1>3. /\ stores' \in [Ref -> Store \cup {None}]
      /\ files' \in [Handler -> State]
      /\ \A r \in Ref : StoreSound(Grants, stores[r], r.name) => StoreSound(Grants', stores'[r], r.name)
      /\ \A h \in Handler : StateSound(Grants', files'[h], h)
  <2>1. /\ \A r \in Ref : StoreSound(Grants, stores[r], r.name) => StoreSound(Grants', stores[r], r.name)
        /\ \A h \in Handler : StateSound(Grants', files[h], h)
      BY SoundMonotonic DEF Inv
  <2>2. CASE UNCHANGED <<stores, files>>
      BY <1>2, <2>1, <2>2
  <2>3. ASSUME NEW r \in Ref, NEW s \in Store, StoreSound(Grants', s, r.name), SetStore(r, s)
        PROVE  <1>3
    <3>1. stores' = [stores EXCEPT ![r] = s] /\ files' = [files EXCEPT ![r.name] = s.state]
        BY <2>3 DEF SetStore
    <3>2. s.state \in State /\ StateSound(Grants', s.state, r.name) /\ r.name \in Handler
        BY <2>3 DEF StoreSound, Store, Ref
    <3> QED
        BY <1>2, <2>1, <2>3, <3>1, <3>2
  <2> QED
      BY <2>2, <2>3 DEF StoreMove
<1>4. TypeOK'
    BY <1>2, <1>3 DEF RestTyped, HistoryTyped, Inv, TypeOK
<1>5. DistinctNames'
    BY DEF RestTyped, Inv, DistinctNames
<1>6. ASSUME NEW refs \in Seq(Ref), StoresSound(Grants, refs)
      PROVE  \A i \in 1..Len(refs) : StoreSound(Grants', stores'[refs[i]], refs[i].name)
    BY <1>3, <1>6 DEF StoresSound
<1>7. StoresSound(Grants, subs)'
    BY <1>6 DEF RestTyped, Inv, TypeOK, StoresSound
<1>8. ASSUME NEW v \in Worker
      PROVE  StoresSound(Grants, frame[v].todo)' /\ FrameSound(Grants, frame[v])'
  <2>1. /\ frame[v] \in Frame /\ frame[v].todo \in Seq(Ref)
        /\ StoresSound(Grants, frame[v].todo) /\ FrameSound(Grants', frame[v])
      BY <1>2, SoundMonotonic DEF Inv, Frame
  <2>2. \A i \in 1..Len(frame[v].todo) :
            StoreSound(Grants', stores'[frame[v].todo[i]], frame[v].todo[i].name)
      BY <1>6, <2>1
  <2>3. CASE v = w
    <3>1. frame'[v] = g
        BY <1>2, <2>3
    <3>2. \A i \in 1..Len(g.todo) : StoreSound(Grants', stores'[g.todo[i]], g.todo[i].name)
        BY <1>1, <2>2, <2>3 DEF SubTodo
    <3> QED
        BY <1>1, <3>1, <3>2 DEF StoresSound
  <2>4. CASE v # w
    <3>1. frame'[v] = frame[v]
        BY <1>2, <2>4
    <3> QED
        BY <2>1, <2>2, <3>1 DEF StoresSound
  <2> QED
      BY <2>3, <2>4
<1> QED
    BY <1>3, <1>4, <1>5, <1>7, <1>8 DEF Inv

\* Turns stay where they belong while sessions only gain grants.
LEMMA TurnsKept ==
    ASSUME TurnsSound, turns' = turns, Grants \subseteq Grants'
    PROVE  TurnsSound'
BY DEF TurnsSound

\* What a session was created for changes with its status and owner alone.
LEMMA GrantsKept ==
    ASSUME UNCHANGED <<status, owner>>
    PROVE  Grants' = Grants
BY DEF Grants

\* What a caller under way knows of its current subscription.
LEMMA CurrentSound ==
    ASSUME Inv, NEW w \in Worker, frame[w].pc # "idle"
    PROVE  /\ frame[w] \in Frame /\ FrameSound(Grants, frame[w])
           /\ frame[w].todo \in Seq(Ref) /\ frame[w].todo # <<>>
           /\ Current(w) = Head(frame[w].todo) /\ Current(w) \in Ref /\ Current(w).name \in Handler
           /\ StoreSound(Grants, stores[Current(w)], Current(w).name)
           /\ stores[Current(w)] \in Store
           /\ frame[w].pc # "lookup" => frame[w].event \in Event /\ frame[w].event.id \in EventId
<1>1. /\ frame[w] \in Frame /\ FrameSound(Grants, frame[w])
      /\ frame[w].todo \in Seq(Ref) /\ frame[w].todo # <<>>
      /\ StoresSound(Grants, frame[w].todo)
    BY DEF Inv, TypeOK, Frame, FrameSound
<1>2. Current(w) = frame[w].todo[1] /\ Current(w) = Head(frame[w].todo) /\ 1 \in 1..Len(frame[w].todo)
    BY <1>1, EmptySeq DEF Current
<1>3. Current(w) \in Ref
    BY <1>1, <1>2
<1>4. StoreSound(Grants, stores[Current(w)], Current(w).name)
    BY <1>1, <1>2 DEF StoresSound
<1>5. frame[w].pc # "lookup" => frame[w].event \in Event /\ frame[w].event.id \in EventId
    BY <1>1 DEF FrameSound, EventId
<1> QED
    BY <1>1, <1>2, <1>3, <1>4, <1>5 DEF Ref, StoreSound

\* A step that touches no session and no turn.
LEMMA LocalStep ==
    ASSUME Inv, NEW w \in Worker,
           \E g \in Frame : SetFrame(w, g) /\ FrameSound(Grants, g) /\ SubTodo(g.todo, frame[w].todo),
           \/ UNCHANGED <<stores, files>>
           \/ \E r \in Ref, s \in Store : StoreSound(Grants, s, r.name) /\ SetStore(r, s),
           UNCHANGED <<subs, status, turns, owner, crashes>>, HistoryTyped,
           errors' \subseteq Handler \X EventId
    PROVE  Inv'
<1>1. Grants' = Grants
    BY GrantsKept
<1>2. FrameMove(w) /\ StoreMove
    BY <1>1 DEF FrameMove, StoreMove
<1>3. RestTyped
    BY DEF RestTyped, Inv, TypeOK
<1>4. TurnsSound'
    BY <1>1, TurnsKept DEF Inv
<1> QED
    BY <1>1, <1>2, <1>3, <1>4, StepInv

\* The error a step reports is one of a handler and an event.
LEMMA ReportErrorType ==
    ASSUME Inv, NEW w \in Worker, frame[w].pc \notin {"idle", "lookup"}, ReportError(w) \/ UNCHANGED errors
    PROVE  errors' \subseteq Handler \X EventId
<1>1. errors \subseteq Handler \X EventId
    BY DEF Inv, TypeOK
<1>2. Current(w).name \in Handler /\ frame[w].event.id \in EventId
    BY CurrentSound
<1> QED
    BY <1>1, <1>2 DEF ReportError

\* A call begins with a sound frame over sound stores.
LEMMA BeginStep ==
    ASSUME Inv, NEW w \in Worker,
           \E g \in Frame : SetFrame(w, g) /\ FrameSound(Grants, g) /\ StoresSound(Grants, g.todo),
           UNCHANGED <<subs, stores, files, status, turns, owner, crashes>>, HistoryTyped,
           errors' \subseteq Handler \X EventId
    PROVE  Inv'
<1>1. PICK g \in Frame : SetFrame(w, g) /\ FrameSound(Grants, g) /\ StoresSound(Grants, g.todo)
    OBVIOUS
<1>2. Grants' = Grants
    BY GrantsKept
<1>3. frame \in [Worker -> Frame] /\ frame' = [frame EXCEPT ![w] = g]
    BY <1>1 DEF SetFrame, Inv, TypeOK
<1>4. TypeOK'
    BY <1>3 DEF HistoryTyped, Inv, TypeOK
<1>5. DistinctNames' /\ TurnsSound'
    BY <1>2, TurnsKept DEF Inv, DistinctNames
<1>6. StoresSound(Grants, subs)' /\ \A h \in Handler : StateSound(Grants, files[h], h)'
    BY <1>2 DEF Inv, StoresSound
<1>7. ASSUME NEW v \in Worker
      PROVE  StoresSound(Grants, frame[v].todo)' /\ FrameSound(Grants, frame[v])'
  <2>1. frame'[v] = IF v = w THEN g ELSE frame[v]
      BY <1>3
  <2> QED
      BY <1>1, <1>2, <2>1 DEF Inv, StoresSound
<1> QED
    BY <1>4, <1>5, <1>6, <1>7 DEF Inv

\* Every step of a caller keeps the history typed: it admits an event, splits a key
\* or loses a session, or leaves the history alone.
LEMMA HistoryStep == ASSUME Inv, NEW w \in Worker, Step(w) PROVE HistoryTyped
<1>1. /\ newest \in [Handler -> Seq(EventId)] /\ forked \subseteq Handler
      /\ split \subseteq Handler \X Key /\ orphans \subseteq Session /\ calls \in Nat
    BY DEF Inv, TypeOK
<1>2. CASE MarkSeenStep(w)
  <2>1. Current(w).name \in Handler /\ frame[w].event.id \in EventId
      BY <1>2, CurrentSound DEF MarkSeenStep, At
  <2>2. \A h \in Handler, id \in EventId : Admitted(h, id) \in [Handler -> Seq(EventId)]
    <3>1. SUFFICES ASSUME NEW h \in Handler, NEW id \in EventId
                   PROVE  Admitted(h, id) \in [Handler -> Seq(EventId)]
        OBVIOUS
    <3>2. newest[h] \in Seq(EventId) /\ Append(newest[h], id) \in Seq(EventId)
        BY <1>1
    <3>3. WindowSize(MaxEntries) \in Nat \ {0}
        BY BoundsAssumption, DefaultMaxEntriesAssumption DEF WindowSize
    <3>4. CASE Len(newest[h]) < WindowSize(MaxEntries)
        BY <1>1, <3>2, <3>4 DEF Admitted
    <3>5. CASE ~(Len(newest[h]) < WindowSize(MaxEntries))
      <4>1. newest[h] # <<>>
          BY <3>2, <3>3, <3>5, EmptySeq
      <4>2. Append(Tail(newest[h]), id) \in Seq(EventId)
          BY <3>2, <4>1
      <4> QED
          BY <1>1, <3>5, <4>2 DEF Admitted
    <3> QED
        BY <3>4, <3>5
  <2>3. newest' = newest \/ newest' = Admitted(Current(w).name, frame[w].event.id)
      BY <1>2 DEF MarkSeenStep
  <2>4. UNCHANGED <<forked, split, orphans, calls>>
      BY <1>2 DEF MarkSeenStep
  <2> QED
      BY <1>1, <2>1, <2>2, <2>3, <2>4 DEF HistoryTyped
<1>3. ASSUME UNCHANGED <<newest, forked, orphans, calls>>, frame[w].pc \notin {"idle", "lookup"},
             UNCHANGED split \/ \E condition \in BOOLEAN : Splits(w, condition)
      PROVE  HistoryTyped
  <2>1. Current(w).name \in Handler /\ frame[w].event.key \in Key
      BY <1>3, CurrentSound, EventKeyAssumption
  <2>2. split' \subseteq Handler \X Key
      BY <1>1, <1>3, <2>1 DEF Splits
  <2> QED
      BY <1>1, <1>3, <2>2 DEF HistoryTyped
<1>4. CASE UnbindStep(w)
    BY <1>3, <1>4 DEF UnbindStep, At
<1>5. CASE ReadBinding(w)
    BY <1>3, <1>5 DEF ReadBinding, At
<1>6. CASE CheckAlive(w)
    BY <1>3, <1>6 DEF CheckAlive, At
<1>7. CASE SendRejected(w)
    BY <1>3, <1>7 DEF SendRejected, SendFailed, At
<1>8. CASE SendReplyLost(w)
    BY <1>3, <1>8 DEF SendReplyLost, SendFailed, At
<1>9. CASE CreateFails(w)
    BY <1>1, <1>9 DEF CreateFails, HistoryTyped
<1>10. ASSUME UNCHANGED <<history, calls>> PROVE HistoryTyped
    BY <1>1, <1>10 DEF history, HistoryTyped
<1>11. CASE RecordEventStep(w) \/ LookupStep(w)
    BY <1>10, <1>11 DEF RecordEventStep, LookupStep
<1>12. CASE ReadRecent(w) \/ (\E s \in Session : ReadSummary(w, s)) \/ RouterDecide(w)
    BY <1>10, <1>12 DEF ReadRecent, ReadSummary, RouterDecide
<1>13. CASE CreateSession(w) \/ BindStep(w) \/ AddCreatedStep(w) \/ SendAccepted(w)
    BY <1>10, <1>13 DEF CreateSession, BindStep, AddCreatedStep, SendAccepted
<1> QED
    BY <1>2, <1>4, <1>5, <1>6, <1>7, <1>8, <1>9, <1>11, <1>12, <1>13 DEF Step

-----------------------------------------------------------------------------
(* Dispatch and Retry, up to the resolution of a session.                   *)

\* The caller claims the event at its current subscription or passes on.
LEMMA MarkSeenInv == ASSUME Inv, NEW w \in Worker, MarkSeenStep(w) PROVE Inv'
<1> DEFINE f == frame[w]
           r == Current(w)
<1>1. f.pc = "mark"
    BY DEF MarkSeenStep, At
<1>2. /\ f \in Frame /\ f.todo # <<>> /\ r \in Ref /\ StoreSound(Grants, stores[r], r.name)
      /\ stores[r] \in Store /\ f.event \in Event /\ f.event.id \in EventId
    BY <1>1, CurrentSound
<1>3. errors' \subseteq Handler \X EventId /\ HistoryTyped /\ UNCHANGED <<subs, status, turns, owner, crashes>>
    BY HistoryStep DEF MarkSeenStep, Step, Inv, TypeOK
<1>4. CASE /\ SetStore(r, MarkSeen(stores[r], f.event.id, 0))
           /\ SetFrame(w, [f EXCEPT !.pc = "record"])
  <2> DEFINE g == [f EXCEPT !.pc = "record"]
             s == MarkSeen(stores[r], f.event.id, 0)
  <2>1. g \in Frame /\ g.pc = "record" /\ g.todo = f.todo /\ g.event = f.event
      BY <1>2 DEF Frame, PC
  <2>2. FrameSound(Grants, g) /\ SubTodo(g.todo, f.todo)
    <3> HIDE DEF g
    <3> QED
      BY <1>2, <2>1 DEF FrameSound, SubTodo
  <2>3. StoreSound(Grants, s, r.name) /\ s \in Store
    <3>1. StoreSound(Grants, s, r.name)
        BY <1>2, MarkSeenSound
    <3> QED
        BY <3>1 DEF StoreSound
  <2>4. SetFrame(w, g) /\ SetStore(r, s)
      BY <1>4
  <2> HIDE DEF g, s
  <2> QED
      BY <1>2, <1>3, <2>1, <2>2, <2>3, <2>4, LocalStep
<1>5. CASE SetFrame(w, NextHandler(f)) /\ UNCHANGED <<stores, files>>
    BY <1>2, <1>3, <1>5, NextHandlerSound, LocalStep
<1> QED
    BY <1>4, <1>5 DEF MarkSeenStep

\* The payload enters the replay window and the session is resolved by the policy.
LEMMA RecordEventInv == ASSUME Inv, NEW w \in Worker, RecordEventStep(w) PROVE Inv'
<1> DEFINE f == frame[w]
           r == Current(w)
           s == RecordEvent(stores[r], PolicyKey(r.name, f.event), f.event)
           g == Resolve(f, f.event)
<1>1. f.pc = "record"
    BY DEF RecordEventStep, At
<1>2. /\ f \in Frame /\ f.todo # <<>> /\ r \in Ref /\ StoreSound(Grants, stores[r], r.name)
      /\ stores[r] \in Store /\ f.event \in Event
    BY <1>1, CurrentSound
<1>3. errors' \subseteq Handler \X EventId /\ HistoryTyped /\ UNCHANGED <<subs, status, turns, owner, crashes>>
    BY HistoryStep DEF RecordEventStep, Step, Inv, TypeOK
<1>4. PolicyKey(r.name, f.event) \in Key \cup {None}
    BY <1>2, EventKeyAssumption DEF PolicyKey
<1>5. StoreSound(Grants, s, r.name) /\ s \in Store
  <2>1. StoreSound(Grants, s, r.name)
      BY <1>2, <1>4, RecordEventSound
  <2> QED
      BY <2>1 DEF StoreSound
<1>6. g \in Frame /\ FrameSound(Grants, g) /\ SubTodo(g.todo, f.todo)
    BY <1>2, ResolveSound DEF SubTodo
<1>7. SetFrame(w, g) /\ SetStore(r, s)
    BY DEF RecordEventStep
<1> HIDE DEF g, s
<1> QED
    BY <1>2, <1>3, <1>5, <1>6, <1>7, LocalStep

\* A retry takes its event from the replay window, where only events are.
LEMMA LookupInv == ASSUME Inv, NEW w \in Worker, LookupStep(w) PROVE Inv'
<1> DEFINE e == LookupEvent(stores[Current(w)], frame[w].target)
           f == [frame[w] EXCEPT !.target = None, !.fresh = FALSE]
           g == Resolve(f, e)
<1>1. frame[w].pc = "lookup"
    BY DEF LookupStep, At
<1>2. /\ frame[w] \in Frame /\ frame[w].todo # <<>> /\ stores[Current(w)] \in Store
      /\ Current(w) = Head(frame[w].todo)
    BY <1>1, CurrentSound
<1>3. f \in Frame /\ f.todo = frame[w].todo
    BY <1>2 DEF Frame
<1>4. e \in Event \cup {None}
    BY <1>2, LookupEventType
<1>5. /\ errors' \subseteq Handler \X EventId /\ HistoryTyped
      /\ UNCHANGED <<subs, stores, files, status, turns, owner, crashes>>
    BY HistoryStep DEF LookupStep, Step, Inv, TypeOK
<1>6. SetFrame(w, IF e = None THEN IdleFrame
                  ELSE IF frame[w].fresh /\ Keyed(Current(w).name) THEN [g EXCEPT !.pc = "unbind"]
                  ELSE g)
    BY DEF LookupStep
<1> HIDE DEF e, f
<1>7. CASE e = None
    BY <1>5, <1>6, <1>7, IdleFrameSound, LocalStep DEF SubTodo
<1>8. CASE e # None
  <2>1. /\ g \in Frame /\ FrameSound(Grants, g) /\ g.todo = frame[w].todo /\ g.event = e /\ e \in Event
      BY <1>2, <1>3, <1>4, <1>8, ResolveSound
  <2> HIDE DEF g
  <2>2. CASE frame[w].fresh /\ Keyed(Current(w).name)
    <3> DEFINE u == [g EXCEPT !.pc = "unbind"]
    <3>1. u \in Frame /\ u.pc = "unbind" /\ u.todo = frame[w].todo /\ u.event = e
        BY <2>1 DEF Frame, PC
    <3>2. SetFrame(w, u)
        BY <1>6, <1>8, <2>2
    <3> HIDE DEF u
    <3>3. FrameSound(Grants, u) /\ SubTodo(u.todo, frame[w].todo)
        BY <1>2, <2>1, <2>2, <3>1 DEF FrameSound, SubTodo
    <3> QED
        BY <1>5, <3>1, <3>2, <3>3, LocalStep
  <2>3. CASE ~(frame[w].fresh /\ Keyed(Current(w).name))
    <3>1. SetFrame(w, g) /\ SubTodo(g.todo, frame[w].todo)
        BY <1>6, <1>8, <2>1, <2>3 DEF SubTodo
    <3> QED
        BY <1>5, <2>1, <3>1, LocalStep
  <2> QED
      BY <2>2, <2>3
<1> QED
    BY <1>7, <1>8

\* A fresh retry drops the binding of a keyed handler.
LEMMA UnbindInv == ASSUME Inv, NEW w \in Worker, UnbindStep(w) PROVE Inv'
<1> DEFINE f == frame[w]
           r == Current(w)
           k == f.event.key
           s == Unbind(stores[r], k)
           g == [f EXCEPT !.pc = ResolveAt(r.name)]
<1>1. f.pc = "unbind"
    BY DEF UnbindStep, At
<1>2. /\ f \in Frame /\ f.todo # <<>> /\ r = Head(f.todo) /\ r \in Ref /\ FrameSound(Grants, f)
      /\ StoreSound(Grants, stores[r], r.name) /\ f.event \in Event
    BY <1>1, CurrentSound
<1>3. errors' \subseteq Handler \X EventId /\ HistoryTyped /\ UNCHANGED <<subs, status, turns, owner, crashes>>
    BY HistoryStep DEF UnbindStep, Step, Inv, TypeOK
<1>4. Keyed(r.name) /\ ResolveAt(r.name) = "binding"
    BY <1>1, <1>2 DEF FrameSound, Keyed, ResolveAt
<1>5. g \in Frame /\ g.pc = "binding" /\ g.todo = f.todo /\ g.event = f.event
    BY <1>2, <1>4 DEF Frame, PC
<1>6. SetFrame(w, g) /\ (SetStore(r, s) \/ UNCHANGED <<stores, files>>)
    BY DEF UnbindStep
<1>7. StoreSound(Grants, s, r.name) /\ s \in Store
  <2>1. StoreSound(Grants, s, r.name)
      BY <1>2, EventKeyAssumption, UnbindSound
  <2> QED
      BY <2>1 DEF StoreSound
<1> HIDE DEF g, s
<1>8. FrameSound(Grants, g) /\ SubTodo(g.todo, f.todo)
    BY <1>2, <1>4, <1>5 DEF FrameSound, SubTodo
<1> QED
    BY <1>2, <1>3, <1>5, <1>6, <1>7, <1>8, LocalStep

-----------------------------------------------------------------------------
(* The resolution of a session.                                             *)

\* The session a caller reads from a binding was granted to the handler and the key.
LEMMA ReadBindingInv == ASSUME Inv, NEW w \in Worker, ReadBinding(w) PROVE Inv'
<1> DEFINE f   == frame[w]
           h   == Current(w).name
           k   == f.event.key
           sid == stores[Current(w)].state.bindings[k]
<1>1. f.pc = "binding"
    BY DEF ReadBinding, At
<1>2. /\ f \in Frame /\ f.todo # <<>> /\ h = Head(f.todo).name /\ FrameSound(Grants, f)
      /\ StoreSound(Grants, stores[Current(w)], h) /\ f.event \in Event
    BY <1>1, CurrentSound
<1>3. Keyed(h) /\ k \in Key /\ PolicyKey(h, f.event) = k
    BY <1>1, <1>2, EventKeyAssumption DEF FrameSound, PolicyKey
<1>4. sid \in Session \cup {None} /\ (sid # None => <<sid, h, k>> \in Grants)
    BY <1>2, <1>3 DEF StoreSound, StateSound, Store, State
<1>5. /\ errors' \subseteq Handler \X EventId /\ HistoryTyped
      /\ UNCHANGED <<subs, stores, files, status, turns, owner, crashes>>
    BY HistoryStep DEF ReadBinding, Step, Inv, TypeOK
<1>6. SetFrame(w, IF sid = None THEN [f EXCEPT !.pc = "create"] ELSE [f EXCEPT !.pc = "alive", !.sid = sid])
    BY DEF ReadBinding
<1> HIDE DEF sid
<1>7. CASE sid = None
  <2> DEFINE g == [f EXCEPT !.pc = "create"]
  <2>1. g \in Frame /\ g.pc = "create" /\ g.todo = f.todo /\ g.event = f.event /\ SetFrame(w, g)
      BY <1>2, <1>6, <1>7 DEF Frame, PC
  <2> HIDE DEF g
  <2>2. FrameSound(Grants, g) /\ SubTodo(g.todo, f.todo)
      BY <1>2, <2>1 DEF FrameSound, SubTodo
  <2> QED
      BY <1>5, <2>1, <2>2, LocalStep
<1>8. CASE sid # None
  <2> DEFINE g == [f EXCEPT !.pc = "alive", !.sid = sid]
  <2>1. /\ g \in Frame /\ g.pc = "alive" /\ g.todo = f.todo /\ g.event = f.event /\ g.sid = sid
        /\ SetFrame(w, g)
      BY <1>2, <1>4, <1>6, <1>8 DEF Frame, PC
  <2> HIDE DEF g
  <2>2. FrameSound(Grants, g) /\ SubTodo(g.todo, f.todo)
      BY <1>2, <1>3, <1>4, <1>8, <2>1 DEF FrameSound, SubTodo
  <2> QED
      BY <1>5, <2>1, <2>2, LocalStep
<1> QED
    BY <1>7, <1>8

\* A session that is alive is used; for a dead one the caller creates another.
LEMMA CheckAliveInv == ASSUME Inv, NEW w \in Worker, CheckAlive(w) PROVE Inv'
<1> DEFINE f == frame[w]
<1>1. f.pc = "alive"
    BY DEF CheckAlive, At
<1>2. f \in Frame /\ f.todo # <<>> /\ FrameSound(Grants, f) /\ f.event \in Event
    BY <1>1, CurrentSound
<1>3. <<f.sid, Head(f.todo).name, PolicyKey(Head(f.todo).name, f.event)>> \in Grants
    BY <1>1, <1>2 DEF FrameSound
<1>4. /\ errors' \subseteq Handler \X EventId /\ HistoryTyped
      /\ UNCHANGED <<subs, stores, files, status, turns, owner, crashes>>
    BY HistoryStep DEF CheckAlive, Step, Inv, TypeOK
<1>5. CASE SetFrame(w, Deliver([f EXCEPT !.reused = TRUE]))
  <2> DEFINE g == [f EXCEPT !.reused = TRUE]
  <2>1. g \in Frame /\ g.todo = f.todo /\ g.event = f.event /\ g.sid = f.sid /\ SetFrame(w, Deliver(g))
      BY <1>2, <1>5 DEF Frame
  <2> HIDE DEF g
  <2> QED
      BY <1>2, <1>3, <1>4, <2>1, DeliverSound, LocalStep
<1>6. CASE SetFrame(w, [f EXCEPT !.pc = "create", !.sid = None])
  <2> DEFINE g == [f EXCEPT !.pc = "create", !.sid = None]
  <2>1. g \in Frame /\ g.pc = "create" /\ g.todo = f.todo /\ g.event = f.event /\ SetFrame(w, g)
      BY <1>2, <1>6 DEF Frame, PC
  <2> HIDE DEF g
  <2>2. FrameSound(Grants, g) /\ SubTodo(g.todo, f.todo)
      BY <1>2, <2>1 DEF FrameSound, SubTodo
  <2> QED
      BY <1>4, <2>1, <2>2, LocalStep
<1> QED
    BY <1>5, <1>6 DEF CheckAlive

\* The candidates of a routed handler are among the sessions it created.
LEMMA ReadRecentInv == ASSUME Inv, NEW w \in Worker, ReadRecent(w) PROVE Inv'
<1> DEFINE f      == frame[w]
           h      == Current(w).name
           recent == RecentCreated(stores[Current(w)], MaxCandidates)
           g      == [f EXCEPT !.pc = "summary", !.cands = {}, !.listed = recent]
<1>1. f.pc = "recent"
    BY DEF ReadRecent, At
<1>2. /\ f \in Frame /\ f.todo # <<>> /\ h = Head(f.todo).name /\ FrameSound(Grants, f)
      /\ StoreSound(Grants, stores[Current(w)], h) /\ f.event \in Event
    BY <1>1, CurrentSound
<1>3. Policy[h] = "routed" /\ ~Keyed(h)
    BY <1>1, <1>2 DEF FrameSound, Keyed
<1>4. \A s \in recent : s \in Session /\ <<s, h, None>> \in Grants
  <2>1. stores[Current(w)] \in Store
      BY <1>2 DEF StoreSound
  <2> QED
      BY <1>2, <1>3, <2>1, RecentCreatedListed DEF StoreSound, StateSound
<1>5. /\ errors' \subseteq Handler \X EventId /\ HistoryTyped
      /\ UNCHANGED <<subs, stores, files, status, turns, owner, crashes>>
    BY HistoryStep DEF ReadRecent, Step, Inv, TypeOK
<1>6. SetFrame(w, g)
    BY Zenon DEF ReadRecent
<1> HIDE DEF recent
<1>7. /\ g \in Frame /\ g.pc = "summary" /\ g.todo = f.todo /\ g.event = f.event
      /\ g.cands = {} /\ g.listed = recent
    BY <1>2, <1>4 DEF Frame, PC
<1> HIDE DEF g
<1>8. FrameSound(Grants, g) /\ SubTodo(g.todo, f.todo)
    BY <1>2, <1>3, <1>4, <1>7 DEF FrameSound, SubTodo
<1> QED
    BY <1>5, <1>6, <1>7, <1>8, LocalStep

\* A candidate stays one or is left out.
LEMMA ReadSummaryInv == ASSUME Inv, NEW w \in Worker, NEW s \in Session, ReadSummary(w, s) PROVE Inv'
<1> DEFINE f == frame[w]
<1>1. f.pc = "summary" /\ s \in f.listed
    BY DEF ReadSummary, At
<1>2. f \in Frame /\ f.todo # <<>> /\ FrameSound(Grants, f) /\ f.event \in Event
    BY <1>1, CurrentSound
<1>3. /\ Policy[Head(f.todo).name] = "routed"
      /\ \A x \in f.listed \cup f.cands : <<x, Head(f.todo).name, None>> \in Grants
    BY <1>1, <1>2 DEF FrameSound
<1>4. /\ errors' \subseteq Handler \X EventId /\ HistoryTyped
      /\ UNCHANGED <<subs, stores, files, status, turns, owner, crashes>>
    BY HistoryStep DEF ReadSummary, Step, Inv, TypeOK
<1>5. \E g \in Frame : /\ SetFrame(w, g) /\ g.pc = "summary" /\ g.todo = f.todo /\ g.event = f.event
                       /\ g.listed \cup g.cands \subseteq f.listed \cup f.cands
  <2> DEFINE g == [f EXCEPT !.listed = f.listed \ {s}]
             c == [g EXCEPT !.cands = g.cands \cup {s}]
  <2>1. /\ g \in Frame /\ g.pc = "summary" /\ g.todo = f.todo /\ g.event = f.event
        /\ g.listed = f.listed \ {s} /\ g.cands = f.cands
      BY <1>1, <1>2 DEF Frame
  <2>2. SetFrame(w, g) \/ SetFrame(w, c)
      BY Zenon DEF ReadSummary
  <2> HIDE DEF g
  <2>3. /\ c \in Frame /\ c.pc = "summary" /\ c.todo = f.todo /\ c.event = f.event
        /\ c.listed = g.listed /\ c.cands = f.cands \cup {s}
      BY <1>1, <2>1 DEF Frame
  <2> HIDE DEF c
  <2>4. c.listed \cup c.cands \subseteq f.listed \cup f.cands
      BY <1>1, <2>1, <2>3
  <2> QED
      BY <2>1, <2>2, <2>3, <2>4
<1>6. PICK g \in Frame : /\ SetFrame(w, g) /\ g.pc = "summary" /\ g.todo = f.todo /\ g.event = f.event
                        /\ g.listed \cup g.cands \subseteq f.listed \cup f.cands
    BY <1>5
<1>7. FrameSound(Grants, g) /\ SubTodo(g.todo, f.todo)
    BY <1>2, <1>3, <1>6 DEF FrameSound, SubTodo
<1> QED
    BY <1>4, <1>6, <1>7, LocalStep

\* Whatever the router answers, the session reused is a candidate.
LEMMA RouterDecideInv == ASSUME Inv, NEW w \in Worker, RouterDecide(w) PROVE Inv'
<1> DEFINE f == frame[w]
           h == Head(f.todo).name
<1>1. f.pc = "summary"
    BY DEF RouterDecide, At
<1>2. f \in Frame /\ f.todo # <<>> /\ FrameSound(Grants, f) /\ f.event \in Event
    BY <1>1, CurrentSound
<1>3. /\ ~Keyed(h) /\ PolicyKey(h, f.event) = None
      /\ \A x \in f.cands : <<x, h, None>> \in Grants
    BY <1>1, <1>2 DEF FrameSound, Keyed, PolicyKey
<1>4. /\ errors' \subseteq Handler \X EventId /\ HistoryTyped
      /\ UNCHANGED <<subs, stores, files, status, turns, owner, crashes>>
    BY HistoryStep DEF RouterDecide, Step, Inv, TypeOK
<1>5. PICK choice \in Session \cup {None}, prompt \in BOOLEAN :
        SetFrame(w, IF choice \in f.cands
                    THEN Deliver([[f EXCEPT !.prompt = f.prompt \/ prompt, !.cands = {}]
                                    EXCEPT !.sid = choice, !.reused = TRUE])
                    ELSE [[f EXCEPT !.prompt = f.prompt \/ prompt, !.cands = {}] EXCEPT !.pc = "create"])
    BY Zenon DEF RouterDecide
<1> DEFINE g == [f EXCEPT !.prompt = f.prompt \/ prompt, !.cands = {}]
<1>6. g \in Frame /\ g.todo = f.todo /\ g.event = f.event /\ g.pc = f.pc
    BY <1>2 DEF Frame
<1> HIDE DEF g
<1>7. CASE choice \in f.cands
  <2> DEFINE d == [g EXCEPT !.sid = choice, !.reused = TRUE]
  <2>1. d \in Frame /\ d.todo = f.todo /\ d.event = f.event /\ d.sid = choice
      BY <1>6 DEF Frame
  <2>2. SetFrame(w, Deliver(d))
      BY <1>5, <1>7 DEF g
  <2> HIDE DEF d
  <2>3. <<d.sid, Head(d.todo).name, PolicyKey(Head(d.todo).name, d.event)>> \in Grants
      BY <1>3, <1>7, <2>1
  <2> QED
      BY <1>2, <1>4, <2>1, <2>2, <2>3, DeliverSound, LocalStep
<1>8. CASE choice \notin f.cands
  <2> DEFINE d == [g EXCEPT !.pc = "create"]
  <2>1. d \in Frame /\ d.todo = f.todo /\ d.event = f.event /\ d.pc = "create"
      BY <1>6 DEF Frame, PC
  <2>2. SetFrame(w, d)
      BY <1>5, <1>8 DEF g
  <2> HIDE DEF d
  <2>3. FrameSound(Grants, d) /\ SubTodo(d.todo, f.todo)
      BY <1>2, <2>1 DEF FrameSound, SubTodo
  <2> QED
      BY <1>4, <2>1, <2>2, <2>3, LocalStep
<1> QED
    BY <1>7, <1>8

-----------------------------------------------------------------------------
(* A new session.                                                           *)

\* The runtime grants a session, and takes none away.
LEMMA HandOutSound ==
    ASSUME Inv, NEW w \in Worker, frame[w].pc = "create", NEW s \in Session, HandOut(w, s)
    PROVE  /\ Grants \subseteq Grants'
           /\ <<s, Current(w).name, PolicyKey(Current(w).name, frame[w].event)>> \in Grants'
           /\ status' \in [Session -> {"unused", "live", "dead"}]
           /\ owner' \in [Session -> [name : Handler, key : Key \cup {None}] \cup {None}]
<1> DEFINE h == Current(w).name
           k == PolicyKey(h, frame[w].event)
<1>1. h \in Handler /\ frame[w].event \in Event
    BY CurrentSound
<1>2. k \in Key \cup {None}
    BY <1>1, EventKeyAssumption DEF PolicyKey
<1>3. /\ status[s] = "unused" /\ status' = [status EXCEPT ![s] = "live"]
      /\ owner' = [owner EXCEPT ![s] = [name |-> h, key |-> k]]
    BY DEF HandOut, OwnerOf
<1>4. /\ status \in [Session -> {"unused", "live", "dead"}]
      /\ owner \in [Session -> [name : Handler, key : Key \cup {None}] \cup {None}]
    BY DEF Inv, TypeOK
<1> HIDE DEF h, k
<1>5. owner' \in [Session -> [name : Handler, key : Key \cup {None}] \cup {None}]
    BY <1>1, <1>2, <1>3, <1>4
<1>6. Grants \subseteq Grants' /\ <<s, h, k>> \in Grants'
    BY <1>1, <1>2, <1>3, <1>4 DEF Grants
<1> QED
    BY <1>3, <1>4, <1>5, <1>6 DEF h, k

\* The caller's new session is granted to the handler and the key it serves.
LEMMA CreateSessionInv == ASSUME Inv, NEW w \in Worker, CreateSession(w) PROVE Inv'
<1> DEFINE f == frame[w]
           h == Current(w).name
           k == PolicyKey(h, f.event)
<1>1. f.pc = "create"
    BY DEF CreateSession, At
<1>2. /\ f \in Frame /\ f.todo # <<>> /\ h = Head(f.todo).name /\ h \in Handler /\ f.event \in Event
    BY <1>1, CurrentSound
<1>4. PICK s \in Session :
        /\ HandOut(w, s)
        /\ SetFrame(w, [f EXCEPT !.pc = IF Keyed(h) THEN "bind" ELSE "add", !.sid = s, !.reused = FALSE])
    BY DEF CreateSession
<1>5. turns \in [Session -> Seq(Turn)] /\ errors \subseteq Handler \X EventId /\ HistoryTyped
    BY HistoryStep DEF Step, Inv, TypeOK
<1>6. UNCHANGED <<subs, stores, files, turns, errors, crashes>>
    BY DEF CreateSession
<1>8. /\ Grants \subseteq Grants' /\ <<s, h, k>> \in Grants'
      /\ status' \in [Session -> {"unused", "live", "dead"}]
      /\ owner' \in [Session -> [name : Handler, key : Key \cup {None}] \cup {None}]
    BY <1>1, <1>4, HandOutSound
<1> HIDE DEF h, k
<1>7. RestTyped
    BY <1>5, <1>6, <1>8 DEF RestTyped
<1> DEFINE g == [f EXCEPT !.pc = IF Keyed(h) THEN "bind" ELSE "add", !.sid = s, !.reused = FALSE]
<1>9. /\ g \in Frame /\ g.todo = f.todo /\ g.event = f.event /\ g.sid = s
      /\ g.pc = IF Keyed(h) THEN "bind" ELSE "add"
    BY <1>2 DEF Frame, PC
<1>10. SetFrame(w, g)
    BY <1>4
<1> HIDE DEF g
<1>11. FrameSound(Grants', g) /\ SubTodo(g.todo, f.todo)
    BY <1>2, <1>8, <1>9 DEF FrameSound, SubTodo, k
<1>12. FrameMove(w) /\ StoreMove
    BY <1>6, <1>9, <1>10, <1>11 DEF FrameMove, StoreMove
<1>13. TurnsSound'
    BY <1>6, <1>8, TurnsKept DEF Inv
<1> QED
    BY <1>7, <1>8, <1>12, <1>13, StepInv

\* A session refused, or lost, ends the turn with an error.
LEMMA CreateFailsInv == ASSUME Inv, NEW w \in Worker, CreateFails(w) PROVE Inv'
<1>1. frame[w].pc = "create"
    BY DEF CreateFails, At
<1>2. frame[w] \in Frame /\ frame[w].todo # <<>> /\ frame[w].event \in Event
    BY <1>1, CurrentSound
<1>3. errors' \subseteq Handler \X EventId /\ HistoryTyped
    BY <1>1, ReportErrorType, HistoryStep DEF CreateFails, Step
<1>4. /\ Grants \subseteq Grants'
      /\ status' \in [Session -> {"unused", "live", "dead"}]
      /\ owner' \in [Session -> [name : Handler, key : Key \cup {None}] \cup {None}]
  <2>1. CASE UNCHANGED <<status, owner>>
      BY <2>1, GrantsKept DEF Inv, TypeOK
  <2>2. ASSUME NEW s \in Session, HandOut(w, s) PROVE <1>4
      BY <1>1, <2>2, HandOutSound
  <2> QED
      BY <2>1, <2>2 DEF CreateFails
<1>5. /\ UNCHANGED <<subs, stores, files, turns, crashes>> /\ SetFrame(w, NextHandler(frame[w]))
      /\ turns \in [Session -> Seq(Turn)]
    BY DEF CreateFails, Inv, TypeOK
<1>6. RestTyped
    BY <1>3, <1>4, <1>5 DEF RestTyped
<1>7. FrameMove(w) /\ StoreMove
    BY <1>2, <1>5, NextHandlerSound DEF FrameMove, StoreMove
<1>8. TurnsSound'
    BY <1>4, <1>5, TurnsKept DEF Inv
<1> QED
    BY <1>4, <1>6, <1>7, <1>8, StepInv

\* The new session is bound to the key it was created for.
LEMMA BindInv == ASSUME Inv, NEW w \in Worker, BindStep(w) PROVE Inv'
<1> DEFINE f == frame[w]
           r == Current(w)
           s == Bind(stores[r], f.event.key, f.sid)
           g == [f EXCEPT !.pc = "add"]
<1>1. f.pc = "bind"
    BY DEF BindStep, At
<1>2. /\ f \in Frame /\ f.todo # <<>> /\ r = Head(f.todo) /\ r \in Ref /\ FrameSound(Grants, f)
      /\ StoreSound(Grants, stores[r], r.name) /\ f.event \in Event
    BY <1>1, CurrentSound
<1>3. errors' \subseteq Handler \X EventId /\ HistoryTyped /\ UNCHANGED <<subs, status, turns, owner, crashes>>
    BY HistoryStep DEF BindStep, Step, Inv, TypeOK
<1>4. /\ f.event.key \in Key /\ PolicyKey(r.name, f.event) = f.event.key
      /\ <<f.sid, r.name, PolicyKey(r.name, f.event)>> \in Grants
    BY <1>1, <1>2, EventKeyAssumption DEF FrameSound, PolicyKey
<1>5. f.sid \in Session
    BY <1>4 DEF Grants
<1>6. StoreSound(Grants, s, r.name) /\ s \in Store
  <2>1. StoreSound(Grants, s, r.name)
      BY <1>2, <1>4, <1>5, BindSound
  <2> QED
      BY <2>1 DEF StoreSound
<1>7. g \in Frame /\ g.pc = "add" /\ g.todo = f.todo /\ g.event = f.event /\ g.sid = f.sid
    BY <1>2 DEF Frame, PC
<1>8. SetFrame(w, g) /\ SetStore(r, s)
    BY DEF BindStep
<1> HIDE DEF g, s
<1>9. FrameSound(Grants, g) /\ SubTodo(g.todo, f.todo)
    BY <1>2, <1>4, <1>7 DEF FrameSound, SubTodo
<1> QED
    BY <1>2, <1>3, <1>6, <1>7, <1>8, <1>9, LocalStep

\* The new session joins those of its handler.
LEMMA AddCreatedInv == ASSUME Inv, NEW w \in Worker, AddCreatedStep(w) PROVE Inv'
<1> DEFINE f == frame[w]
           r == Current(w)
           s == AddCreated(stores[r], f.sid)
<1>1. f.pc = "add"
    BY DEF AddCreatedStep, At
<1>2. /\ f \in Frame /\ f.todo # <<>> /\ r = Head(f.todo) /\ r \in Ref /\ FrameSound(Grants, f)
      /\ StoreSound(Grants, stores[r], r.name) /\ f.event \in Event
    BY <1>1, CurrentSound
<1>3. errors' \subseteq Handler \X EventId /\ HistoryTyped /\ UNCHANGED <<subs, status, turns, owner, crashes>>
    BY HistoryStep DEF AddCreatedStep, Step, Inv, TypeOK
<1>4. <<f.sid, r.name, PolicyKey(r.name, f.event)>> \in Grants
    BY <1>1, <1>2 DEF FrameSound
<1>5. f.sid \in Session /\ (~Keyed(r.name) => <<f.sid, r.name, None>> \in Grants)
    BY <1>4 DEF Grants, PolicyKey
<1>6. StoreSound(Grants, s, r.name) /\ s \in Store
  <2>1. StoreSound(Grants, s, r.name)
      BY <1>2, <1>5, AddCreatedSound
  <2> QED
      BY <2>1 DEF StoreSound
<1>7. SetFrame(w, Deliver(f)) /\ SetStore(r, s)
    BY DEF AddCreatedStep
<1> HIDE DEF s
<1> QED
    BY <1>2, <1>3, <1>4, <1>6, <1>7, DeliverSound, LocalStep

-----------------------------------------------------------------------------
(* The turn.                                                                *)

\* A rejected turn is refreshed, or reported and left.
LEMMA SendFailedSound ==
    ASSUME Inv, NEW w \in Worker, frame[w].pc = "send", NEW lost \in BOOLEAN, SendFailed(w, lost)
    PROVE  /\ \E g \in Frame : SetFrame(w, g) /\ FrameSound(Grants, g) /\ SubTodo(g.todo, frame[w].todo)
           /\ errors' \subseteq Handler \X EventId
<1> DEFINE f == frame[w]
<1>1. f \in Frame /\ f.todo # <<>> /\ f.event \in Event
    BY CurrentSound
<1>2. errors' \subseteq Handler \X EventId
    BY ReportErrorType DEF SendFailed
<1>3. CASE SetFrame(w, [f EXCEPT !.pc = "create", !.sid = None, !.reused = FALSE, !.doubt = lost])
  <2> DEFINE g == [f EXCEPT !.pc = "create", !.sid = None, !.reused = FALSE, !.doubt = lost]
  <2>1. g \in Frame /\ g.pc = "create" /\ g.todo = f.todo /\ g.event = f.event /\ SetFrame(w, g)
      BY <1>1, <1>3 DEF Frame, PC
  <2> HIDE DEF g
  <2>2. FrameSound(Grants, g) /\ SubTodo(g.todo, f.todo)
      BY <1>1, <2>1 DEF FrameSound, SubTodo
  <2> QED
      BY <1>2, <2>1, <2>2
<1>4. CASE SetFrame(w, NextHandler(f))
    BY <1>1, <1>2, <1>4, NextHandlerSound
<1> QED
    BY <1>3, <1>4 DEF SendFailed

\* An accepted turn is of the handler and the key its session was granted to.
LEMMA AcceptSound ==
    ASSUME Inv, NEW w \in Worker, frame[w].pc = "send", Accept(w), Grants' = Grants
    PROVE  turns' \in [Session -> Seq(Turn)] /\ TurnsSound'
<1> DEFINE f    == frame[w]
           h    == Current(w).name
           k    == PolicyKey(h, f.event)
           turn == [name |-> h, id |-> f.event.id, via |-> f.via, key |-> k]
<1>1. /\ f \in Frame /\ FrameSound(Grants, f) /\ h = Head(f.todo).name /\ h \in Handler
      /\ f.event \in Event /\ f.event.id \in EventId
    BY CurrentSound
<1>2. <<f.sid, h, k>> \in Grants
    BY <1>1 DEF FrameSound
<1>3. f.sid \in Session /\ k \in Key \cup {None}
    BY <1>2 DEF Grants
<1>4. turn \in Turn
    BY <1>1, <1>3 DEF Turn, Frame
<1>5. turns \in [Session -> Seq(Turn)] /\ turns' = [turns EXCEPT ![f.sid] = Append(turns[f.sid], turn)]
    BY DEF Accept, Inv, TypeOK
<1>6. turn.name = h /\ turn.key = k
    OBVIOUS
<1> HIDE DEF turn, h, k
<1>7. ASSUME NEW s \in Session, NEW i \in 1..Len(turns'[s])
      PROVE  <<s, turns'[s][i].name, turns'[s][i].key>> \in Grants
  <2>1. CASE s # f.sid
      BY <1>5, <1>7, <2>1 DEF Inv, TurnsSound
  <2>2. CASE s = f.sid /\ i \in 1..Len(turns[s])
    <3>1. turns'[s][i] = turns[s][i]
        BY <1>3, <1>4, <1>5, <2>2, AppendProperties
    <3> QED
        BY <2>2, <3>1 DEF Inv, TurnsSound
  <2>3. CASE s = f.sid /\ i = Len(turns[s]) + 1
    <3>1. turns'[s][i] = turn
        BY <1>3, <1>4, <1>5, <2>3, AppendProperties
    <3> QED
        BY <1>2, <1>6, <2>3, <3>1
  <2>4. s = f.sid => i \in 1..Len(turns[s]) \/ i = Len(turns[s]) + 1
      BY <1>3, <1>4, <1>5, AppendProperties
  <2> QED
      BY <2>1, <2>2, <2>3, <2>4
<1>8. turns' \in [Session -> Seq(Turn)]
    BY <1>3, <1>4, <1>5
<1> QED
    BY <1>7, <1>8 DEF TurnsSound

\* A rejected turn is retried in a new session or reported.
LEMMA SendRejectedInv == ASSUME Inv, NEW w \in Worker, SendRejected(w) PROVE Inv'
<1>1. frame[w].pc = "send"
    BY DEF SendRejected, At
<1>2. HistoryTyped
    BY HistoryStep DEF Step
<1>3. SendFailed(w, FALSE) /\ UNCHANGED <<subs, stores, files, status, turns, owner, crashes>>
    BY DEF SendRejected
<1> QED
    BY <1>1, <1>2, <1>3, SendFailedSound, LocalStep

\* An accepted turn belongs to its session.
LEMMA SendAcceptedInv == ASSUME Inv, NEW w \in Worker, SendAccepted(w) PROVE Inv'
<1>1. frame[w].pc = "send"
    BY DEF SendAccepted, At
<1>2. Grants' = Grants
    BY GrantsKept DEF SendAccepted
<1>3. turns' \in [Session -> Seq(Turn)] /\ TurnsSound'
    BY <1>1, <1>2, AcceptSound DEF SendAccepted
<1>4. frame[w] \in Frame /\ frame[w].todo # <<>> /\ frame[w].event \in Event
    BY <1>1, CurrentSound
<1>5. FrameMove(w) /\ StoreMove
    BY <1>2, <1>4, NextHandlerSound DEF SendAccepted, FrameMove, StoreMove
<1>6. RestTyped
    BY <1>3, HistoryStep DEF SendAccepted, RestTyped, Step, Inv, TypeOK
<1> QED
    BY <1>2, <1>3, <1>5, <1>6, StepInv

\* So does a turn whose answer is lost.
LEMMA SendReplyLostInv == ASSUME Inv, NEW w \in Worker, SendReplyLost(w) PROVE Inv'
<1>1. frame[w].pc = "send"
    BY DEF SendReplyLost, At
<1>2. Grants' = Grants
    BY GrantsKept DEF SendReplyLost
<1>3. turns' \in [Session -> Seq(Turn)] /\ TurnsSound'
    BY <1>1, <1>2, AcceptSound DEF SendReplyLost
<1>6. SendFailed(w, TRUE)
    BY DEF SendReplyLost
<1>4. FrameMove(w) /\ StoreMove /\ errors' \subseteq Handler \X EventId
    BY <1>1, <1>2, <1>6, SendFailedSound DEF SendReplyLost, FrameMove, StoreMove
<1>5. RestTyped
    BY <1>3, <1>4, HistoryStep DEF SendReplyLost, RestTyped, Step, Inv, TypeOK
<1> QED
    BY <1>2, <1>3, <1>4, <1>5, StepInv

-----------------------------------------------------------------------------
(* The steps that begin a call.                                             *)

\* A dispatch starts with the stores of the subscriptions it found.
LEMMA DispatchInv == ASSUME Inv, NEW w \in Worker, NEW e \in Event, Dispatch(w, e) PROVE Inv'
<1>1. subs \in Seq(Ref) /\ StoresSound(Grants, subs)
    BY DEF Inv, TypeOK
<1>2. Len(subs) # 0
    BY <1>1 DEF Dispatch
<1>3. subs # <<>>
    BY <1>2, EmptySeq
<1>4. SetFrame(w, MarkFrame(e, subs))
    BY DEF Dispatch, MarkFrame
<1>5. /\ MarkFrame(e, subs) \in Frame /\ FrameSound(Grants, MarkFrame(e, subs))
      /\ MarkFrame(e, subs).todo = subs
    BY <1>1, <1>3, MarkFrameSound
<1>6. /\ errors' \subseteq Handler \X EventId /\ HistoryTyped
      /\ UNCHANGED <<subs, stores, files, status, turns, owner, crashes>>
    BY DEF Dispatch, Call, history, HistoryTyped, Inv, TypeOK
<1> QED
    BY <1>1, <1>4, <1>5, <1>6, BeginStep

\* A retry starts with the store of one subscription.
LEMMA RetryInv ==
    ASSUME Inv, NEW w \in Worker, NEW h \in Handler, NEW target \in Targets, NEW fresh \in FreshChoices,
           Retry(w, h, target, fresh)
    PROVE  Inv'
<1>1. subs \in Seq(Ref) /\ StoresSound(Grants, subs)
    BY DEF Inv, TypeOK
<1>2. \E i \in DOMAIN subs :
        /\ subs[i].name = h
        /\ SetFrame(w, [IdleFrame EXCEPT !.pc = "lookup", !.via = "retry", !.todo = <<subs[i]>>,
                                         !.target = target, !.fresh = fresh])
    BY Zenon DEF Retry
<1>10. DOMAIN subs = 1..Len(subs)
    BY <1>1
<1>11. PICK i \in 1..Len(subs) :
        SetFrame(w, [IdleFrame EXCEPT !.pc = "lookup", !.via = "retry", !.todo = <<subs[i]>>,
                                      !.target = target, !.fresh = fresh])
    BY <1>2, <1>10, Zenon
<1> DEFINE todo == <<subs[i]>>
           g    == [IdleFrame EXCEPT !.pc = "lookup", !.via = "retry", !.todo = todo,
                                     !.target = target, !.fresh = fresh]
<1>3. /\ subs[i] \in Ref /\ todo \in Seq(Ref) /\ Len(todo) = 1 /\ todo # <<>> /\ todo[1] = subs[i]
      /\ StoreSound(Grants, stores[subs[i]], subs[i].name)
    BY <1>1 DEF StoresSound
<1>4. SetFrame(w, g)
    BY <1>11
<1> HIDE DEF todo
<1>5. StoresSound(Grants, todo)
    BY <1>3 DEF StoresSound
<1>6. fresh \in BOOLEAN
    BY TargetsAssumption
<1>7. g \in Frame /\ g.pc = "lookup" /\ g.todo = todo
    BY <1>3, <1>6 DEF IdleFrame, Frame, PC
<1> HIDE DEF g
<1>8. FrameSound(Grants, g)
    BY <1>3, <1>7 DEF FrameSound
<1>9. /\ errors' \subseteq Handler \X EventId /\ HistoryTyped
      /\ UNCHANGED <<subs, stores, files, status, turns, owner, crashes>>
    BY DEF Retry, Call, history, HistoryTyped, Inv, TypeOK
<1> QED
    BY <1>4, <1>5, <1>7, <1>8, <1>9, BeginStep

-----------------------------------------------------------------------------
(* The steps that are no caller's.                                          *)

\* Nobody's frame moves and no grant is lost: what is left to show is the
\* subscriptions and their stores.
LEMMA OutsideInv ==
    ASSUME Inv, UNCHANGED <<files, frame, turns>>, TypeOK', Grants' = Grants,
           DistinctNames', StoresSound(Grants, subs)',
           \A w \in Worker : \A i \in 1..Len(frame[w].todo) :
                stores'[frame[w].todo[i]] = stores[frame[w].todo[i]]
    PROVE  Inv'
<1>1. \A w \in Worker : StoresSound(Grants, frame[w].todo)' /\ FrameSound(Grants, frame[w])'
    BY DEF Inv, StoresSound
<1>2. \A h \in Handler : StateSound(Grants, files[h], h)'
    BY DEF Inv
<1>3. TurnsSound'
    BY TurnsKept DEF Inv
<1> QED
    BY <1>1, <1>2, <1>3 DEF Inv

\* What is collected serves no caller.
LEMMA CollectedFacts ==
    ASSUME NEW h \in Handler, stores \in [Ref -> Store \cup {None}]
    PROVE  /\ Collected(h) \in [Ref -> Store \cup {None}]
           /\ \A q \in Ref : q.name # h \/ InUse(q) => Collected(h)[q] = stores[q]
BY DEF Collected

\* A name registered again is served by a new object, sound as its file is.
LEMMA RegisterInv == ASSUME Inv, NEW h \in Handler, Register(h) PROVE Inv'
<1>1. PICK o \in Object :
        /\ ~InUse([name |-> h, obj |-> o])
        /\ stores' = [Collected(h) EXCEPT ![[name |-> h, obj |-> o]] = NewSubStore(files[h], MaxEntries, 0)]
        /\ subs' = Append(subs, [name |-> h, obj |-> o])
    BY DEF Register
<1> DEFINE r == [name |-> h, obj |-> o]
           s == NewSubStore(files[h], MaxEntries, 0)
<1>2. /\ r \in Ref /\ r.name = h /\ ~InUse(r)
      /\ stores' = [Collected(h) EXCEPT ![r] = s] /\ subs' = Append(subs, r)
    BY <1>1 DEF Ref
<1>3. files[h] \in State /\ StateSound(Grants, files[h], h) /\ MaxEntries \in Int
    BY BoundsAssumption DEF Inv, TypeOK
<1>4. StoreSound(Grants, s, h) /\ s \in Store
    BY <1>3, NewSubStoreSound DEF StoreSound
<1> HIDE DEF r, s
<1>5. /\ subs \in Seq(Ref) /\ Len(subs) \in Nat /\ stores \in [Ref -> Store \cup {None}]
      /\ frame \in [Worker -> Frame] /\ StoresSound(Grants, subs) /\ DistinctNames
    BY DEF Inv, TypeOK
<1>6. /\ subs' \in Seq(Ref) /\ Len(subs') = Len(subs) + 1
      /\ \A i \in 1..Len(subs) : subs'[i] = subs[i]
      /\ subs'[Len(subs) + 1] = r
    BY <1>2, <1>5, AppendProperties
<1>7. \A i \in 1..Len(subs) : subs[i].name # h /\ subs[i] # r /\ subs[i] \in Ref
  <2>1. DOMAIN subs = 1..Len(subs)
      BY <1>5
  <2> QED
      BY <1>2, <1>5, <2>1 DEF Register, Registered
<1>8. UNCHANGED <<files, frame, status, turns, owner, newest, split, orphans, errors, calls, crashes>>
      /\ forked' \in {forked, forked \cup {h}}
    BY DEF Register
<1>9. Grants' = Grants
    BY <1>8, GrantsKept
<1>15. /\ Collected(h) \in [Ref -> Store \cup {None}]
       /\ \A q \in Ref : q.name # h \/ InUse(q) => Collected(h)[q] = stores[q]
    BY <1>5, CollectedFacts
<1>10. stores'[r] = s /\ \A q \in Ref : q # r /\ (q.name # h \/ InUse(q)) => stores'[q] = stores[q]
    BY <1>2, <1>15
<1>11. TypeOK'
  <2>1. stores' \in [Ref -> Store \cup {None}]
      BY <1>2, <1>4, <1>15
  <2> QED
      BY <1>6, <1>8, <2>1 DEF Inv, TypeOK
<1>12. DistinctNames'
  <2>1. ASSUME NEW i \in 1..Len(subs'), NEW j \in 1..Len(subs'), subs'[i].name = subs'[j].name
        PROVE  i = j
    <3>1. i \in 1..Len(subs) \/ i = Len(subs) + 1
        BY <1>5, <1>6
    <3>2. j \in 1..Len(subs) \/ j = Len(subs) + 1
        BY <1>5, <1>6
    <3> QED
        BY <1>2, <1>5, <1>6, <1>7, <2>1, <3>1, <3>2 DEF DistinctNames
  <2> QED
      BY <2>1 DEF DistinctNames
<1>13. StoresSound(Grants, subs)'
  <2>1. ASSUME NEW i \in 1..Len(subs')
        PROVE  StoreSound(Grants, stores'[subs'[i]], subs'[i].name)
    <3>1. CASE i \in 1..Len(subs)
        BY <1>5, <1>6, <1>7, <1>10, <3>1 DEF StoresSound
    <3>2. CASE i = Len(subs) + 1
        BY <1>2, <1>4, <1>6, <1>10, <3>2
    <3> QED
        BY <1>5, <1>6, <3>1, <3>2
  <2> QED
      BY <1>9, <2>1 DEF StoresSound
<1>14. ASSUME NEW w \in Worker, NEW i \in 1..Len(frame[w].todo)
       PROVE  stores'[frame[w].todo[i]] = stores[frame[w].todo[i]]
  <2>1. frame[w].todo \in Seq(Ref) /\ DOMAIN frame[w].todo = 1..Len(frame[w].todo)
      BY <1>5 DEF Frame
  <2>2. frame[w].todo[i] \in Ref /\ InUse(frame[w].todo[i])
      BY <2>1 DEF InUse
  <2> QED
      BY <1>2, <1>10, <2>2
<1> QED
    BY <1>8, <1>9, <1>11, <1>12, <1>13, <1>14, OutsideInv

\* An object is dropped when no caller holds it any more.
LEMMA UnregisterInv == ASSUME Inv, NEW h \in Handler, Unregister(h) PROVE Inv'
<1>1. subs \in Seq(Ref) /\ Len(subs) \in Nat /\ DOMAIN subs = 1..Len(subs)
      /\ stores \in [Ref -> Store \cup {None}]
      /\ frame \in [Worker -> Frame] /\ StoresSound(Grants, subs) /\ DistinctNames
    BY DEF Inv, TypeOK
<1>2. PICK n \in 1..Len(subs) :
        /\ subs[n].name = h
        /\ subs' = RemoveAt(subs, n)
    BY <1>1, Zenon DEF Unregister
<1>3. /\ UNCHANGED <<files, frame, status, turns, owner, newest, forked, split, orphans, errors, crashes>>
      /\ stores' = Collected(h) /\ calls' = calls + 1
    BY DEF Unregister, Call, history
<1>4. Grants' = Grants
    BY <1>3, GrantsKept
<1>5. /\ subs' \in Seq(Ref) /\ Len(subs') = Len(subs) - 1
      /\ \A i \in 1..Len(subs) - 1 : subs'[i] = subs[IF i < n THEN i ELSE i + 1]
    BY <1>1, <1>2, RemoveAtProperties
<1>6. ASSUME NEW i \in 1..Len(subs')
      PROVE  \E j \in 1..Len(subs) : j # n /\ j = (IF i < n THEN i ELSE i + 1) /\ subs'[i] = subs[j]
  <2>1. i \in 1..Len(subs) - 1 /\ subs'[i] = subs[IF i < n THEN i ELSE i + 1]
      BY <1>5
  <2>2. CASE i < n
    <3>1. i \in 1..Len(subs) /\ i # n /\ subs'[i] = subs[i]
        BY <1>1, <2>1, <2>2
    <3> QED
        BY <2>2, <3>1
  <2>3. CASE ~(i < n)
    <3>1. i + 1 \in 1..Len(subs) /\ i + 1 # n /\ subs'[i] = subs[i + 1]
        BY <1>1, <2>1, <2>3
    <3> QED
        BY <2>3, <3>1
  <2> QED
      BY <2>2, <2>3
<1>7. \A q \in Ref : q.name # h \/ InUse(q) => stores'[q] = stores[q]
    BY <1>1, <1>3, CollectedFacts
<1>8. stores' \in [Ref -> Store \cup {None}]
    BY <1>1, <1>3, CollectedFacts
<1>9. TypeOK'
    BY <1>3, <1>5, <1>8 DEF Inv, TypeOK
<1>10. DistinctNames'
  <2>1. ASSUME NEW i \in 1..Len(subs'), NEW j \in 1..Len(subs'), subs'[i].name = subs'[j].name
        PROVE  i = j
    <3>1. PICK k \in 1..Len(subs) : k = (IF i < n THEN i ELSE i + 1) /\ subs'[i] = subs[k]
        BY <1>6
    <3>2. PICK l \in 1..Len(subs) : l = (IF j < n THEN j ELSE j + 1) /\ subs'[j] = subs[l]
        BY <1>6
    <3>3. k = l
        BY <1>1, <2>1, <3>1, <3>2 DEF DistinctNames
    <3> QED
        BY <1>5, <3>1, <3>2, <3>3
  <2> QED
      BY <2>1 DEF DistinctNames
<1>11. StoresSound(Grants, subs)'
  <2>1. ASSUME NEW i \in 1..Len(subs')
        PROVE  StoreSound(Grants, stores'[subs'[i]], subs'[i].name)
    <3>1. PICK j \in 1..Len(subs) : j # n /\ subs'[i] = subs[j]
        BY <1>6
    <3>2. subs[j] \in Ref /\ subs[j].name # h
        BY <1>1, <1>2, <3>1 DEF DistinctNames
    <3> QED
        BY <1>1, <1>7, <3>1, <3>2 DEF StoresSound
  <2> QED
      BY <1>4, <2>1 DEF StoresSound
<1>12. ASSUME NEW w \in Worker, NEW i \in 1..Len(frame[w].todo)
       PROVE  stores'[frame[w].todo[i]] = stores[frame[w].todo[i]]
  <2>1. frame[w].todo \in Seq(Ref) /\ DOMAIN frame[w].todo = 1..Len(frame[w].todo)
      BY <1>1 DEF Frame
  <2>2. frame[w].todo[i] \in Ref /\ InUse(frame[w].todo[i])
      BY <2>1 DEF InUse
  <2> QED
      BY <1>7, <2>2
<1> QED
    BY <1>3, <1>4, <1>9, <1>10, <1>11, <1>12, OutsideInv

\* A session that dies stays granted.
LEMMA SessionDiesInv == ASSUME Inv, NEW s \in Session, SessionDies(s) PROVE Inv'
<1>1. /\ status \in [Session -> {"unused", "live", "dead"}] /\ status[s] = "live"
      /\ status' = [status EXCEPT ![s] = "dead"]
      /\ UNCHANGED <<subs, stores, files, frame, turns, owner, newest, forked, split, orphans, errors, calls, crashes>>
    BY DEF SessionDies, history, Inv, TypeOK
<1>2. \A x \in Session : status'[x] # "unused" <=> status[x] # "unused"
    BY <1>1
<1>3. Grants' = Grants
    BY <1>1, <1>2 DEF Grants
<1>4. TypeOK'
    BY <1>1 DEF Inv, TypeOK
<1>5. DistinctNames' /\ StoresSound(Grants, subs)'
    BY <1>1, <1>3 DEF Inv, DistinctNames, StoresSound
<1> QED
    BY <1>1, <1>3, <1>4, <1>5, OutsideInv

\* A crash leaves the files, which are sound, and the sessions.
LEMMA CrashInv == ASSUME Inv, Crash PROVE Inv'
<1>1. /\ crashes \in Nat /\ orphans \subseteq Session /\ crashes' = crashes + 1
      /\ subs' = <<>> /\ stores' = [r \in Ref |-> None] /\ orphans' = orphans \cup InHand
      /\ frame' = [w \in Worker |-> IdleFrame]
      /\ UNCHANGED <<files, status, turns, owner, newest, forked, split, errors, calls>>
    BY DEF Crash, Inv, TypeOK
<1>2. Grants' = Grants
    BY <1>1, GrantsKept
<1>3. InHand \subseteq Session
  <2>1. ASSUME NEW w \in Worker, frame[w].pc \in {"bind", "add"} PROVE frame[w].sid \in Session
      BY <2>1 DEF Inv, FrameSound, Grants
  <2> QED
      BY <2>1 DEF InHand
<1>4. IdleFrame \in Frame /\ FrameSound(Grants, IdleFrame) /\ IdleFrame.todo = <<>>
    BY IdleFrameSound
<1>5. <<>> \in Seq(Ref) /\ Len(<<>>) = 0
    OBVIOUS
<1>6. TypeOK'
    BY <1>1, <1>3, <1>4, <1>5 DEF Inv, TypeOK
<1>7. DistinctNames' /\ StoresSound(Grants, subs)'
    BY <1>1, <1>5 DEF DistinctNames, StoresSound
<1>8. ASSUME NEW w \in Worker
      PROVE  StoresSound(Grants, frame[w].todo)' /\ FrameSound(Grants, frame[w])'
  <2>1. frame'[w] = IdleFrame
      BY <1>1
  <2>2. Len(frame'[w].todo) = 0
      BY <1>4, <1>5, <2>1
  <2> QED
      BY <1>2, <1>4, <2>1, <2>2 DEF StoresSound
<1>9. (\A h \in Handler : StateSound(Grants, files[h], h))' /\ TurnsSound'
    BY <1>1, <1>2, TurnsKept DEF Inv
<1> QED
    BY <1>6, <1>7, <1>8, <1>9 DEF Inv

-----------------------------------------------------------------------------
(* The invariant.                                                           *)

\* Nothing is registered and no session exists: all is sound.
LEMMA InitInv == Init => Inv
<1> SUFFICES ASSUME Init PROVE Inv
    OBVIOUS
<1>1. <<>> \in Seq(Ref) /\ <<>> \in Seq(Turn) /\ Len(<<>>) = 0
    OBVIOUS
<1>2. IdleFrame \in Frame /\ FrameSound(Grants, IdleFrame) /\ IdleFrame.todo = <<>>
    BY IdleFrameSound
<1>3. /\ EmptyState.created = <<>> /\ EmptyState.events = <<>>
      /\ \A k \in Key : EmptyState.bindings[k] = None
    BY DEF EmptyState
<1>4. EmptyState \in State /\ \A h : StateSound(Grants, EmptyState, h)
    BY <1>1, <1>3, EmptyStateType DEF StateSound, DistinctEvents
<1>5. TypeOK
    BY <1>1, <1>2, <1>4 DEF Init, TypeOK
<1>6. DistinctNames /\ StoresSound(Grants, subs) /\ TurnsSound
    BY <1>1 DEF Init, DistinctNames, StoresSound, TurnsSound
<1>7. \A w \in Worker : frame[w] = IdleFrame
    BY DEF Init
<1>8. \A w \in Worker : StoresSound(Grants, frame[w].todo) /\ FrameSound(Grants, frame[w])
    BY <1>1, <1>2, <1>7 DEF StoresSound
<1>9. \A h \in Handler : StateSound(Grants, files[h], h)
    BY <1>4 DEF Init
<1> QED
    BY <1>5, <1>6, <1>8, <1>9 DEF Inv

\* Every step of a caller.
LEMMA StepsInv == ASSUME Inv, NEW w \in Worker, Step(w) PROVE Inv'
<1>1. \/ MarkSeenStep(w) \/ RecordEventStep(w) \/ LookupStep(w) \/ UnbindStep(w)
      \/ ReadBinding(w) \/ CheckAlive(w)
      \/ ReadRecent(w) \/ (\E s \in Session : ReadSummary(w, s)) \/ RouterDecide(w)
      \/ CreateSession(w) \/ CreateFails(w) \/ BindStep(w) \/ AddCreatedStep(w)
      \/ SendAccepted(w) \/ SendRejected(w) \/ SendReplyLost(w)
    BY DEF Step
<1> QED
    BY <1>1, MarkSeenInv, RecordEventInv, LookupInv, UnbindInv, ReadBindingInv, CheckAliveInv,
       ReadRecentInv, ReadSummaryInv, RouterDecideInv, CreateSessionInv, CreateFailsInv,
       BindInv, AddCreatedInv, SendAcceptedInv, SendRejectedInv, SendReplyLostInv

\* A step that changes nothing.
LEMMA StutterInv == ASSUME Inv, UNCHANGED vars PROVE Inv'
<1>1. /\ UNCHANGED <<subs, stores, files, frame, status, turns, owner, errors, calls, crashes>>
      /\ UNCHANGED <<newest, forked, split, orphans>>
    BY DEF vars, history
<1>2. Grants' = Grants
    BY <1>1, GrantsKept
<1>3. TypeOK' /\ DistinctNames' /\ StoresSound(Grants, subs)'
    BY <1>1, <1>2 DEF Inv, TypeOK, DistinctNames, StoresSound
<1> QED
    BY <1>1, <1>2, <1>3, OutsideInv

\* Every step of the bus and of its environment.
LEMMA NextInv == Inv /\ [Next]_vars => Inv'
<1> SUFFICES ASSUME Inv, [Next]_vars PROVE Inv'
    OBVIOUS
<1>1. \/ \E h \in Handler : Register(h) \/ Unregister(h)
      \/ \E w \in Worker, e \in Event : Dispatch(w, e)
      \/ \E w \in Worker, h \in Handler, t \in Targets, fresh \in FreshChoices : Retry(w, h, t, fresh)
      \/ \E w \in Worker : Step(w)
      \/ \E s \in Session : SessionDies(s)
      \/ Crash
      \/ UNCHANGED vars
    BY DEF Next
<1> QED
    BY <1>1, RegisterInv, UnregisterInv, DispatchInv, RetryInv, StepsInv, SessionDiesInv,
       CrashInv, StutterInv

\* The invariant holds in every reachable state.
LEMMA Invariance == Spec => []Inv
BY InitInv, NextInv, PTL DEF Spec

-----------------------------------------------------------------------------
\* Type correctness of the bus, for every number of callers, handlers and events.
THEOREM TypeCorrect == Spec => []TypeOK
<1>1. Inv => TypeOK
    BY DEF Inv
<1> QED
    BY <1>1, Invariance, PTL

\* Conversations never mix (SessionIsolation): a session only ever accepts turns
\* of the handler, and for a keyed policy of the key, it was created for.
THEOREM Isolation == Spec => []SessionIsolation
<1>1. ASSUME Inv PROVE SessionIsolation
  <2>1. ASSUME NEW s \in Session, NEW i \in DOMAIN turns[s]
        PROVE  owner[s] = [name |-> turns[s][i].name, key |-> turns[s][i].key]
    <3>1. turns[s] \in Seq(Turn)
        BY <1>1 DEF Inv, TypeOK
    <3>2. <<s, turns[s][i].name, turns[s][i].key>> \in Grants
        BY <1>1, <3>1 DEF Inv, TurnsSound
    <3> QED
        BY <3>2 DEF Grants
  <2> QED
      BY <2>1 DEF SessionIsolation
<1>2. Inv => SessionIsolation
    BY <1>1
<1> QED
    BY <1>2, Invariance, PTL

\* What a process trusts when it reopens a file (BindingsOwned): every binding
\* names a session that was created for that handler and that key.
THEOREM BindingsCorrect == Spec => []BindingsOwned
<1>1. ASSUME Inv PROVE BindingsOwned
  <2>1. ASSUME NEW h \in Handler, NEW k \in Key, files[h].bindings[k] # None
        PROVE  owner[files[h].bindings[k]] = [name |-> h, key |-> k]
    <3>1. <<files[h].bindings[k], h, k>> \in Grants
        BY <1>1, <2>1 DEF Inv, StateSound
    <3> QED
        BY <3>1 DEF Grants
  <2> QED
      BY <2>1 DEF BindingsOwned
<1>2. Inv => BindingsOwned
    BY <1>1
<1> QED
    BY <1>2, Invariance, PTL


-----------------------------------------------------------------------------
(* The shape of a caller's step, for the invariants that follow: it goes on *)
(* with its current subscription or leaves it, and nobody else's frame      *)
(* moves.                                                                   *)

Goes(f, g) ==
    /\ g.pc \notin {"idle", "mark", "lookup"}
    /\ g.todo = f.todo /\ g.via = f.via
    /\ f.pc # "lookup" => g.event = f.event
    /\ g.fresh => f.fresh
    /\ f.pc # "send" => g.doubt = f.doubt
    /\ f.pc \notin {"mark", "record", "lookup"} /\ ~g.prompt => ~f.prompt

Leaves(f, g) ==
    /\ g.pc \in {"idle", "mark"} /\ g.via = "dispatch" /\ ~g.fresh /\ g.doubt = FALSE
    /\ SubTodo(g.todo, f.todo)

Moves(w) ==
    /\ frame[w].pc # "idle"
    /\ \A v \in Worker : v # w => frame'[v] = frame[v]
    /\ Goes(frame[w], frame'[w]) \/ Leaves(frame[w], frame'[w])
    /\ UNCHANGED <<subs, forked, crashes>>

Moved(w, pcs) == Moves(w) /\ Goes(frame[w], frame'[w]) /\ frame'[w].pc \in pcs

Left(w) == Moves(w) /\ Leaves(frame[w], frame'[w])

\* The frame a step sets is the one it leaves.
LEMMA FrameSet ==
    ASSUME Inv, NEW w \in Worker, NEW g, SetFrame(w, g)
    PROVE  frame'[w] = g /\ \A v \in Worker : v # w => frame'[v] = frame[v]
BY DEF SetFrame, Inv, TypeOK

\* A step that keeps its call.
LEMMA StepMoves ==
    ASSUME Inv, NEW w \in Worker, frame[w].pc # "idle", UNCHANGED <<subs, forked, crashes>>,
           NEW g, SetFrame(w, g), Goes(frame[w], g)
    PROVE  Moves(w) /\ Goes(frame[w], frame'[w]) /\ frame'[w] = g
BY FrameSet DEF Moves

\* A step that is done with its subscription.
LEMMA StepLeaves ==
    ASSUME Inv, NEW w \in Worker, frame[w].pc # "idle", UNCHANGED <<subs, forked, crashes>>,
           NEW g, SetFrame(w, g), Leaves(frame[w], g)
    PROVE  Left(w) /\ frame'[w] = g
BY FrameSet DEF Moves, Left

\* A caller that is done with a subscription is at rest or at the next.
LEMMA NextHandlerLeaves ==
    ASSUME NEW f \in Frame, f.todo # <<>>, f.event \in Event, NEW d \in Frame,
           d.todo = f.todo, d.event = f.event
    PROVE  Leaves(f, NextHandler(d))
<1>1. SubTodo(NextHandler(d).todo, f.todo)
    BY NextHandlerSound
<1>2. NextHandler(d).pc \in {"idle", "mark"} /\ NextHandler(d).via = "dispatch" /\ ~NextHandler(d).fresh
      /\ NextHandler(d).doubt = FALSE
  <2>1. CASE Len(d.todo) > 1
      BY <2>1 DEF NextHandler, IdleFrame
  <2>2. CASE ~(Len(d.todo) > 1)
      BY <2>2 DEF NextHandler, IdleFrame
  <2> QED
      BY <2>1, <2>2
<1> QED
    BY <1>1, <1>2 DEF Leaves

\* The step resolve() starts with.
LEMMA ResolveStarts ==
    ASSUME NEW h \in Handler
    PROVE  /\ ResolveAt(h) \in {"create", "binding", "recent"}
           /\ ResolveAt(h) = "create" => ~Keyed(h)
<1>1. Policy[h] \in {"stateless", "keyed", "routed"}
    BY PolicyAssumption
<1> QED
    BY <1>1 DEF ResolveAt, Keyed

\* markSeen: a claim, or on to the next subscription.
LEMMA MarkSeenShape ==
    ASSUME Inv, NEW w \in Worker, MarkSeenStep(w)
    PROVE  /\ frame[w].pc = "mark" /\ UNCHANGED <<status, turns, owner, errors>>
           /\ \/ /\ Moved(w, {"record"})
                 /\ IsNew(stores[Current(w)], frame[w].event.id, 0)
                 /\ SetStore(Current(w), MarkSeen(stores[Current(w)], frame[w].event.id, 0))
                 /\ newest' = Admitted(Current(w).name, frame[w].event.id)
              \/ Left(w) /\ UNCHANGED <<stores, files, newest>>
<1> DEFINE f == frame[w]
           r == Current(w)
<1>1. f.pc = "mark" /\ UNCHANGED <<subs, status, turns, owner, forked, errors, crashes>>
    BY DEF MarkSeenStep, At, history
<1>2. f \in Frame /\ f.todo # <<>> /\ f.event \in Event
    BY <1>1, CurrentSound
<1>3. CASE /\ IsNew(stores[r], f.event.id, 0)
           /\ SetStore(r, MarkSeen(stores[r], f.event.id, 0))
           /\ SetFrame(w, [f EXCEPT !.pc = "record"])
           /\ newest' = Admitted(r.name, f.event.id)
  <2> DEFINE g == [f EXCEPT !.pc = "record"]
  <2>1. Goes(f, g) /\ g.pc = "record"
      BY <1>1, <1>2 DEF Frame, Goes
  <2> HIDE DEF g
  <2>2. Moved(w, {"record"})
      BY <1>1, <1>3, <2>1, StepMoves DEF Moved, g
  <2> QED
      BY <1>1, <1>3, <2>2
<1>4. CASE SetFrame(w, NextHandler(f)) /\ UNCHANGED <<stores, files, newest>>
  <2>1. Left(w)
      BY <1>1, <1>2, <1>4, NextHandlerLeaves, StepLeaves
  <2> QED
      BY <1>1, <1>4, <2>1
<1> QED
    BY <1>3, <1>4 DEF MarkSeenStep

\* recordEvent, and the prompt.
LEMMA RecordEventShape ==
    ASSUME Inv, NEW w \in Worker, RecordEventStep(w)
    PROVE  /\ frame[w].pc = "record" /\ UNCHANGED <<status, turns, owner, errors>>
           /\ Moved(w, {"create", "binding", "recent"})
           /\ frame'[w].prompt <=> frame[w].event \notin Silent[Current(w).name]
           /\ frame'[w].pc = ResolveAt(Current(w).name)
           /\ \E s \in Store : /\ SetStore(Current(w), s) /\ SameWindow(stores[Current(w)], s)
                               /\ s.state.created = stores[Current(w)].state.created
                               /\ s.state.bindings = stores[Current(w)].state.bindings
<1> DEFINE f == frame[w]
           r == Current(w)
           g == Resolve(f, f.event)
           s == RecordEvent(stores[r], PolicyKey(r.name, f.event), f.event)
<1>1. f.pc = "record" /\ UNCHANGED <<subs, status, turns, owner, forked, errors, crashes>>
    BY DEF RecordEventStep, At, history
<1>2. /\ f \in Frame /\ f.todo # <<>> /\ f.event \in Event /\ r = Head(f.todo) /\ r.name \in Handler
      /\ StoreSound(Grants, stores[r], r.name)
    BY <1>1, CurrentSound
<1>3. /\ g.pc = ResolveAt(r.name) /\ g.todo = f.todo /\ g.event = f.event /\ g.via = f.via
      /\ g.fresh = f.fresh /\ g.doubt = f.doubt /\ g.prompt = (f.event \notin Silent[r.name])
    BY <1>2 DEF Resolve, Frame
<1>4. Goes(f, g) /\ g.pc \in {"create", "binding", "recent"}
    BY <1>1, <1>2, <1>3, ResolveStarts DEF Goes
<1>5. SetFrame(w, g) /\ SetStore(r, s)
    BY DEF RecordEventStep
<1>6. /\ s \in Store /\ SameWindow(stores[r], s) /\ s.state.created = stores[r].state.created
      /\ s.state.bindings = stores[r].state.bindings
  <2>1. PolicyKey(r.name, f.event) \in Key \cup {None}
      BY <1>2, EventKeyAssumption DEF PolicyKey
  <2>2. stores[r] \in Store /\ DistinctEvents(stores[r].state.events)
      BY <1>2 DEF StoreSound, StateSound
  <2> QED
      BY <1>2, <2>1, <2>2, RecordEventProperties
<1> HIDE DEF g, s
<1>7. Moved(w, {"create", "binding", "recent"}) /\ frame'[w] = g
    BY <1>1, <1>4, <1>5, StepMoves DEF Moved
<1> QED
    BY <1>1, <1>3, <1>5, <1>6, <1>7

\* lookupEvent: an event to drive again, or an error and no more.
LEMMA LookupShape ==
    ASSUME Inv, NEW w \in Worker, LookupStep(w)
    PROVE  /\ frame[w].pc = "lookup" /\ UNCHANGED <<stores, files, status, turns, owner, errors>>
           /\ \/ Left(w)
              \/ /\ Moved(w, {"unbind", "create", "binding", "recent"})
                 /\ frame'[w].prompt <=> frame'[w].event \notin Silent[Current(w).name]
                 /\ frame'[w].pc = "unbind" => frame[w].fresh
                 /\ frame'[w].pc = "create" => ~Keyed(Current(w).name)
<1> DEFINE r == Current(w)
           e == LookupEvent(stores[r], frame[w].target)
           f == [frame[w] EXCEPT !.target = None, !.fresh = FALSE]
           g == Resolve(f, e)
<1>1. frame[w].pc = "lookup" /\ UNCHANGED <<subs, stores, files, status, turns, owner, forked, errors, crashes>>
    BY DEF LookupStep, At, history
<1>2. frame[w] \in Frame /\ frame[w].todo # <<>> /\ r = Head(frame[w].todo) /\ r.name \in Handler
    BY <1>1, CurrentSound
<1>3. SetFrame(w, IF e = None THEN IdleFrame
                  ELSE IF frame[w].fresh /\ Keyed(r.name) THEN [g EXCEPT !.pc = "unbind"]
                  ELSE g)
    BY DEF LookupStep
<1>4. /\ f.todo = frame[w].todo /\ f.via = frame[w].via /\ f.fresh = FALSE /\ f \in Frame
      /\ f.doubt = frame[w].doubt
    BY <1>2 DEF Frame
<1>5. CASE e = None
  <2>1. Leaves(frame[w], IdleFrame)
      BY IdleFrameSound DEF Leaves, SubTodo, IdleFrame
  <2> QED
      BY <1>1, <1>3, <1>5, <2>1, StepLeaves
<1>6. CASE e # None
  <2> HIDE DEF e, f
  <2>1. /\ g.pc = ResolveAt(r.name) /\ g.todo = frame[w].todo /\ g.event = e /\ g.via = frame[w].via
        /\ g.fresh = FALSE /\ g.doubt = frame[w].doubt /\ g.prompt = (e \notin Silent[r.name])
      BY <1>2, <1>4 DEF Resolve, Frame
  <2>2. CASE frame[w].fresh /\ Keyed(r.name)
    <3> DEFINE u == [g EXCEPT !.pc = "unbind"]
    <3>1. /\ u.pc = "unbind" /\ u.todo = frame[w].todo /\ u.event = e /\ u.via = frame[w].via
          /\ u.fresh = FALSE /\ u.doubt = frame[w].doubt /\ u.prompt = (e \notin Silent[r.name])
      <4>1. g \in Frame
        <5>1. e \in Event
          <6>1. stores[r] \in Store
              BY <1>1, CurrentSound
          <6> QED
              BY <1>6, <6>1, LookupEventType DEF e
        <5> QED
            BY <1>2, <1>4, <5>1, ResolveSound
      <4> HIDE DEF g
      <4> QED
          BY <2>1, <4>1 DEF Frame
    <3>2. SetFrame(w, u)
        BY <1>3, <1>6, <2>2
    <3> HIDE DEF u
    <3>3. Goes(frame[w], u)
        BY <1>1, <3>1 DEF Goes
    <3>4. Moves(w) /\ Goes(frame[w], frame'[w]) /\ frame'[w] = u
        BY <1>1, <3>2, <3>3, StepMoves
    <3> QED
        BY <1>1, <2>2, <3>1, <3>4 DEF Moved
  <2>3. CASE ~(frame[w].fresh /\ Keyed(r.name))
    <3>1. SetFrame(w, g)
        BY <1>3, <1>6, <2>3
    <3> HIDE DEF g
    <3>2. Goes(frame[w], g)
        BY <1>1, <1>2, <2>1, ResolveStarts DEF Goes
    <3>3. Moves(w) /\ Goes(frame[w], frame'[w]) /\ frame'[w] = g
        BY <1>1, <3>1, <3>2, StepMoves
    <3> QED
        BY <1>1, <1>2, <2>1, <3>3, ResolveStarts DEF Moved
  <2> QED
      BY <2>2, <2>3
<1> QED
    BY <1>5, <1>6

\* unbind, and on to the resolution of a keyed policy.
LEMMA UnbindShape ==
    ASSUME Inv, NEW w \in Worker, UnbindStep(w)
    PROVE  /\ frame[w].pc = "unbind" /\ UNCHANGED <<status, turns, owner, errors>>
           /\ Moved(w, {"binding"}) /\ Keyed(Current(w).name)
           /\ \/ UNCHANGED <<stores, files, split>>
              \/ /\ split' = split \cup {<<Current(w).name, frame[w].event.key>>}
                 /\ \E s \in Store : /\ SetStore(Current(w), s) /\ SameWindow(stores[Current(w)], s)
                                     /\ s.state.created = stores[Current(w)].state.created
                                     /\ s.state.bindings = [stores[Current(w)].state.bindings
                                                              EXCEPT ![frame[w].event.key] = None]
<1> DEFINE f == frame[w]
           r == Current(w)
           s == Unbind(stores[r], f.event.key)
           g == [f EXCEPT !.pc = ResolveAt(r.name)]
<1>1. f.pc = "unbind" /\ UNCHANGED <<subs, status, turns, owner, forked, errors, crashes>>
    BY DEF UnbindStep, At, history
<1>2. /\ f \in Frame /\ r = Head(f.todo) /\ f.event \in Event /\ Keyed(r.name) /\ stores[r] \in Store
    BY <1>1, CurrentSound DEF FrameSound
<1>3. /\ SetFrame(w, g)
      /\ \/ UNCHANGED <<stores, files, split>>
         \/ SetStore(r, s) /\ split' = split \cup {<<r.name, f.event.key>>}
    BY <1>2 DEF UnbindStep, Splits
<1>4. g.pc = "binding" /\ Goes(f, g)
    BY <1>1, <1>2 DEF Frame, ResolveAt, Keyed, Goes
<1>5. /\ s \in Store /\ SameWindow(stores[r], s) /\ s.state.created = stores[r].state.created
      /\ s.state.bindings = [stores[r].state.bindings EXCEPT ![f.event.key] = None]
    BY <1>2, EventKeyAssumption, UnbindType
<1> HIDE DEF g, s
<1>6. Moved(w, {"binding"})
    BY <1>1, <1>3, <1>4, StepMoves DEF Moved
<1> QED
    BY <1>1, <1>2, <1>3, <1>5, <1>6

\* The binding of the key, read from the store.
LEMMA ReadBindingShape ==
    ASSUME Inv, NEW w \in Worker, ReadBinding(w)
    PROVE  /\ frame[w].pc = "binding" /\ UNCHANGED <<stores, files, status, turns, owner, errors>>
           /\ Moved(w, {"create", "alive"}) /\ Keyed(Current(w).name)
           /\ frame'[w].pc = "create" => stores[Current(w)].state.bindings[frame[w].event.key] = None
           /\ frame'[w].pc = "alive" => frame'[w].sid = stores[Current(w)].state.bindings[frame[w].event.key]
           /\ Splits(w, \E v \in Worker : Works(v, Current(w).name, frame[w].event.key))
<1> DEFINE f   == frame[w]
           sid == stores[Current(w)].state.bindings[f.event.key]
           g   == IF sid = None THEN [f EXCEPT !.pc = "create"] ELSE [f EXCEPT !.pc = "alive", !.sid = sid]
<1>1. f.pc = "binding" /\ UNCHANGED <<subs, stores, files, status, turns, owner, forked, errors, crashes>>
    BY DEF ReadBinding, At, history
<1>2. f \in Frame /\ Keyed(Current(w).name)
    BY <1>1, CurrentSound DEF FrameSound
<1>3. SetFrame(w, g)
    BY DEF ReadBinding
<1>6. Splits(w, \E v \in Worker : Works(v, Current(w).name, f.event.key))
    BY Zenon DEF ReadBinding
<1> HIDE DEF sid
<1>4. /\ g.pc \in {"create", "alive"} /\ Goes(f, g)
      /\ g.pc = "create" => sid = None
      /\ g.pc = "alive" => g.sid = sid
    BY <1>1, <1>2 DEF Frame, Goes
<1> HIDE DEF g
<1>5. Moved(w, {"create", "alive"}) /\ frame'[w] = g
    BY <1>1, <1>3, <1>4, StepMoves DEF Moved
<1> QED
    BY <1>1, <1>2, <1>4, <1>5, <1>6 DEF sid

\* deliver(): the caller sends, or has nothing to send.
LEMMA DeliverShape ==
    ASSUME Inv, NEW w \in Worker, frame[w].pc \notin {"idle", "mark", "record", "lookup", "send"},
           UNCHANGED <<subs, forked, crashes>>, NEW d \in Frame, SetFrame(w, Deliver(d)),
           d.todo = frame[w].todo, d.event = frame[w].event, d.via = frame[w].via,
           d.fresh = frame[w].fresh, d.doubt = frame[w].doubt, ~d.prompt => ~frame[w].prompt
    PROVE  \/ Moved(w, {"send"}) /\ frame'[w].sid = d.sid /\ frame'[w].reused = d.reused
           \/ Left(w) /\ ~frame[w].prompt
<1>1. frame[w] \in Frame /\ frame[w].todo # <<>> /\ frame[w].event \in Event
    BY CurrentSound
<1>2. CASE d.prompt
  <2> DEFINE g == [d EXCEPT !.pc = "send"]
  <2>1. Goes(frame[w], g) /\ g.pc = "send" /\ g.sid = d.sid /\ g.reused = d.reused
      BY DEF Frame, Goes
  <2>2. SetFrame(w, g)
      BY <1>2 DEF Deliver
  <2> HIDE DEF g
  <2> QED
      BY <2>1, <2>2, StepMoves DEF Moved
<1>3. CASE ~d.prompt
  <2>1. SetFrame(w, NextHandler(d))
      BY <1>3 DEF Deliver
  <2>2. Left(w)
      BY <1>1, <2>1, NextHandlerLeaves, StepLeaves
  <2> QED
      BY <1>3, <2>2
<1> QED
    BY <1>2, <1>3

\* The session of the binding is used, or given up for a new one.
LEMMA CheckAliveShape ==
    ASSUME Inv, NEW w \in Worker, CheckAlive(w)
    PROVE  /\ frame[w].pc = "alive" /\ UNCHANGED <<stores, files, status, turns, owner, errors>>
           /\ Keyed(Current(w).name)
           /\ \/ Moved(w, {"send"}) /\ frame'[w].sid = frame[w].sid /\ UNCHANGED split
              \/ Left(w) /\ ~frame[w].prompt /\ UNCHANGED split
              \/ Moved(w, {"create"}) /\ Splits(w, status[frame[w].sid] = "live")
<1> DEFINE f == frame[w]
<1>1. f.pc = "alive" /\ UNCHANGED <<subs, stores, files, status, turns, owner, forked, errors, crashes>>
    BY DEF CheckAlive, At, history
<1>2. f \in Frame /\ Keyed(Current(w).name)
    BY <1>1, CurrentSound DEF FrameSound
<1>3. CASE SetFrame(w, Deliver([f EXCEPT !.reused = TRUE])) /\ UNCHANGED split
  <2> DEFINE d == [f EXCEPT !.reused = TRUE]
  <2>1. d \in Frame /\ d.todo = f.todo /\ d.event = f.event /\ d.via = f.via /\ d.fresh = f.fresh
        /\ d.doubt = f.doubt /\ d.prompt = f.prompt /\ d.sid = f.sid /\ SetFrame(w, Deliver(d))
      BY <1>2, <1>3 DEF Frame
  <2> HIDE DEF d
  <2>2. \/ Moved(w, {"send"}) /\ frame'[w].sid = d.sid
        \/ Left(w) /\ ~f.prompt
      BY <1>1, <2>1, DeliverShape
  <2> QED
      BY <1>1, <1>2, <1>3, <2>1, <2>2
<1>4. CASE /\ Splits(w, status[f.sid] = "live")
           /\ SetFrame(w, [f EXCEPT !.pc = "create", !.sid = None])
  <2> DEFINE g == [f EXCEPT !.pc = "create", !.sid = None]
  <2>1. Goes(f, g) /\ g.pc = "create" /\ SetFrame(w, g)
      BY <1>1, <1>2, <1>4 DEF Frame, Goes
  <2> HIDE DEF g
  <2>2. Moved(w, {"create"})
      BY <1>1, <2>1, StepMoves DEF Moved
  <2> QED
      BY <1>1, <1>2, <1>4, <2>2
<1> QED
    BY <1>3, <1>4 DEF CheckAlive

\* The candidates of a routed policy, listed and read one by one.
LEMMA CandidatesShape ==
    ASSUME Inv, NEW w \in Worker, ReadRecent(w) \/ \E s \in Session : ReadSummary(w, s)
    PROVE  /\ frame[w].pc \in {"recent", "summary"}
           /\ UNCHANGED <<stores, files, status, turns, owner, errors>>
           /\ Moved(w, {"summary"})
<1> DEFINE f == frame[w]
<1>1. CASE ReadRecent(w)
  <2> DEFINE g == [f EXCEPT !.pc = "summary", !.cands = {},
                            !.listed = RecentCreated(stores[Current(w)], MaxCandidates)]
  <2>1. f.pc = "recent" /\ UNCHANGED <<subs, stores, files, status, turns, owner, forked, errors, crashes>>
        /\ SetFrame(w, g)
      BY <1>1 DEF ReadRecent, At, history
  <2>2. f \in Frame
      BY <2>1, CurrentSound
  <2>3. Goes(f, g) /\ g.pc = "summary"
      BY <2>1, <2>2 DEF Frame, Goes
  <2> HIDE DEF g
  <2> QED
      BY <2>1, <2>3, StepMoves DEF Moved
<1>2. ASSUME NEW s \in Session, ReadSummary(w, s)
      PROVE  /\ f.pc = "summary" /\ UNCHANGED <<stores, files, status, turns, owner, errors>>
             /\ Moved(w, {"summary"})
  <2>1. f.pc = "summary" /\ UNCHANGED <<subs, stores, files, status, turns, owner, forked, errors, crashes>>
      BY <1>2 DEF ReadSummary, At, history
  <2>2. f \in Frame
      BY <2>1, CurrentSound
  <2> DEFINE l == [f EXCEPT !.listed = @ \ {s}]
             c == [l EXCEPT !.cands = @ \cup {s}]
  <2>3. SetFrame(w, c) \/ SetFrame(w, l)
      BY <1>2 DEF ReadSummary
  <2>4. /\ Goes(f, l) /\ l.pc = "summary"
        /\ Goes(f, c) /\ c.pc = "summary"
      BY <2>1, <2>2 DEF Frame, Goes
  <2> HIDE DEF l, c
  <2>5. Moved(w, {"summary"})
      BY <2>1, <2>3, <2>4, StepMoves DEF Moved
  <2> QED
      BY <2>1, <2>5
<1> QED
    BY <1>1, <1>2

\* The router's choice.
LEMMA RouterDecideShape ==
    ASSUME Inv, NEW w \in Worker, RouterDecide(w)
    PROVE  /\ frame[w].pc = "summary" /\ UNCHANGED <<stores, files, status, turns, owner, errors>>
           /\ Policy[Current(w).name] = "routed"
           /\ \/ Moved(w, {"send", "create"})
              \/ Left(w) /\ ~frame[w].prompt
<1> DEFINE f == frame[w]
<1>1. f.pc = "summary" /\ UNCHANGED <<subs, stores, files, status, turns, owner, forked, errors, crashes>>
    BY DEF RouterDecide, At, history
<1>2. f \in Frame /\ f.todo # <<>> /\ Policy[Current(w).name] = "routed"
    BY <1>1, CurrentSound DEF FrameSound
<1>3. PICK choice \in Session \cup {None}, prompt \in BOOLEAN :
        SetFrame(w, IF choice \in f.cands
                    THEN Deliver([[f EXCEPT !.prompt = f.prompt \/ prompt, !.cands = {}]
                                    EXCEPT !.sid = choice, !.reused = TRUE])
                    ELSE [[f EXCEPT !.prompt = f.prompt \/ prompt, !.cands = {}] EXCEPT !.pc = "create"])
    BY Zenon DEF RouterDecide
<1> DEFINE g == [f EXCEPT !.prompt = f.prompt \/ prompt, !.cands = {}]
<1>4. /\ g \in Frame /\ g.todo = f.todo /\ g.event = f.event /\ g.via = f.via /\ g.fresh = f.fresh
      /\ g.doubt = f.doubt /\ (~g.prompt => ~f.prompt)
    BY <1>2 DEF Frame
<1> HIDE DEF g
<1>5. CASE choice \in f.cands
  <2> DEFINE d == [g EXCEPT !.sid = choice, !.reused = TRUE]
  <2>1. /\ d.todo = f.todo /\ d.event = f.event /\ d.via = f.via /\ d.fresh = f.fresh
        /\ d.doubt = f.doubt /\ (~d.prompt => ~f.prompt)
      BY <1>4 DEF Frame
  <2>2. d \in Frame
    <3>1. choice \in Session \cup {None}
        BY <1>3
    <3> QED
        BY <1>4, <3>1 DEF Frame
  <2>3. SetFrame(w, Deliver(d))
      BY <1>3, <1>5 DEF g
  <2> HIDE DEF d
  <2>4. Moved(w, {"send"}) \/ (Left(w) /\ ~f.prompt)
      BY <1>1, <2>1, <2>2, <2>3, DeliverShape
  <2> QED
      BY <1>1, <1>2, <2>4 DEF Moved
<1>6. CASE choice \notin f.cands
  <2> DEFINE d == [g EXCEPT !.pc = "create"]
  <2>1. Goes(f, d) /\ d.pc = "create"
      BY <1>1, <1>4 DEF Frame, Goes
  <2>2. SetFrame(w, d)
      BY <1>3, <1>6 DEF g
  <2> HIDE DEF d
  <2>3. Moved(w, {"send", "create"})
      BY <1>1, <2>1, <2>2, StepMoves DEF Moved
  <2> QED
      BY <1>1, <1>2, <2>3
<1> QED
    BY <1>5, <1>6

\* A session that did not exist, for the current subscription and event.
LEMMA CreateSessionShape ==
    ASSUME Inv, NEW w \in Worker, CreateSession(w)
    PROVE  /\ frame[w].pc = "create" /\ UNCHANGED <<stores, files, turns, errors>>
           /\ Moved(w, {"bind", "add"}) /\ ~frame'[w].reused
           /\ frame'[w].pc = "bind" <=> Keyed(Current(w).name)
           /\ frame'[w].sid \in Session
           /\ HandOut(w, frame'[w].sid)
<1> DEFINE f == frame[w]
           h == Current(w).name
<1>1. f.pc = "create" /\ UNCHANGED <<subs, stores, files, turns, forked, errors, crashes>>
    BY DEF CreateSession, At, history
<1>2. f \in Frame
    BY <1>1, CurrentSound
<1>3. PICK s \in Session :
        /\ HandOut(w, s)
        /\ SetFrame(w, [f EXCEPT !.pc = IF Keyed(h) THEN "bind" ELSE "add", !.sid = s, !.reused = FALSE])
    BY DEF CreateSession
<1> DEFINE g == [f EXCEPT !.pc = IF Keyed(h) THEN "bind" ELSE "add", !.sid = s, !.reused = FALSE]
<1>4. /\ Goes(f, g) /\ g.sid = s /\ ~g.reused /\ g.pc \in {"bind", "add"}
      /\ g.pc = "bind" <=> Keyed(h)
    BY <1>1, <1>2 DEF Frame, Goes
<1>5. SetFrame(w, g)
    BY <1>3
<1> HIDE DEF g
<1>6. Moved(w, {"bind", "add"}) /\ frame'[w] = g
    BY <1>1, <1>4, <1>5, StepMoves DEF Moved
<1> QED
    BY <1>1, <1>3, <1>4, <1>6

\* The runtime refused, or created a session nobody knows of: the error is reported.
LEMMA CreateFailsShape ==
    ASSUME Inv, NEW w \in Worker, CreateFails(w)
    PROVE  /\ frame[w].pc = "create" /\ UNCHANGED <<stores, files, turns>>
           /\ Left(w) /\ ReportError(w)
           /\ \/ UNCHANGED <<status, owner, orphans>>
              \/ \E s \in Session : HandOut(w, s) /\ orphans' = orphans \cup {s}
<1>1. /\ frame[w].pc = "create"
      /\ UNCHANGED <<subs, stores, files, turns, forked, crashes>>
      /\ ReportError(w) /\ SetFrame(w, NextHandler(frame[w]))
    BY DEF CreateFails, At
<1>2. frame[w] \in Frame /\ frame[w].todo # <<>> /\ frame[w].event \in Event
    BY <1>1, CurrentSound
<1>3. Left(w)
    BY <1>1, <1>2, NextHandlerLeaves, StepLeaves
<1> QED
    BY <1>1, <1>3 DEF CreateFails

\* bind: the key points at the new session.
LEMMA BindShape ==
    ASSUME Inv, NEW w \in Worker, BindStep(w)
    PROVE  /\ frame[w].pc = "bind" /\ UNCHANGED <<status, turns, owner, errors>>
           /\ Moved(w, {"add"}) /\ Keyed(Current(w).name)
           /\ frame'[w].sid = frame[w].sid /\ frame'[w].reused = frame[w].reused
           /\ \E s \in Store : /\ SetStore(Current(w), s) /\ SameWindow(stores[Current(w)], s)
                               /\ s.state.created = stores[Current(w)].state.created
                               /\ s.state.bindings = [stores[Current(w)].state.bindings
                                                        EXCEPT ![frame[w].event.key] = frame[w].sid]
<1> DEFINE f == frame[w]
           r == Current(w)
           s == Bind(stores[r], f.event.key, f.sid)
           g == [f EXCEPT !.pc = "add"]
<1>1. f.pc = "bind" /\ UNCHANGED <<subs, status, turns, owner, forked, errors, crashes>>
    BY DEF BindStep, At, history
<1>2. /\ f \in Frame /\ r = Head(f.todo) /\ f.event \in Event /\ Keyed(r.name) /\ stores[r] \in Store
      /\ f.sid \in Session
    BY <1>1, CurrentSound DEF FrameSound, Grants
<1>3. SetFrame(w, g) /\ SetStore(r, s)
    BY DEF BindStep
<1>4. g.pc = "add" /\ g.sid = f.sid /\ g.reused = f.reused /\ Goes(f, g)
    BY <1>1, <1>2 DEF Frame, Goes
<1>5. /\ s \in Store /\ SameWindow(stores[r], s) /\ s.state.created = stores[r].state.created
      /\ s.state.bindings = [stores[r].state.bindings EXCEPT ![f.event.key] = f.sid]
    BY <1>2, EventKeyAssumption, BindType
<1> HIDE DEF g, s
<1>6. Moved(w, {"add"}) /\ frame'[w] = g
    BY <1>1, <1>3, <1>4, StepMoves DEF Moved
<1> QED
    BY <1>1, <1>2, <1>3, <1>4, <1>5, <1>6

\* addCreated: the new session is in the list, and its caller has it resolved.
LEMMA AddCreatedShape ==
    ASSUME Inv, NEW w \in Worker, AddCreatedStep(w)
    PROVE  /\ frame[w].pc = "add" /\ UNCHANGED <<status, turns, owner, errors>>
           /\ \/ Moved(w, {"send"}) /\ frame'[w].sid = frame[w].sid /\ frame'[w].reused = frame[w].reused
              \/ Left(w) /\ ~frame[w].prompt
           /\ frame[w].sid \in Session
           /\ \E s \in Store : /\ SetStore(Current(w), s) /\ SameWindow(stores[Current(w)], s)
                               /\ s.state.created = Append(stores[Current(w)].state.created, frame[w].sid)
                               /\ s.state.bindings = stores[Current(w)].state.bindings
<1> DEFINE f == frame[w]
           r == Current(w)
           s == AddCreated(stores[r], f.sid)
<1>1. f.pc = "add" /\ UNCHANGED <<subs, status, turns, owner, forked, errors, crashes>>
    BY DEF AddCreatedStep, At, history
<1>2. f \in Frame /\ stores[r] \in Store /\ f.sid \in Session
    BY <1>1, CurrentSound DEF FrameSound, Grants
<1>3. SetFrame(w, Deliver(f)) /\ SetStore(r, s)
    BY DEF AddCreatedStep
<1>4. /\ s \in Store /\ SameWindow(stores[r], s) /\ s.state.bindings = stores[r].state.bindings
      /\ s.state.created = Append(stores[r].state.created, f.sid)
    BY <1>2, AddCreatedType
<1> HIDE DEF s
<1>5. \/ Moved(w, {"send"}) /\ frame'[w].sid = f.sid /\ frame'[w].reused = f.reused
      \/ Left(w) /\ ~f.prompt
    BY <1>1, <1>2, <1>3, DeliverShape
<1> QED
    BY <1>1, <1>2, <1>3, <1>4, <1>5

\* A rejected turn: a reused session is replaced, or the error reported.
LEMMA SendFailedShape ==
    ASSUME Inv, NEW w \in Worker, frame[w].pc = "send", NEW lost \in BOOLEAN, SendFailed(w, lost),
           UNCHANGED <<subs, forked, crashes>>
    PROVE  \/ /\ frame[w].reused /\ Moved(w, {"create"}) /\ frame'[w].doubt = lost
              /\ UNCHANGED errors /\ Splits(w, status[frame[w].sid] = "live")
           \/ ~frame[w].reused /\ Left(w) /\ ReportError(w) /\ UNCHANGED split
<1> DEFINE f == frame[w]
<1>1. f \in Frame /\ f.todo # <<>> /\ f.event \in Event
    BY CurrentSound
<1>2. CASE /\ f.reused /\ UNCHANGED errors /\ Splits(w, status[f.sid] = "live")
           /\ SetFrame(w, [f EXCEPT !.pc = "create", !.sid = None, !.reused = FALSE, !.doubt = lost])
  <2> DEFINE g == [f EXCEPT !.pc = "create", !.sid = None, !.reused = FALSE, !.doubt = lost]
  <2>1. Goes(f, g) /\ g.pc = "create" /\ g.doubt = lost /\ SetFrame(w, g)
      BY <1>1, <1>2 DEF Frame, Goes
  <2> HIDE DEF g
  <2>2. Moved(w, {"create"}) /\ frame'[w] = g
      BY <2>1, StepMoves DEF Moved
  <2> QED
      BY <1>2, <2>1, <2>2
<1>3. CASE ~f.reused /\ SetFrame(w, NextHandler(f)) /\ ReportError(w) /\ UNCHANGED split
  <2>1. Left(w)
      BY <1>1, <1>3, NextHandlerLeaves, StepLeaves
  <2> QED
      BY <1>3, <2>1
<1> QED
    BY <1>2, <1>3 DEF SendFailed

\* The turn a caller sends.
TurnOf(w) == [name |-> Current(w).name, id |-> frame[w].event.id, via |-> frame[w].via,
              key |-> PolicyKey(Current(w).name, frame[w].event)]

\* The caller's session takes its turn.
Takes(w) ==
    /\ status[frame[w].sid] = "live"
    /\ turns' = [turns EXCEPT ![frame[w].sid] = Append(@, TurnOf(w))]

\* SendUserMessage: the turn is accepted, or it failed, or both.
LEMMA SendShape ==
    ASSUME Inv, NEW w \in Worker, SendAccepted(w) \/ SendRejected(w) \/ SendReplyLost(w)
    PROVE  /\ frame[w].pc = "send" /\ UNCHANGED <<stores, files, status, owner>>
           /\ frame[w].sid \in Session
           /\ \/ Takes(w) /\ Left(w) /\ UNCHANGED <<errors, split>>
              \/ /\ frame[w].reused /\ Moved(w, {"create"})
                 /\ UNCHANGED errors /\ Splits(w, status[frame[w].sid] = "live")
                 /\ \/ frame'[w].doubt = FALSE /\ UNCHANGED turns
                    \/ frame'[w].doubt = TRUE /\ Takes(w)
              \/ /\ ~frame[w].reused /\ Left(w) /\ ReportError(w) /\ UNCHANGED split
                 /\ UNCHANGED turns \/ Takes(w)
<1>1. frame[w].pc = "send" /\ UNCHANGED <<subs, stores, files, status, owner, forked, crashes>>
    BY DEF SendAccepted, SendRejected, SendReplyLost, At, history
<1>2. /\ frame[w] \in Frame /\ frame[w].todo # <<>> /\ frame[w].event \in Event
      /\ frame[w].sid \in Session
    BY <1>1, CurrentSound DEF FrameSound, Grants
<1>3. CASE SendAccepted(w)
  <2>1. Left(w)
      BY <1>1, <1>2, <1>3, NextHandlerLeaves, StepLeaves DEF SendAccepted
  <2>2. Takes(w) /\ UNCHANGED <<errors, split>>
      BY <1>3 DEF SendAccepted, Accept, TurnOf, Takes, history
  <2> QED
      BY <1>1, <1>2, <2>1, <2>2
<1>4. CASE SendRejected(w)
  <2>1. SendFailed(w, FALSE) /\ UNCHANGED turns
      BY <1>4 DEF SendRejected
  <2> QED
      BY <1>1, <1>2, <2>1, SendFailedShape
<1>5. CASE SendReplyLost(w)
  <2>1. SendFailed(w, TRUE) /\ Takes(w)
      BY <1>5 DEF SendReplyLost, Accept, TurnOf, Takes
  <2> QED
      BY <1>1, <1>2, <2>1, SendFailedShape
<1> QED
    BY <1>3, <1>4, <1>5

\* What a caller's step adds to the history.
LEMMA HistoryShape ==
    ASSUME Inv, NEW w \in Worker, Step(w)
    PROVE  /\ UNCHANGED newest \/ MarkSeenStep(w)
           /\ UNCHANGED orphans \/ CreateFails(w)
           /\ UNCHANGED <<status, owner>> \/ CreateSession(w) \/ CreateFails(w)
           /\ split \subseteq split' /\ orphans \subseteq orphans'
<1>1. CASE CreateFails(w)
    BY <1>1 DEF CreateFails
<1>2. CASE SendAccepted(w) \/ SendRejected(w) \/ SendReplyLost(w)
    BY <1>2 DEF SendAccepted, SendRejected, SendReplyLost, SendFailed, Splits, history
<1>3. CASE MarkSeenStep(w) \/ RecordEventStep(w) \/ LookupStep(w) \/ UnbindStep(w)
    BY <1>3 DEF MarkSeenStep, RecordEventStep, LookupStep, UnbindStep, Splits, history
<1>4. CASE ReadBinding(w) \/ CheckAlive(w)
    BY <1>4 DEF ReadBinding, CheckAlive, Splits
<1>5. CASE ReadRecent(w) \/ (\E s \in Session : ReadSummary(w, s)) \/ RouterDecide(w)
    BY <1>5 DEF ReadRecent, ReadSummary, RouterDecide, history
<1>6. CASE CreateSession(w) \/ BindStep(w) \/ AddCreatedStep(w)
    BY <1>6 DEF CreateSession, BindStep, AddCreatedStep, history
<1> QED
    BY <1>1, <1>2, <1>3, <1>4, <1>5, <1>6 DEF Step

-----------------------------------------------------------------------------
(* The shape of the other steps.                                            *)

\* Dispatch and Retry begin a call with subscriptions of the list.
Begins(w) ==
    /\ frame[w].pc = "idle"
    /\ \A v \in Worker : v # w => frame'[v] = frame[v]
    /\ frame'[w].pc \in {"mark", "lookup"}
    /\ frame'[w].pc = "lookup" <=> frame'[w].via = "retry"
    /\ frame'[w].doubt = FALSE
    /\ SubTodo(frame'[w].todo, subs)
    /\ UNCHANGED <<subs, stores, files, status, turns, owner, errors, crashes>>
    /\ UNCHANGED <<newest, forked, split, orphans>>

\* Register, Unregister, the death of a session, and nothing at all.
Outside == UNCHANGED <<files, frame, turns, owner, newest, split, orphans, errors, crashes>>

\* A dispatch begins with the whole list.
LEMMA DispatchBegins ==
    ASSUME Inv, NEW w \in Worker, NEW e \in Event, Dispatch(w, e)
    PROVE  Begins(w)
<1> DEFINE g == [IdleFrame EXCEPT !.pc = "mark", !.event = e, !.todo = subs]
<1>1. /\ frame[w].pc = "idle" /\ SetFrame(w, g)
      /\ UNCHANGED <<subs, stores, files, status, turns, owner, errors, crashes>>
      /\ UNCHANGED <<newest, forked, split, orphans>>
    BY DEF Dispatch, At, history
<1>2. g.pc = "mark" /\ g.via = "dispatch" /\ g.doubt = FALSE /\ g.todo = subs
    BY DEF IdleFrame
<1> HIDE DEF g
<1>3. SubTodo(subs, subs)
    BY DEF SubTodo
<1>4. frame'[w] = g /\ \A v \in Worker : v # w => frame'[v] = frame[v]
    BY <1>1, FrameSet
<1> QED
    BY <1>1, <1>2, <1>3, <1>4 DEF Begins

\* A retry begins with one of its subscriptions.
LEMMA RetryBegins ==
    ASSUME Inv, NEW w \in Worker, NEW h \in Handler, NEW target \in Targets, NEW fresh \in FreshChoices,
           Retry(w, h, target, fresh)
    PROVE  Begins(w)
<1>1. /\ frame[w].pc = "idle"
      /\ UNCHANGED <<subs, stores, files, status, turns, owner, errors, crashes>>
      /\ UNCHANGED <<newest, forked, split, orphans>>
    BY DEF Retry, At, history
<1>2. subs \in Seq(Ref) /\ DOMAIN subs = 1..Len(subs)
    BY DEF Inv, TypeOK
<1>3. \E i \in DOMAIN subs :
        /\ subs[i].name = h
        /\ SetFrame(w, [IdleFrame EXCEPT !.pc = "lookup", !.via = "retry", !.todo = <<subs[i]>>,
                                         !.target = target, !.fresh = fresh])
    BY Zenon DEF Retry
<1>4. PICK i \in 1..Len(subs) :
        SetFrame(w, [IdleFrame EXCEPT !.pc = "lookup", !.via = "retry", !.todo = <<subs[i]>>,
                                      !.target = target, !.fresh = fresh])
    BY <1>2, <1>3, Zenon
<1> DEFINE todo == <<subs[i]>>
           g    == [IdleFrame EXCEPT !.pc = "lookup", !.via = "retry", !.todo = todo,
                                     !.target = target, !.fresh = fresh]
<1>5. Len(todo) = 1 /\ todo[1] = subs[i]
    OBVIOUS
<1>6. SetFrame(w, g)
    BY <1>4
<1> HIDE DEF todo
<1>7. g.pc = "lookup" /\ g.via = "retry" /\ g.doubt = FALSE /\ g.todo = todo
    BY DEF IdleFrame
<1> HIDE DEF g
<1>8. SubTodo(todo, subs)
    BY <1>2, <1>5 DEF SubTodo
<1>9. frame'[w] = g /\ \A v \in Worker : v # w => frame'[v] = frame[v]
    BY <1>6, FrameSet
<1> QED
    BY <1>1, <1>7, <1>8, <1>9 DEF Begins

\* Every step: a call begins, goes on or ends with its process, or no call moves.
LEMMA NextShape ==
    ASSUME Inv, [Next]_vars
    PROVE  \/ \E w \in Worker : Begins(w) \/ Step(w)
           \/ Crash
           \/ Outside
<1>1. \/ \E h \in Handler : Register(h) \/ Unregister(h)
      \/ \E w \in Worker, e \in Event : Dispatch(w, e)
      \/ \E w \in Worker, h \in Handler, t \in Targets, fresh \in FreshChoices : Retry(w, h, t, fresh)
      \/ \E w \in Worker : Step(w)
      \/ \E s \in Session : SessionDies(s)
      \/ Crash
      \/ UNCHANGED vars
    BY DEF Next
<1>2. ASSUME NEW h \in Handler, Register(h) \/ Unregister(h) PROVE Outside
    BY <1>2 DEF Register, Unregister, Outside, history
<1>3. ASSUME NEW s \in Session, SessionDies(s) PROVE Outside
    BY <1>3 DEF SessionDies, Outside, history
<1>4. UNCHANGED vars => Outside
    BY DEF vars, Outside, history
<1> QED
    BY <1>1, <1>2, <1>3, <1>4, DispatchBegins, RetryBegins

\* A session that was not created yet: it has no turn, and no caller holds it.
LEMMA UnusedUnknown ==
    ASSUME Inv, NEW s \in Session, status[s] = "unused"
    PROVE  /\ turns[s] = <<>>
           /\ \A w \in Worker : frame[w].pc \in {"alive", "bind", "add", "send"} => frame[w].sid # s
<1>1. turns[s] \in Seq(Turn)
    BY DEF Inv, TypeOK
<1>2. Len(turns[s]) = 0
  <2>1. ~(1 \in 1..Len(turns[s]))
      BY DEF Inv, TurnsSound, Grants
  <2> QED
      BY <1>1, <2>1
<1>3. turns[s] = <<>>
    BY <1>1, <1>2, EmptySeq
<1> QED
    BY <1>3 DEF Inv, FrameSound, Grants


-----------------------------------------------------------------------------
(* A stateless handler never reuses a session: the session in a caller's    *)
(* hands is its own, and has no turn yet.                                   *)

Fresh(w) == frame[w].pc \in {"add", "send"} /\ Policy[Current(w).name] = "stateless"

FreshInv ==
    /\ \A w \in Worker : Fresh(w) => turns[frame[w].sid] = <<>> /\ ~frame[w].reused
    /\ \A v, w \in Worker : Fresh(v) /\ Fresh(w) /\ frame[v].sid = frame[w].sid => v = w
    /\ StatelessSessionsAreFresh

\* A caller that carries its fresh session on, or has none.
LEMMA FreshKept ==
    ASSUME Inv, FreshInv, NEW w \in Worker,
           \A v \in Worker : v # w => frame'[v] = frame[v],
           Fresh(w)' => Fresh(w) /\ frame'[w].sid = frame[w].sid /\ frame'[w].reused = frame[w].reused,
           UNCHANGED <<turns, owner>>
    PROVE  FreshInv'
<1>1. ASSUME NEW v \in Worker
      PROVE  Fresh(v)' => Fresh(v) /\ frame'[v].sid = frame[v].sid /\ frame'[v].reused = frame[v].reused
  <2>1. v # w => frame'[v] = frame[v]
      OBVIOUS
  <2> QED
      BY <2>1 DEF Fresh, Current
<1>2. StatelessSessionsAreFresh'
    BY DEF FreshInv, StatelessSessionsAreFresh
<1> QED
    BY <1>1, <1>2 DEF FreshInv

\* A session handed out has no turn, and no caller holds it.
LEMMA FreshHandOut ==
    ASSUME Inv, FreshInv, NEW w \in Worker, NEW s \in Session, HandOut(w, s), UNCHANGED turns
    PROVE  /\ turns[s] = <<>> /\ StatelessSessionsAreFresh'
           /\ \A v \in Worker : frame[v].pc \in {"alive", "bind", "add", "send"} => frame[v].sid # s
<1>1. /\ status[s] = "unused"
      /\ owner' = [owner EXCEPT ![s] = OwnerOf(Current(w).name, frame[w].event)]
    BY DEF HandOut
<1>2. /\ turns[s] = <<>>
      /\ \A v \in Worker : frame[v].pc \in {"alive", "bind", "add", "send"} => frame[v].sid # s
    BY <1>1, UnusedUnknown
<1>3. ASSUME NEW x \in Session, owner'[x] # None, Policy[owner'[x].name] = "stateless"
      PROVE  Len(turns'[x]) <= 1
  <2>1. CASE x = s
      BY <1>2, <2>1
  <2>2. CASE x # s
    <3>1. owner'[x] = owner[x] /\ turns'[x] = turns[x]
        BY <1>1, <2>2 DEF Inv, TypeOK
    <3> QED
        BY <1>3, <3>1 DEF FreshInv, StatelessSessionsAreFresh
  <2> QED
      BY <2>1, <2>2
<1> QED
    BY <1>2, <1>3 DEF StatelessSessionsAreFresh

\* A new session is nobody else's.
LEMMA FreshCreate == ASSUME Inv, FreshInv, NEW w \in Worker, CreateSession(w) PROVE FreshInv'
<1> DEFINE s == frame'[w].sid
<1>1. /\ UNCHANGED turns /\ Moved(w, {"bind", "add"}) /\ ~frame'[w].reused
      /\ s \in Session /\ HandOut(w, s)
    BY CreateSessionShape
<1>2. \A v \in Worker : v # w => frame'[v] = frame[v]
    BY <1>1 DEF Moved, Moves
<1>3. /\ turns[s] = <<>> /\ StatelessSessionsAreFresh'
      /\ \A v \in Worker : frame[v].pc \in {"alive", "bind", "add", "send"} => frame[v].sid # s
    BY <1>1, FreshHandOut
<1> HIDE DEF s
<1>4. \A v \in Worker : v # w => (Fresh(v)' <=> Fresh(v)) /\ frame'[v] = frame[v]
    BY <1>2 DEF Fresh, Current
<1>5. ASSUME NEW v \in Worker, Fresh(v)'
      PROVE  turns'[frame'[v].sid] = <<>> /\ ~frame'[v].reused
    BY <1>1, <1>3, <1>4, <1>5 DEF FreshInv, s
<1>6. ASSUME NEW u \in Worker, NEW v \in Worker, Fresh(u)', Fresh(v)', frame'[u].sid = frame'[v].sid
      PROVE  u = v
  <2>1. CASE u # w /\ v # w
      BY <1>4, <1>6, <2>1 DEF FreshInv
  <2>2. ASSUME NEW x \in Worker, x # w, Fresh(x)', frame'[x].sid = s PROVE FALSE
      BY <1>3, <1>4, <2>2 DEF Fresh
  <2> QED
      BY <1>6, <2>1, <2>2 DEF s
<1> QED
    BY <1>3, <1>5, <1>6 DEF FreshInv

\* The one turn of a stateless handler's session is the last its caller sends to it.
LEMMA FreshSend ==
    ASSUME Inv, FreshInv, NEW w \in Worker, SendAccepted(w) \/ SendRejected(w) \/ SendReplyLost(w)
    PROVE  FreshInv'
<1> DEFINE s == frame[w].sid
           h == Current(w).name
<1>1. /\ frame[w].pc = "send" /\ UNCHANGED owner /\ s \in Session /\ Moves(w)
      /\ (frame[w].reused /\ frame'[w].pc = "create") \/ frame'[w].pc \in {"idle", "mark"}
      /\ UNCHANGED turns \/ turns' = [turns EXCEPT ![s] = Append(@, TurnOf(w))]
    BY SendShape DEF Moved, Left, Leaves, Takes
<1>2. /\ ~Fresh(w)'
      /\ \A v \in Worker : v # w => frame'[v] = frame[v]
    BY <1>1 DEF Fresh, Moves
<1>3. CASE UNCHANGED turns
    BY <1>1, <1>2, <1>3, FreshKept
<1>4. CASE turns' = [turns EXCEPT ![s] = Append(@, TurnOf(w))]
  <2>1. turns \in [Session -> Seq(Turn)]
      BY DEF Inv, TypeOK
  <2>2. \A x \in Session : x # s => turns'[x] = turns[x]
      BY <1>4, <2>1
  <2>3. owner[s].name = h
    <3>1. FrameSound(Grants, frame[w]) /\ h = Head(frame[w].todo).name
        BY <1>1, CurrentSound
    <3>2. <<s, h, PolicyKey(h, frame[w].event)>> \in Grants
        BY <1>1, <3>1 DEF FrameSound
    <3> QED
        BY <3>2 DEF Grants
  <2>4. ASSUME NEW v \in Worker, Fresh(v)'
        PROVE  v # w /\ Fresh(v) /\ frame'[v] = frame[v] /\ frame[v].sid # s /\ frame[v].sid \in Session
    <3>1. v # w /\ frame'[v] = frame[v] /\ Fresh(v)
        BY <1>2, <2>4 DEF Fresh, Current
    <3>2. FrameSound(Grants, frame[v]) /\ Current(v).name = Head(frame[v].todo).name
        BY <3>1, CurrentSound DEF Fresh
    <3>3. <<frame[v].sid, Current(v).name, PolicyKey(Current(v).name, frame[v].event)>> \in Grants
        BY <3>1, <3>2 DEF FrameSound, Fresh
    <3>4. frame[v].sid \in Session /\ owner[frame[v].sid].name = Current(v).name
        BY <3>3 DEF Grants
    <3>5. frame[v].sid # s
      <4>1. SUFFICES ASSUME frame[v].sid = s PROVE FALSE
          OBVIOUS
      <4>2. Fresh(w)
          BY <1>1, <2>3, <3>1, <3>4, <4>1 DEF Fresh
      <4> QED
          BY <3>1, <4>1, <4>2 DEF FreshInv
    <3> QED
        BY <3>1, <3>4, <3>5
  <2>5. StatelessSessionsAreFresh'
    <3>1. ASSUME NEW x \in Session, owner'[x] # None, Policy[owner'[x].name] = "stateless"
          PROVE  Len(turns'[x]) <= 1
      <4>1. owner[x] # None /\ Policy[owner[x].name] = "stateless"
          BY <1>1, <3>1
      <4>2. CASE x # s
          BY <2>2, <4>1, <4>2 DEF FreshInv, StatelessSessionsAreFresh
      <4>3. CASE x = s
        <5>1. turns[s] = <<>>
            BY <1>1, <2>3, <4>1, <4>3 DEF Fresh, FreshInv
        <5>2. turns'[s] = Append(<<>>, TurnOf(w))
            BY <1>1, <1>4, <2>1, <5>1
        <5>3. Len(Append(<<>>, TurnOf(w))) = 1
            OBVIOUS
        <5> QED
            BY <4>3, <5>2, <5>3
      <4> QED
          BY <4>2, <4>3
    <3> QED
        BY <3>1 DEF StatelessSessionsAreFresh
  <2> QED
      BY <2>2, <2>4, <2>5 DEF FreshInv
<1> QED
    BY <1>1, <1>3, <1>4

\* Every step of a caller leaves its fresh session to nobody else.
LEMMA FreshStep == ASSUME Inv, FreshInv, NEW w \in Worker, Step(w) PROVE FreshInv'
<1>1. ASSUME Moves(w), frame'[w].pc \notin {"add", "send"}, UNCHANGED <<turns, owner>>
      PROVE  FreshInv'
    BY <1>1, FreshKept DEF Fresh, Moves
<1>2. CASE MarkSeenStep(w)
    BY <1>1, <1>2, MarkSeenShape DEF Moved, Left, Leaves
<1>3. CASE RecordEventStep(w)
    BY <1>1, <1>3, RecordEventShape DEF Moved
<1>4. CASE LookupStep(w)
    BY <1>1, <1>4, LookupShape DEF Moved, Left, Leaves
<1>5. CASE UnbindStep(w)
    BY <1>1, <1>5, UnbindShape DEF Moved
<1>6. CASE ReadBinding(w)
    BY <1>1, <1>6, ReadBindingShape DEF Moved
<1>7. CASE ReadRecent(w) \/ \E s \in Session : ReadSummary(w, s)
    BY <1>1, <1>7, CandidatesShape DEF Moved
<1>8. CASE CreateFails(w)
  <2>1. /\ UNCHANGED turns /\ frame'[w].pc \in {"idle", "mark"}
        /\ \A v \in Worker : v # w => frame'[v] = frame[v]
        /\ UNCHANGED owner \/ \E s \in Session : HandOut(w, s)
      BY <1>8, CreateFailsShape DEF Left, Leaves, Moves
  <2>2. StatelessSessionsAreFresh'
      BY <2>1, FreshHandOut DEF FreshInv, StatelessSessionsAreFresh
  <2>3. \A v \in Worker : Fresh(v)' => v # w /\ Fresh(v) /\ frame'[v] = frame[v]
      BY <2>1 DEF Fresh, Current
  <2> QED
      BY <2>1, <2>2, <2>3 DEF FreshInv
<1>9. ASSUME Moves(w), frame'[w].todo = frame[w].todo \/ frame'[w].pc \in {"idle", "mark"},
             Policy[Current(w).name] # "stateless", UNCHANGED <<turns, owner>>
      PROVE  FreshInv'
  <2>1. ~Fresh(w)'
      BY <1>9 DEF Fresh, Current
  <2> QED
      BY <1>9, <2>1, FreshKept DEF Moves
<1>10. CASE CheckAlive(w)
    BY <1>9, <1>10, CheckAliveShape DEF Moved, Left, Leaves, Goes, Keyed
<1>11. CASE RouterDecide(w)
    BY <1>9, <1>11, RouterDecideShape DEF Moved, Left, Leaves, Goes
<1>12. CASE BindStep(w)
    BY <1>9, <1>12, BindShape DEF Moved, Goes, Keyed
<1>13. CASE AddCreatedStep(w)
  <2>1. /\ frame[w].pc = "add" /\ UNCHANGED <<turns, owner>> /\ Moves(w)
        /\ \/ /\ frame'[w].todo = frame[w].todo
              /\ frame'[w].sid = frame[w].sid /\ frame'[w].reused = frame[w].reused
           \/ frame'[w].pc \in {"idle", "mark"}
      BY <1>13, AddCreatedShape DEF Moved, Left, Leaves, Goes
  <2>2. Fresh(w)' => Fresh(w) /\ frame'[w].sid = frame[w].sid /\ frame'[w].reused = frame[w].reused
      BY <2>1 DEF Fresh, Current
  <2> QED
      BY <2>1, <2>2, FreshKept DEF Moves
<1> QED
    BY <1>2, <1>3, <1>4, <1>5, <1>6, <1>7, <1>8, <1>10, <1>11, <1>12, <1>13,
       FreshCreate, FreshSend DEF Step

\* The invariant of fresh sessions is inductive over that of the types.
LEMMA FreshNext == ASSUME Inv, FreshInv, [Next]_vars PROVE FreshInv'
<1>1. ASSUME NEW w \in Worker, Begins(w) PROVE FreshInv'
  <2>1. /\ frame'[w].pc \in {"mark", "lookup"} /\ UNCHANGED <<turns, owner>>
        /\ \A v \in Worker : v # w => frame'[v] = frame[v]
      BY <1>1 DEF Begins
  <2>2. ~Fresh(w)'
      BY <2>1 DEF Fresh
  <2> QED
      BY <2>1, <2>2, FreshKept
<1>2. CASE Crash
  <2>1. \A w \in Worker : frame'[w] = IdleFrame /\ frame'[w].pc = "idle"
      BY <1>2, Zenon DEF Crash, IdleFrame
  <2>2. (\A w \in Worker : ~Fresh(w))' /\ UNCHANGED <<turns, owner>>
      BY <1>2, <2>1 DEF Crash, Fresh
  <2> QED
      BY <2>2 DEF FreshInv, StatelessSessionsAreFresh
<1>3. CASE Outside
    BY <1>3 DEF Outside, FreshInv, StatelessSessionsAreFresh, Fresh, Current
<1> QED
    BY <1>1, <1>2, <1>3, FreshStep, NextShape

\* No session of a stateless handler carries two turns (StatelessSessionsAreFresh),
\* neither two events nor an event and its retry, whatever callers do at once.
THEOREM StatelessFresh == Spec => []StatelessSessionsAreFresh
<1>1. Init => FreshInv
  <2>1. SUFFICES ASSUME Init PROVE FreshInv
      OBVIOUS
  <2>2. \A w \in Worker : frame[w] = IdleFrame /\ frame[w].pc = "idle"
      BY <2>1, Zenon DEF Init, IdleFrame
  <2>3. \A s \in Session : owner[s] = None
      BY <2>1 DEF Init
  <2> QED
      BY <2>2, <2>3 DEF FreshInv, Fresh, StatelessSessionsAreFresh
<1>2. FreshInv => StatelessSessionsAreFresh
    BY DEF FreshInv
<1> QED
    BY <1>1, <1>2, FreshNext, Invariance, PTL DEF Spec


-----------------------------------------------------------------------------
(* One store object per name and file, as long as no Register comes while   *)
(* a caller still uses the object before.  Two objects over one file        *)
(* overwrite each other's state, and what follows is not promised of that   *)
(* handler from then on.                                                    *)

Uses(refs, r) == \E i \in 1..Len(refs) : refs[i] = r

Used(r) == Uses(subs, r) \/ \E w \in Worker : Uses(frame[w].todo, r)

Shared ==
    /\ \A q, r \in Ref : Used(q) /\ Used(r) /\ q.name = r.name /\ r.name \notin forked => q = r
    /\ \A r \in Ref : Used(r) => /\ r.name \notin forked => stores[r].state = files[r.name]
                                 /\ stores[r].maxSeen = WindowSize(MaxEntries)
                                 /\ stores[r].ttl = 0

\* What a step of a caller does to the stores: one call of its own, or none.
StoreCall(w) ==
    \/ UNCHANGED <<stores, files>>
    \/ \E s \in Store : /\ SetStore(Current(w), s)
                        /\ s.maxSeen = stores[Current(w)].maxSeen
                        /\ s.ttl = stores[Current(w)].ttl

\* Every step of a caller moves it and calls at most its own store.
LEMMA StepCalls == ASSUME Inv, NEW w \in Worker, Step(w) PROVE Moves(w) /\ StoreCall(w)
<1>1. CASE MarkSeenStep(w)
  <2>1. /\ frame[w].pc = "mark"
        /\ \/ Moves(w) /\ SetStore(Current(w), MarkSeen(stores[Current(w)], frame[w].event.id, 0))
           \/ Moves(w) /\ UNCHANGED <<stores, files>>
      BY <1>1, MarkSeenShape DEF Moved, Left
  <2>2. /\ stores[Current(w)] \in Store /\ Indexed(stores[Current(w)])
        /\ frame[w].event.id \in EventId /\ 0 \in Nat
      BY <2>1, CurrentSound DEF StoreSound
  <2> DEFINE s == MarkSeen(stores[Current(w)], frame[w].event.id, 0)
  <2>3. s \in Store /\ s.maxSeen = stores[Current(w)].maxSeen /\ s.ttl = stores[Current(w)].ttl
      BY <2>2, MarkSeenIndexed DEF SameButWindow
  <2> HIDE DEF s
  <2>4. Moves(w) /\ (SetStore(Current(w), s) \/ UNCHANGED <<stores, files>>)
      BY <2>1 DEF s
  <2> QED
      BY <2>3, <2>4 DEF StoreCall
<1>2. CASE RecordEventStep(w)
    BY <1>2, RecordEventShape DEF Moved, StoreCall, SameWindow
<1>3. CASE LookupStep(w)
    BY <1>3, LookupShape DEF Moved, Left, StoreCall
<1>4. CASE UnbindStep(w)
    BY <1>4, UnbindShape DEF Moved, StoreCall, SameWindow
<1>5. CASE ReadBinding(w)
    BY <1>5, ReadBindingShape DEF Moved, StoreCall
<1>6. CASE CheckAlive(w)
    BY <1>6, CheckAliveShape DEF Moved, Left, StoreCall
<1>7. CASE ReadRecent(w) \/ \E s \in Session : ReadSummary(w, s)
    BY <1>7, CandidatesShape DEF Moved, StoreCall
<1>8. CASE RouterDecide(w)
    BY <1>8, RouterDecideShape DEF Moved, Left, StoreCall
<1>9. CASE CreateSession(w)
    BY <1>9, CreateSessionShape DEF Moved, StoreCall
<1>10. CASE CreateFails(w)
    BY <1>10, CreateFailsShape DEF Left, StoreCall
<1>11. CASE BindStep(w)
    BY <1>11, BindShape DEF Moved, StoreCall, SameWindow
<1>12. CASE AddCreatedStep(w)
    BY <1>12, AddCreatedShape DEF Moved, Left, StoreCall, SameWindow
<1>13. CASE SendAccepted(w) \/ SendRejected(w) \/ SendReplyLost(w)
    BY <1>13, SendShape DEF Moved, Left, StoreCall
<1> QED
    BY <1>1, <1>2, <1>3, <1>4, <1>5, <1>6, <1>7, <1>8, <1>9, <1>10, <1>11, <1>12, <1>13 DEF Step

\* A call goes on with subscriptions it had.
LEMMA MovesSubTodo == ASSUME NEW w \in Worker, Moves(w) PROVE SubTodo(frame'[w].todo, frame[w].todo)
BY DEF Moves, Goes, Leaves, SubTodo

\* What a part of a list uses, the list uses.
LEMMA SubTodoUses ==
    ASSUME NEW g, NEW f, SubTodo(g, f)
    PROVE  /\ \A r : Uses(g, r) => Uses(f, r)
           /\ \A d : SubTodo(f, d) => SubTodo(g, d)
BY DEF SubTodo, Uses

\* A caller's subscription is in use.
LEMMA CurrentUsed == ASSUME Inv, NEW w \in Worker, frame[w].pc # "idle" PROVE Used(Current(w))
<1>1. frame[w].todo \in Seq(Ref) /\ frame[w].todo # <<>>
    BY CurrentSound
<1>2. Current(w) = frame[w].todo[1] /\ 1 \in 1..Len(frame[w].todo)
    BY <1>1, EmptySeq DEF Current
<1> QED
    BY <1>2 DEF Used, Uses

\* No new subscription is used, and each store is as its file.
LEMMA SharedKept ==
    ASSUME Inv, Shared,
           \A r \in Ref : Used(r)' => Used(r),
           forked \subseteq forked',
           \A r \in Ref : Used(r) /\ Used(r)' =>
                /\ r.name \notin forked' => stores'[r].state = files'[r.name]
                /\ stores'[r].maxSeen = stores[r].maxSeen
                /\ stores'[r].ttl = stores[r].ttl
    PROVE  Shared'
BY DEF Shared

\* A caller's step keeps its object and its file alike.
LEMMA SharedStep == ASSUME Inv, Shared, NEW w \in Worker, Step(w) PROVE Shared'
<1>1. Moves(w) /\ StoreCall(w)
    BY StepCalls
<1>2. /\ frame[w].pc # "idle" /\ subs' = subs /\ forked' = forked
      /\ \A v \in Worker : v # w => frame'[v] = frame[v]
    BY <1>1 DEF Moves
<1>3. SubTodo(frame'[w].todo, frame[w].todo)
    BY <1>1, MovesSubTodo
<1>4. \A v \in Worker : SubTodo(frame'[v].todo, frame[v].todo)
    BY <1>2, <1>3 DEF SubTodo
<1>5. \A r \in Ref : Used(r)' => Used(r)
    BY <1>2, <1>4, SubTodoUses DEF Used
<1>7. ASSUME NEW r \in Ref, Used(r), NEW s \in Store, SetStore(Current(w), s),
             s.maxSeen = stores[Current(w)].maxSeen, s.ttl = stores[Current(w)].ttl
      PROVE  /\ r.name \notin forked => stores'[r].state = files'[r.name]
             /\ stores'[r].maxSeen = stores[r].maxSeen
             /\ stores'[r].ttl = stores[r].ttl
  <2>1. /\ stores \in [Ref -> Store \cup {None}] /\ files \in [Handler -> State]
        /\ stores' = [stores EXCEPT ![Current(w)] = s]
        /\ files' = [files EXCEPT ![Current(w).name] = s.state]
      BY <1>7 DEF Inv, TypeOK, SetStore
  <2>2. Current(w) \in Ref /\ Current(w).name \in Handler /\ Used(Current(w)) /\ r.name \in Handler
      BY <1>2, CurrentSound, CurrentUsed DEF Ref
  <2>3. CASE r = Current(w)
      BY <1>7, <2>1, <2>2, <2>3
  <2>4. CASE r # Current(w)
    <3>1. r.name \notin forked => r.name # Current(w).name
        BY <1>7, <2>2, <2>4 DEF Shared
    <3>2. stores'[r] = stores[r] /\ (r.name # Current(w).name => files'[r.name] = files[r.name])
        BY <2>1, <2>2, <2>4
    <3> QED
        BY <1>7, <3>1, <3>2 DEF Shared
  <2> QED
      BY <2>3, <2>4
<1>8. \A r \in Ref : Used(r) =>
                /\ r.name \notin forked => stores'[r].state = files'[r.name]
                /\ stores'[r].maxSeen = stores[r].maxSeen
                /\ stores'[r].ttl = stores[r].ttl
  <2>1. CASE UNCHANGED <<stores, files>>
      BY <2>1 DEF Shared
  <2> QED
      BY <1>1, <1>7, <2>1 DEF StoreCall
<1> QED
    BY <1>2, <1>5, <1>8, SharedKept

\* A caller uses an object when it is in its snapshot.
LEMMA InUseUses ==
    ASSUME Inv, NEW r \in Ref
    PROVE  InUse(r) <=> \E w \in Worker : Uses(frame[w].todo, r)
<1>1. \A w \in Worker : frame[w].todo \in Seq(Ref) /\ DOMAIN frame[w].todo = 1..Len(frame[w].todo)
    BY DEF Inv, TypeOK, Frame
<1> QED
    BY <1>1 DEF InUse, Uses

\* A registered name gets an object nobody uses, and the only one unless it is forked.
LEMMA SharedRegister == ASSUME Inv, Shared, NEW h \in Handler, Register(h) PROVE Shared'
<1>1. PICK o \in Object :
        /\ ~InUse([name |-> h, obj |-> o])
        /\ stores' = [Collected(h) EXCEPT ![[name |-> h, obj |-> o]] = NewSubStore(files[h], MaxEntries, 0)]
        /\ subs' = Append(subs, [name |-> h, obj |-> o])
    BY DEF Register
<1> DEFINE n == [name |-> h, obj |-> o]
           s == NewSubStore(files[h], MaxEntries, 0)
<1>2. /\ n \in Ref /\ n.name = h /\ ~InUse(n)
      /\ stores' = [Collected(h) EXCEPT ![n] = s] /\ subs' = Append(subs, n)
    BY <1>1 DEF Ref
<1>3. /\ subs \in Seq(Ref) /\ DOMAIN subs = 1..Len(subs) /\ stores \in [Ref -> Store \cup {None}]
      /\ UNCHANGED <<files, frame>>
      /\ forked' = IF \E r \in Ref : r.name = h /\ InUse(r) THEN forked \cup {h} ELSE forked
    BY DEF Inv, TypeOK, Register
<1>4. s.state = files[h] /\ s.maxSeen = WindowSize(MaxEntries) /\ s.ttl = 0
    BY DEF NewSubStore
<1>5. /\ Collected(h) \in [Ref -> Store \cup {None}]
      /\ \A q \in Ref : q.name # h \/ InUse(q) => Collected(h)[q] = stores[q]
    BY <1>3, CollectedFacts
<1> HIDE DEF n, s
<1>6. \A r : Uses(subs', r) <=> Uses(subs, r) \/ r = n
  <2>1. /\ Len(subs') = Len(subs) + 1 /\ Len(subs) \in Nat
        /\ \A i \in 1..Len(subs) : subs'[i] = subs[i]
        /\ subs'[Len(subs) + 1] = n
      BY <1>2, <1>3, AppendProperties
  <2>2. \A i \in 1..Len(subs') : i \in 1..Len(subs) \/ i = Len(subs) + 1
      BY <2>1
  <2>3. 1..Len(subs) \subseteq 1..Len(subs') /\ Len(subs) + 1 \in 1..Len(subs')
      BY <2>1
  <2> QED
      BY <2>1, <2>2, <2>3 DEF Uses
<1>7. \A r \in Ref : Used(r)' <=> Used(r) \/ r = n
    BY <1>3, <1>6 DEF Used
<1>8. \A r \in Ref : Used(r) /\ r.name = h => InUse(r) /\ h \in forked'
  <2>1. SUFFICES ASSUME NEW r \in Ref, Used(r), r.name = h PROVE InUse(r)
      BY <1>3
  <2>2. ~Uses(subs, r)
      BY <1>3, <2>1, Zenon DEF Uses, Register, Registered
  <2> QED
      BY <2>1, <2>2, InUseUses DEF Used
<1>9. \A q, r \in Ref : Used(q)' /\ Used(r)' /\ q.name = r.name /\ r.name \notin forked' => q = r
    BY <1>2, <1>3, <1>7, <1>8 DEF Shared
<1>10. \A r \in Ref : r # n /\ Used(r) => stores'[r] = stores[r]
    BY <1>2, <1>5, <1>8
<1>11. stores'[n] = s
    BY <1>2, <1>5
<1>12. \A r \in Ref : Used(r)' => /\ r.name \notin forked' => stores'[r].state = files'[r.name]
                                  /\ stores'[r].maxSeen = WindowSize(MaxEntries)
                                  /\ stores'[r].ttl = 0
  <2>1. SUFFICES ASSUME NEW r \in Ref, Used(r)'
                 PROVE  /\ r.name \notin forked' => stores'[r].state = files'[r.name]
                        /\ stores'[r].maxSeen = WindowSize(MaxEntries)
                        /\ stores'[r].ttl = 0
      OBVIOUS
  <2>2. CASE r = n
      BY <1>2, <1>3, <1>4, <1>11, <2>2
  <2>3. CASE r # n
    <3>1. Used(r) /\ stores'[r] = stores[r]
        BY <1>7, <1>10, <2>1, <2>3
    <3> QED
        BY <1>3, <3>1 DEF Shared
  <2> QED
      BY <2>2, <2>3
<1> QED
    BY <1>9, <1>12 DEF Shared

\* An unregistered name leaves an object to the callers that use it alone.
LEMMA SharedUnregister == ASSUME Inv, Shared, NEW h \in Handler, Unregister(h) PROVE Shared'
<1>1. subs \in Seq(Ref) /\ Len(subs) \in Nat /\ DOMAIN subs = 1..Len(subs)
      /\ stores \in [Ref -> Store \cup {None}] /\ DistinctNames
    BY DEF Inv, TypeOK
<1>2. PICK n \in 1..Len(subs) :
        /\ subs[n].name = h
        /\ subs' = RemoveAt(subs, n)
    BY <1>1, Zenon DEF Unregister
<1>3. UNCHANGED <<files, frame, forked>> /\ stores' = Collected(h)
    BY DEF Unregister, history
<1>4. /\ Len(subs') = Len(subs) - 1
      /\ \A i \in 1..Len(subs) - 1 : subs'[i] = subs[IF i < n THEN i ELSE i + 1]
    BY <1>1, <1>2, RemoveAtProperties
<1>5. \A r \in Ref : Uses(subs', r) => Uses(subs, r) /\ r.name # h
  <2>1. ASSUME NEW i \in 1..Len(subs') PROVE \E j \in 1..Len(subs) : j # n /\ subs'[i] = subs[j]
    <3>1. i \in 1..Len(subs) - 1 /\ subs'[i] = subs[IF i < n THEN i ELSE i + 1]
        BY <1>4
    <3>2. CASE i < n
        BY <1>1, <3>1, <3>2
    <3>3. CASE ~(i < n)
      <4>1. i + 1 \in 1..Len(subs) /\ i + 1 # n /\ subs'[i] = subs[i + 1]
          BY <1>1, <3>1, <3>3
      <4> QED
          BY <4>1
    <3> QED
        BY <3>2, <3>3
  <2>2. \A j \in 1..Len(subs) : j # n => subs[j].name # h
      BY <1>2 DEF Inv, DistinctNames
  <2> QED
      BY <2>1, <2>2 DEF Uses
<1>6. \A r \in Ref : Used(r)' => Used(r)
    BY <1>3, <1>5 DEF Used
<1>7. \A q \in Ref : q.name # h \/ InUse(q) => stores'[q] = stores[q]
    BY <1>1, <1>3, CollectedFacts
<1>8. ASSUME NEW r \in Ref, Used(r)' PROVE stores'[r] = stores[r]
  <2>1. Uses(subs', r) \/ \E w \in Worker : Uses(frame[w].todo, r)
      BY <1>3, <1>8 DEF Used
  <2>2. r.name # h \/ InUse(r)
      BY <1>5, <2>1, InUseUses
  <2> QED
      BY <1>7, <2>2
<1>9. \A r \in Ref : Used(r) /\ Used(r)' =>
                /\ r.name \notin forked' => stores'[r].state = files'[r.name]
                /\ stores'[r].maxSeen = stores[r].maxSeen
                /\ stores'[r].ttl = stores[r].ttl
    BY <1>3, <1>8 DEF Shared
<1> QED
    BY <1>3, <1>6, <1>9, SharedKept

\* One object per name and file, all along.
LEMMA SharedNext == ASSUME Inv, Shared, [Next]_vars PROVE Shared'
<1>1. \/ \E h \in Handler : Register(h) \/ Unregister(h)
      \/ \E w \in Worker, e \in Event : Dispatch(w, e)
      \/ \E w \in Worker, h \in Handler, t \in Targets, fresh \in FreshChoices : Retry(w, h, t, fresh)
      \/ \E w \in Worker : Step(w)
      \/ \E s \in Session : SessionDies(s)
      \/ Crash
      \/ UNCHANGED vars
    BY DEF Next
<1>2. ASSUME NEW w \in Worker, Begins(w) PROVE Shared'
  <2>1. /\ UNCHANGED <<subs, stores, files, forked>> /\ SubTodo(frame'[w].todo, subs)
        /\ \A v \in Worker : v # w => frame'[v] = frame[v]
      BY <1>2 DEF Begins
  <2>2. \A r \in Ref : Used(r)' => Used(r)
      BY <2>1, SubTodoUses DEF Used
  <2>4. \A r \in Ref : Used(r) /\ Used(r)' =>
                /\ r.name \notin forked' => stores'[r].state = files'[r.name]
                /\ stores'[r].maxSeen = stores[r].maxSeen
                /\ stores'[r].ttl = stores[r].ttl
      BY <2>1 DEF Shared
  <2> QED
      BY <2>1, <2>2, <2>4, SharedKept
<1>3. ASSUME UNCHANGED <<subs, stores, files, frame, forked>> PROVE Shared'
  <2>1. \A r \in Ref : Used(r)' <=> Used(r)
      BY <1>3 DEF Used
  <2> QED
      BY <1>3, <2>1 DEF Shared
<1>4. ASSUME NEW s \in Session, SessionDies(s) PROVE Shared'
    BY <1>3, <1>4 DEF SessionDies, history
<1>5. CASE UNCHANGED vars
    BY <1>3, <1>5 DEF vars, history
<1>6. CASE Crash
  <2>1. subs' = <<>> /\ \A w \in Worker : frame'[w] = IdleFrame /\ frame'[w].todo = <<>>
      BY <1>6, Zenon DEF Crash, IdleFrame
  <2>2. Len(<<>>) = 0
      OBVIOUS
  <2>3. \A r \in Ref : ~Used(r)'
      BY <2>1, <2>2 DEF Used, Uses
  <2> QED
      BY <2>3 DEF Shared
<1> QED
    BY <1>1, <1>2, <1>4, <1>5, <1>6, DispatchBegins, RetryBegins, SharedStep, SharedRegister, SharedUnregister

\* Nothing is used in the beginning.
LEMMA SharedInit == ASSUME Init PROVE Shared
<1>1. subs = <<>> /\ \A w \in Worker : frame[w] = IdleFrame /\ frame[w].todo = <<>>
    BY Zenon DEF Init, IdleFrame
<1>2. Len(<<>>) = 0
    OBVIOUS
<1>3. \A r \in Ref : ~Used(r)
    BY <1>1, <1>2 DEF Used, Uses
<1> QED
    BY <1>3 DEF Shared

-----------------------------------------------------------------------------
(* No session leaks.                                                        *)

Held(w) == frame[w].pc \in {"bind", "add"}

\* The lists of created sessions keep what they have.
CreatedKept ==
    /\ forked \subseteq forked' /\ orphans \subseteq orphans'
    /\ \A h \in Handler \ forked : \A s \in Range(files[h].created) : s \in Range(files'[h].created)

\* A step that keeps the sessions in hand, and the lists.
LEMMA KnownKept ==
    ASSUME Inv, CreatedSessionsKnown, UNCHANGED owner, CreatedKept,
           \A w \in Worker : Held(w) => Held(w)' /\ frame'[w].sid = frame[w].sid
    PROVE  CreatedSessionsKnown'
<1>1. InHand \subseteq InHand'
    BY DEF InHand, Held
<1>2. owner \in [Session -> [name : Handler, key : Key \cup {None}] \cup {None}]
    BY DEF Inv, TypeOK
<1> QED
    BY <1>1, <1>2 DEF CreatedSessionsKnown, CreatedKept

\* A store call that leaves the list of created sessions.
LEMMA CallKeepsCreated ==
    ASSUME Inv, Shared, NEW w \in Worker, frame[w].pc # "idle",
           UNCHANGED forked, orphans \subseteq orphans',
           \/ UNCHANGED <<stores, files>>
           \/ \E s \in Store : /\ SetStore(Current(w), s)
                               /\ s.state.created = stores[Current(w)].state.created
    PROVE  CreatedKept
<1>1. /\ Current(w) \in Ref /\ Current(w).name \in Handler
      /\ Current(w).name \notin forked => stores[Current(w)].state = files[Current(w).name]
    BY CurrentSound, CurrentUsed DEF Shared
<1>2. files \in [Handler -> State]
    BY DEF Inv, TypeOK
<1>3. \A h \in Handler \ forked : files'[h].created = files[h].created
    BY <1>1, <1>2 DEF SetStore
<1> QED
    BY <1>3 DEF CreatedKept

\* The new session is in its creator's hands.
LEMMA KnownCreate ==
    ASSUME Inv, CreatedSessionsKnown, NEW w \in Worker, CreateSession(w)
    PROVE  CreatedSessionsKnown'
<1> DEFINE s == frame'[w].sid
<1>1. /\ frame[w].pc = "create" /\ UNCHANGED files /\ Moved(w, {"bind", "add"})
      /\ s \in Session
      /\ owner' = [owner EXCEPT ![s] = OwnerOf(Current(w).name, frame[w].event)]
    BY CreateSessionShape DEF HandOut
<1>2. /\ \A v \in Worker : v # w => frame'[v] = frame[v]
      /\ frame'[w].pc \in {"bind", "add"} /\ UNCHANGED <<forked, orphans>>
    BY <1>1 DEF Moved, Moves, CreateSession, history
<1>3. s \in InHand'
    BY <1>2 DEF InHand
<1>4. InHand \subseteq InHand'
    BY <1>1, <1>2 DEF InHand
<1> HIDE DEF s
<1>5. \A x \in Session : x # s => owner'[x] = owner[x]
    BY <1>1 DEF Inv, TypeOK
<1> QED
    BY <1>1, <1>2, <1>3, <1>4, <1>5 DEF CreatedSessionsKnown

\* A session whose answer was lost is an orphan.
LEMMA KnownCreateFails ==
    ASSUME Inv, CreatedSessionsKnown, NEW w \in Worker, CreateFails(w)
    PROVE  CreatedSessionsKnown'
<1>1. /\ frame[w].pc = "create" /\ UNCHANGED <<files, forked>> /\ orphans \subseteq orphans'
      /\ \A v \in Worker : v # w => frame'[v] = frame[v]
      /\ UNCHANGED owner \/ \E s \in Session : HandOut(w, s) /\ s \in orphans'
    BY CreateFailsShape DEF Left, Moves
<1>2. \A v \in Worker : Held(v) => Held(v)' /\ frame'[v].sid = frame[v].sid
    BY <1>1 DEF Held
<1>3. CreatedKept
    BY <1>1 DEF CreatedKept
<1>4. CASE UNCHANGED owner
    BY <1>2, <1>3, <1>4, KnownKept
<1>5. ASSUME NEW s \in Session, HandOut(w, s), s \in orphans' PROVE CreatedSessionsKnown'
  <2>1. \A x \in Session : x # s => owner'[x] = owner[x]
      BY <1>5 DEF HandOut, Inv, TypeOK
  <2>2. InHand \subseteq InHand'
      BY <1>2 DEF InHand, Held
  <2> QED
      BY <1>1, <1>5, <2>1, <2>2 DEF CreatedSessionsKnown
<1> QED
    BY <1>1, <1>4, <1>5

\* The session leaves its creator's hands for its handler's list.
LEMMA KnownAdd ==
    ASSUME Inv, Shared, CreatedSessionsKnown, NEW w \in Worker, AddCreatedStep(w)
    PROVE  CreatedSessionsKnown'
<1> DEFINE s == frame[w].sid
           r == Current(w)
<1>1. PICK t \in Store : /\ SetStore(r, t)
                         /\ t.state.created = Append(stores[r].state.created, s)
    BY AddCreatedShape
<1>2. /\ frame[w].pc = "add" /\ UNCHANGED owner /\ s \in Session
      /\ Moves(w)
    BY AddCreatedShape DEF Moved, Left
<1>3. /\ r \in Ref /\ r.name \in Handler /\ (r.name \notin forked => stores[r].state = files[r.name])
      /\ FrameSound(Grants, frame[w]) /\ r = Head(frame[w].todo) /\ stores[r] \in Store
    BY <1>2, CurrentSound, CurrentUsed DEF Shared
<1>4. owner[s].name = r.name
  <2>1. <<s, r.name, PolicyKey(r.name, frame[w].event)>> \in Grants
      BY <1>2, <1>3 DEF FrameSound
  <2> QED
      BY <2>1 DEF Grants
<1>5. /\ files \in [Handler -> State] /\ files' = [files EXCEPT ![r.name] = t.state]
      /\ \A v \in Worker : v # w => frame'[v] = frame[v]
      /\ UNCHANGED <<forked, orphans>>
    BY <1>1, <1>2 DEF Inv, TypeOK, SetStore, Moves, AddCreatedStep, history
<1> HIDE DEF r, s
<1>6. ASSUME r.name \notin forked
      PROVE  /\ \A x \in Range(files[r.name].created) : x \in Range(files'[r.name].created)
             /\ s \in Range(files'[r.name].created)
  <2> DEFINE old == files[r.name].created
  <2>1. old \in Seq(Session) /\ files'[r.name].created = Append(old, s)
      BY <1>1, <1>3, <1>5, <1>6 DEF State
  <2> HIDE DEF old
  <2>2. /\ DOMAIN old = 1..Len(old) /\ Len(old) \in Nat
        /\ DOMAIN Append(old, s) = 1..Len(old) + 1
        /\ \A i \in 1..Len(old) : Append(old, s)[i] = old[i]
        /\ Append(old, s)[Len(old) + 1] = s
      BY <1>2, <2>1, AppendProperties
  <2>3. \A i \in 1..Len(old) : i \in 1..Len(old) + 1
      BY <2>2
  <2>4. Len(old) + 1 \in 1..Len(old) + 1
      BY <2>2
  <2>5. \A x \in Range(old) : x \in Range(Append(old, s))
      BY <2>2, <2>3 DEF Range
  <2>6. s \in Range(Append(old, s))
      BY <2>2, <2>4 DEF Range
  <2> QED
      BY <2>1, <2>5, <2>6 DEF old
<1>7. \A h \in Handler : h # r.name => files'[h] = files[h]
    BY <1>5
<1>8. \A x \in InHand : x \in InHand' \/ x = s
    BY <1>5 DEF InHand, s
<1>9. owner \in [Session -> [name : Handler, key : Key \cup {None}] \cup {None}]
    BY DEF Inv, TypeOK
<1>10. ASSUME NEW x \in Session, owner'[x] # None, owner'[x].name \notin forked
       PROVE  x \in Range(files'[owner'[x].name].created) \cup InHand' \cup orphans'
  <2>1. owner'[x] = owner[x] /\ owner[x].name \in Handler
      BY <1>2, <1>9, <1>10
  <2>2. x \in Range(files[owner[x].name].created) \cup InHand \cup orphans
      BY <1>10, <2>1 DEF CreatedSessionsKnown
  <2>3. owner[x].name # r.name => files'[owner[x].name] = files[owner[x].name]
      BY <1>7, <2>1
  <2> QED
      BY <1>4, <1>5, <1>6, <1>8, <1>10, <2>1, <2>2, <2>3
<1> QED
    BY <1>5, <1>10 DEF CreatedSessionsKnown

\* No step of a caller loses a session.
LEMMA KnownStep ==
    ASSUME Inv, Shared, CreatedSessionsKnown, NEW w \in Worker, Step(w)
    PROVE  CreatedSessionsKnown'
<1>0. orphans \subseteq orphans'
    BY HistoryShape
<1>1. ASSUME Moves(w), frame[w].pc \notin {"bind", "add"}, UNCHANGED owner,
             \/ UNCHANGED <<stores, files>>
             \/ \E s \in Store : /\ SetStore(Current(w), s)
                                 /\ s.state.created = stores[Current(w)].state.created
      PROVE  CreatedSessionsKnown'
  <2>1. CreatedKept
      BY <1>0, <1>1, CallKeepsCreated DEF Moves
  <2>2. \A v \in Worker : Held(v) => Held(v)' /\ frame'[v].sid = frame[v].sid
      BY <1>1 DEF Moves, Held
  <2> QED
      BY <1>1, <2>1, <2>2, KnownKept DEF Moves
<1>2. CASE MarkSeenStep(w)
  <2>1. /\ frame[w].pc = "mark" /\ UNCHANGED owner
        /\ Moves(w)
        /\ \/ SetStore(Current(w), MarkSeen(stores[Current(w)], frame[w].event.id, 0))
           \/ UNCHANGED <<stores, files>>
      BY <1>2, MarkSeenShape DEF Moved, Left
  <2>2. /\ stores[Current(w)] \in Store /\ Indexed(stores[Current(w)])
        /\ frame[w].event.id \in EventId /\ 0 \in Nat
      BY <2>1, CurrentSound DEF StoreSound
  <2> DEFINE s == MarkSeen(stores[Current(w)], frame[w].event.id, 0)
  <2>3. s \in Store /\ s.state.created = stores[Current(w)].state.created
      BY <2>2, MarkSeenIndexed DEF SameButWindow
  <2> HIDE DEF s
  <2>4. SetStore(Current(w), s) \/ UNCHANGED <<stores, files>>
      BY <2>1 DEF s
  <2> QED
      BY <1>1, <2>1, <2>3, <2>4
<1>3. CASE RecordEventStep(w)
    BY <1>1, <1>3, RecordEventShape DEF Moved
<1>4. CASE LookupStep(w)
    BY <1>1, <1>4, LookupShape DEF Moved, Left
<1>5. CASE UnbindStep(w)
    BY <1>1, <1>5, UnbindShape DEF Moved
<1>6. CASE ReadBinding(w)
    BY <1>1, <1>6, ReadBindingShape DEF Moved
<1>7. CASE CheckAlive(w)
    BY <1>1, <1>7, CheckAliveShape DEF Moved, Left
<1>8. CASE ReadRecent(w) \/ \E s \in Session : ReadSummary(w, s)
    BY <1>1, <1>8, CandidatesShape DEF Moved
<1>9. CASE RouterDecide(w)
    BY <1>1, <1>9, RouterDecideShape DEF Moved, Left
<1>11. CASE BindStep(w)
  <2>1. /\ frame[w].pc = "bind" /\ UNCHANGED owner /\ Moved(w, {"add"}) /\ frame'[w].sid = frame[w].sid
        /\ \E s \in Store : /\ SetStore(Current(w), s)
                            /\ s.state.created = stores[Current(w)].state.created
      BY <1>11, BindShape
  <2>2. CreatedKept
      BY <1>0, <2>1, CallKeepsCreated DEF Moved, Moves
  <2>3. \A v \in Worker : Held(v) => Held(v)' /\ frame'[v].sid = frame[v].sid
      BY <2>1 DEF Moved, Moves, Held
  <2> QED
      BY <2>1, <2>2, <2>3, KnownKept
<1>12. CASE SendAccepted(w) \/ SendRejected(w) \/ SendReplyLost(w)
    BY <1>1, <1>12, SendShape DEF Moved, Left
<1> QED
    BY <1>2, <1>3, <1>4, <1>5, <1>6, <1>7, <1>8, <1>9, <1>11, <1>12,
       KnownCreate, KnownCreateFails, KnownAdd DEF Step

\* A forked handler stays one.
LEMMA ForkedGrows == ASSUME Inv, [Next]_vars PROVE forked \subseteq forked'
<1>1. ASSUME NEW h \in Handler, Register(h) \/ Unregister(h) PROVE forked \subseteq forked'
    BY <1>1 DEF Register, Unregister, history
<1>2. ASSUME NEW w \in Worker, Begins(w) \/ Step(w) PROVE forked \subseteq forked'
    BY <1>2, StepCalls DEF Begins, Moves
<1>3. ASSUME NEW s \in Session, SessionDies(s) PROVE forked \subseteq forked'
    BY <1>3 DEF SessionDies, history
<1>4. Crash \/ UNCHANGED vars => forked \subseteq forked'
    BY DEF Crash, vars, history
<1>5. \/ \E h \in Handler : Register(h) \/ Unregister(h)
      \/ \E w \in Worker, e \in Event : Dispatch(w, e)
      \/ \E w \in Worker, h \in Handler, t \in Targets, fresh \in FreshChoices : Retry(w, h, t, fresh)
      \/ \E w \in Worker : Step(w)
      \/ \E s \in Session : SessionDies(s)
      \/ Crash
      \/ UNCHANGED vars
    BY DEF Next
<1> QED
    BY <1>1, <1>2, <1>3, <1>4, <1>5, DispatchBegins, RetryBegins

\* Nor does any other step lose a session: what a crash loses is an orphan.
LEMMA KnownNext == ASSUME Inv, Shared, CreatedSessionsKnown, [Next]_vars PROVE CreatedSessionsKnown'
<1>1. ASSUME NEW w \in Worker, Begins(w) PROVE CreatedSessionsKnown'
  <2>1. CreatedKept /\ UNCHANGED owner
      BY <1>1 DEF Begins, CreatedKept
  <2>2. \A v \in Worker : Held(v) => Held(v)' /\ frame'[v].sid = frame[v].sid
      BY <1>1 DEF Begins, Held
  <2> QED
      BY <2>1, <2>2, KnownKept
<1>2. CASE Crash
    BY <1>2 DEF Crash, CreatedSessionsKnown
<1>3. CASE Outside
  <2>1. forked \subseteq forked'
      BY ForkedGrows
  <2> QED
      BY <1>3, <2>1, KnownKept DEF Outside, CreatedKept, Held
<1> QED
    BY <1>1, <1>2, <1>3, KnownStep, NextShape

\* No session leaks whose id the bus learned (CreatedSessionsKnown): it is in its
\* handler's file, in its creator's hands, or was in the hands of a process that
\* crashed.  Of a handler that was registered again under a running dispatch this is
\* not said: the older object's next write drops what the younger one listed.
THEOREM CreatedKnown == Spec => []CreatedSessionsKnown
<1>1. Init => Shared /\ CreatedSessionsKnown
  <2>1. Init => CreatedSessionsKnown
      BY DEF Init, CreatedSessionsKnown
  <2> QED
      BY <2>1, SharedInit
<1>2. Inv /\ Shared /\ CreatedSessionsKnown /\ [Next]_vars => Shared' /\ CreatedSessionsKnown'
    BY SharedNext, KnownNext
<1> QED
    BY <1>1, <1>2, Invariance, PTL DEF Spec


-----------------------------------------------------------------------------
(* The dedup window.  The file of a handler holds the newest ids that any   *)
(* store object of its name admitted, as many as the window is long, until  *)
(* the handler is forked.                                                   *)

WindowInv ==
    \A h \in Handler : h \notin forked =>
        /\ Mirrors(files[h].seen, newest[h])
        /\ Len(newest[h]) <= WindowSize(MaxEntries)

\* markSeen refuses what is among the newest, and what it admits becomes the newest.
LEMMA MarkSeenWindow ==
    ASSUME Inv, Shared, WindowInv, NEW w \in Worker, frame[w].pc = "mark", NEW h \in Handler,
           h = Current(w).name, h \notin forked, NEW id \in EventId, id = frame[w].event.id
    PROVE  /\ IsNew(stores[Current(w)], id, 0) => \A i \in DOMAIN newest[h] : newest[h][i] # id
           /\ IsNew(stores[Current(w)], id, 0) =>
                /\ Mirrors(MarkSeen(stores[Current(w)], id, 0).state.seen, Admitted(h, id)[h])
                /\ Len(Admitted(h, id)[h]) <= WindowSize(MaxEntries)
<1> DEFINE s == stores[Current(w)]
           window == newest[h]
<1>1. /\ s \in Store /\ Indexed(s) /\ s.ttl = 0 /\ s.maxSeen = WindowSize(MaxEntries)
      /\ s.state = files[h]
    BY CurrentSound, CurrentUsed DEF Shared, StoreSound
<1>2. /\ newest \in [Handler -> Seq(EventId)] /\ window \in Seq(EventId)
      /\ Mirrors(s.state.seen, window) /\ Len(window) <= s.maxSeen
    BY <1>1 DEF Inv, TypeOK, WindowInv
<1>3. Admitted(h, id)[h] = Rotated(window, id, s.maxSeen)
    BY <1>1, <1>2 DEF Admitted, Rotated
<1> HIDE DEF s, window
<1>4. 0 \in Nat
    OBVIOUS
<1>5. /\ IsNew(s, id, 0) <=> \A i \in DOMAIN window : window[i] # id
      /\ IsNew(s, id, 0) =>
            /\ Len(Rotated(window, id, s.maxSeen)) <= s.maxSeen
            /\ Mirrors(MarkSeen(s, id, 0).state.seen, Rotated(window, id, s.maxSeen))
    BY <1>1, <1>2, <1>4, MarkSeenRotates
<1> QED
    BY <1>1, <1>3, <1>5 DEF s, window

\* A step of a caller that admits nothing leaves the windows.
LEMMA WindowQuiet ==
    ASSUME Inv, Shared, WindowInv, NEW w \in Worker, frame[w].pc # "idle", UNCHANGED <<newest, forked>>,
           \/ UNCHANGED files
           \/ \E s \in Store : SetStore(Current(w), s) /\ SameWindow(stores[Current(w)], s)
    PROVE  WindowInv'
<1>1. /\ Current(w) \in Ref /\ Current(w).name \in Handler
      /\ Current(w).name \notin forked => stores[Current(w)].state = files[Current(w).name]
    BY CurrentSound, CurrentUsed DEF Shared
<1>2. files \in [Handler -> State]
    BY DEF Inv, TypeOK
<1>3. \A h \in Handler : h \notin forked => files'[h].seen = files[h].seen
    BY <1>1, <1>2 DEF SetStore, SameWindow
<1> QED
    BY <1>3 DEF WindowInv

\* An admission enters the file and the history alike.
LEMMA WindowMark ==
    ASSUME Inv, Shared, WindowInv, NEW w \in Worker, MarkSeenStep(w)
    PROVE  WindowInv'
<1> DEFINE r == Current(w)
<1>1. frame[w].pc = "mark" /\ UNCHANGED forked
    BY MarkSeenShape DEF MarkSeenStep
<1>2. CASE UNCHANGED <<files, newest>>
    BY <1>1, <1>2 DEF WindowInv
<1>3. CASE /\ IsNew(stores[r], frame[w].event.id, 0)
           /\ SetStore(r, MarkSeen(stores[r], frame[w].event.id, 0))
           /\ newest' = Admitted(r.name, frame[w].event.id)
  <2>1. PICK h \in Handler, id \in EventId : h = r.name /\ id = frame[w].event.id
      BY <1>1, CurrentSound
  <2> DEFINE s == MarkSeen(stores[r], id, 0)
  <2>2. /\ files \in [Handler -> State] /\ newest \in [Handler -> Seq(EventId)]
        /\ files' = [files EXCEPT ![h] = s.state] /\ newest' = Admitted(h, id)
      BY <1>3, <2>1 DEF Inv, TypeOK, SetStore
  <2> HIDE DEF s
  <2>3. files'[h] = s.state /\ \A g \in Handler : g # h => files'[g] = files[g]
      BY <2>2
  <2>4. \A g \in Handler : g # h => newest'[g] = newest[g]
      BY <2>2 DEF Admitted
  <2>5. h \notin forked => Mirrors(s.state.seen, newest'[h]) /\ Len(newest'[h]) <= WindowSize(MaxEntries)
      BY <1>1, <1>3, <2>1, <2>2, MarkSeenWindow DEF s
  <2>6. ASSUME NEW g \in Handler, g \notin forked
        PROVE  Mirrors(files'[g].seen, newest'[g]) /\ Len(newest'[g]) <= WindowSize(MaxEntries)
    <3>1. CASE g = h
        BY <2>3, <2>5, <2>6, <3>1
    <3>2. CASE g # h
        BY <2>3, <2>4, <2>6, <3>2 DEF WindowInv
    <3> QED
        BY <3>1, <3>2
  <2> QED
      BY <1>1, <2>6 DEF WindowInv
<1> QED
    BY <1>2, <1>3, MarkSeenShape

\* The window stays the newest ids admitted.
LEMMA WindowNext == ASSUME Inv, Shared, WindowInv, [Next]_vars PROVE WindowInv'
<1>1. forked \subseteq forked'
    BY ForkedGrows
<1>2. CASE UNCHANGED <<files, newest>>
    BY <1>1, <1>2 DEF WindowInv
<1>3. ASSUME NEW w \in Worker, Step(w) PROVE WindowInv'
  <2>1. CASE MarkSeenStep(w)
      BY <2>1, WindowMark
  <2>2. CASE UNCHANGED newest
    <3>1. /\ frame[w].pc # "idle" /\ UNCHANGED <<newest, forked>>
        BY <1>3, <2>2, StepCalls DEF Moves
    <3>2. CASE RecordEventStep(w)
        BY <3>1, <3>2, RecordEventShape, WindowQuiet
    <3>3. CASE LookupStep(w) \/ ReadBinding(w) \/ CheckAlive(w)
        BY <3>1, <3>3, LookupShape, ReadBindingShape, CheckAliveShape, WindowQuiet
    <3>4. CASE ReadRecent(w) \/ (\E s \in Session : ReadSummary(w, s)) \/ RouterDecide(w)
        BY <3>1, <3>4, CandidatesShape, RouterDecideShape, WindowQuiet
    <3>5. CASE CreateSession(w) \/ CreateFails(w)
        BY <3>1, <3>5, CreateSessionShape, CreateFailsShape, WindowQuiet
    <3>6. CASE SendAccepted(w) \/ SendRejected(w) \/ SendReplyLost(w)
        BY <3>1, <3>6, SendShape, WindowQuiet
    <3>7. CASE UnbindStep(w)
        BY <3>1, <3>7, UnbindShape, WindowQuiet
    <3>8. CASE BindStep(w)
        BY <3>1, <3>8, BindShape, WindowQuiet
    <3>9. CASE AddCreatedStep(w)
        BY <3>1, <3>9, AddCreatedShape, WindowQuiet
    <3> QED
        BY <1>3, <2>1, <3>2, <3>3, <3>4, <3>5, <3>6, <3>7, <3>8, <3>9 DEF Step
  <2> QED
      BY <1>3, <2>1, <2>2, HistoryShape
<1>4. ASSUME NEW w \in Worker, Begins(w) PROVE WindowInv'
    BY <1>2, <1>4 DEF Begins
<1>5. CASE Crash
    BY <1>2, <1>5 DEF Crash
<1>6. CASE Outside
    BY <1>2, <1>6 DEF Outside
<1> QED
    BY <1>3, <1>4, <1>5, <1>6, NextShape

\* Nothing was admitted yet.
LEMMA WindowInit == ASSUME Init PROVE WindowInv
<1>1. Len(<<>>) = 0 /\ 0 <= WindowSize(MaxEntries)
    BY DefaultMaxEntriesAssumption, BoundsAssumption DEF WindowSize
<1>2. \A h \in Handler : files[h].seen = <<>> /\ newest[h] = <<>>
    BY DEF Init, EmptyState
<1> QED
    BY <1>1, <1>2 DEF WindowInv, Mirrors

\* A name that is registered again resumes its dedup window (DedupWindowResumes): the
\* store that serves it knows the newest events any store of that name admitted, unless
\* it was registered under a running dispatch.
THEOREM WindowResumes == Spec => []DedupWindowResumes
<1>1. Init => Shared /\ WindowInv
    BY SharedInit, WindowInit
<1>2. Inv /\ Shared /\ WindowInv /\ [Next]_vars => Shared' /\ WindowInv'
    BY SharedNext, WindowNext
<1>3. Inv /\ Shared /\ WindowInv => DedupWindowResumes
  <2>1. SUFFICES ASSUME Inv, Shared, WindowInv, NEW i \in DOMAIN subs, subs[i].name \notin forked
                 PROVE  Range(newest[subs[i].name]) \subseteq stores[subs[i]].index
      BY DEF DedupWindowResumes
  <2>2. subs \in Seq(Ref) /\ i \in 1..Len(subs) /\ subs[i] \in Ref /\ subs[i].name \in Handler
    <3>1. subs \in Seq(Ref)
        BY <2>1 DEF Inv, TypeOK
    <3>2. i \in 1..Len(subs) /\ subs[i] \in Ref
        BY <2>1, <3>1
    <3> QED
        BY <3>1, <3>2 DEF Ref
  <2>3. Used(subs[i])
      BY <2>2 DEF Used, Uses
  <2>4. stores[subs[i]].state = files[subs[i].name] /\ Indexed(stores[subs[i]])
      BY <2>1, <2>2, <2>3 DEF Shared, Inv, StoresSound, StoreSound
  <2> DEFINE seen == files[subs[i].name].seen
             window == newest[subs[i].name]
  <2>5. seen \in Seq(SeenEntry) /\ window \in Seq(EventId) /\ Mirrors(seen, window)
      BY <2>1, <2>2 DEF Inv, TypeOK, State, WindowInv
  <2>6. stores[subs[i]].index = Ids(seen)
      BY <2>4 DEF Indexed
  <2> HIDE DEF seen, window
  <2>7. Ids(seen) = {window[k] : k \in DOMAIN window}
      BY <2>5, MirrorsIds
  <2> QED
      BY <2>6, <2>7 DEF Range, window
<1> QED
    BY <1>1, <1>2, <1>3, Invariance, PTL DEF Spec

-----------------------------------------------------------------------------
(* The bus implements the ledger.  A claim is a caller of Dispatch between  *)
(* its markSeen and the end of the turn.  A step of the bus admits an event *)
(* that is not among the newest, drives a turn of a claim it holds, forks a *)
(* handler, or at most ends claims.                                         *)

\* The i-th turn of session s was driven for event id by a dispatch of handler h.
Drove(s, i, h, id) == turns[s][i].name = h /\ turns[s][i].id = id /\ turns[s][i].via = "dispatch"

\* Dispatch starts at its first markSeen, Retry at its lookup.
Started(w) ==
    /\ frame[w].pc = "lookup" => frame[w].via = "retry"
    /\ frame[w].pc = "mark" => frame[w].via = "dispatch"

\* A turn whose answer was lost is on its way to one more session, a new one.
DoubtSound(w) ==
    frame[w].doubt => /\ frame[w].pc \in {"create", "bind", "add", "send"}
                      /\ frame[w].pc # "create" => ~frame[w].reused

LedgerInv ==
    /\ \A w \in Worker : Started(w) /\ DoubtSound(w)
    /\ \A h \in Handler, id \in EventId : IsFiniteSet(Driven(h, id))

ClaimOf(w) ==
    IF Claiming(w)
    THEN [name |-> Current(w).name, id |-> frame[w].event.id, doubt |-> frame[w].doubt]
    ELSE None

ClaimTable == [w \in Worker |-> ClaimOf(w)]

Delivered == [h \in Handler |-> [id \in EventId |-> Cardinality(Driven(h, id))]]

\* A step that admits and drives nothing: claims may end.
QuietStep ==
    /\ UNCHANGED <<newest, forked>>
    /\ \A w \in Worker : ClaimOf(w)' = ClaimOf(w) \/ ClaimOf(w)' = None
    /\ \A h \in Handler, id \in EventId : Driven(h, id)' = Driven(h, id)

\* Caller w admits an event.
AdmitStep(w) ==
    /\ UNCHANGED <<turns, forked>>
    /\ \A v \in Worker : v # w => ClaimOf(v)' = ClaimOf(v)
    /\ ~Claiming(w)
    /\ \E h \in Handler, id \in EventId :
        /\ h \in forked \/ \A i \in DOMAIN newest[h] : newest[h][i] # id
        /\ ClaimOf(w)' = [name |-> h, id |-> id, doubt |-> FALSE]
        /\ newest' = Admitted(h, id)

\* Caller w drives the turn of its claim, and the claim ends or is in doubt.
DriveStep(w) ==
    /\ UNCHANGED <<newest, forked>>
    /\ \A v \in Worker : v # w => ClaimOf(v)' = ClaimOf(v)
    /\ Claiming(w)
    /\ \/ ClaimOf(w)' = None
       \/ /\ ~frame[w].doubt
          /\ ClaimOf(w)' = [name |-> Current(w).name, id |-> frame[w].event.id, doubt |-> TRUE]
    /\ frame[w].sid \in Session /\ Takes(w)

\* What the set of turns driven for an event holds.
DrivenMeaning ==
    \A h \in Handler, id \in EventId :
        /\ \A p \in Driven(h, id) : \E s \in Session : \E i \in 1..Len(turns[s]) :
                p = <<s, i>> /\ Drove(s, i, h, id)
        /\ \A s \in Session : \A i \in 1..Len(turns[s]) :
                Drove(s, i, h, id) => <<s, i>> \in Driven(h, id)

\* It holds the turns of dispatches for that event.
LEMMA DrivenMember == Inv => DrivenMeaning
<1> SUFFICES ASSUME Inv PROVE DrivenMeaning
    OBVIOUS
<1>1. \A s \in Session : DOMAIN turns[s] = 1..Len(turns[s])
    BY DEF Inv, TypeOK
<1> QED
    BY <1>1 DEF DrivenMeaning, Driven, Drove

\* A turn of a dispatch is one more of its event, and one of a retry counts for none.
LEMMA DrivenTakes ==
    ASSUME Inv, Inv', NEW w \in Worker, NEW s \in Session, s = frame[w].sid, Takes(w)
    PROVE  \A g \in Handler, i \in EventId :
            IF frame[w].via = "dispatch" /\ Current(w).name = g /\ frame[w].event.id = i
            THEN \E p : p \notin Driven(g, i) /\ Driven(g, i)' = Driven(g, i) \cup {p}
            ELSE Driven(g, i)' = Driven(g, i)
<1>1. /\ turns[s] \in Seq(Turn) /\ turns'[s] = Append(turns[s], TurnOf(w))
      /\ \A x \in Session : x # s => turns'[x] = turns[x]
    BY DEF Inv, TypeOK, Takes
<1>2. /\ Len(turns[s]) \in Nat /\ Len(turns'[s]) = Len(turns[s]) + 1
      /\ \A i \in 1..Len(turns[s]) : turns'[s][i] = turns[s][i]
      /\ turns'[s][Len(turns[s]) + 1] = TurnOf(w)
    BY <1>1, AppendProperties
<1>3. DrivenMeaning /\ DrivenMeaning'
    BY DrivenMember, PTL
<1>4. PICK n \in Nat : n = Len(turns[s]) + 1
    BY <1>2
<1>5. /\ \A i \in 1..Len(turns'[s]) : i \in 1..Len(turns[s]) \/ i = n
      /\ 1..Len(turns[s]) \subseteq 1..Len(turns'[s]) /\ n \in 1..Len(turns'[s])
      /\ n \notin 1..Len(turns[s])
    BY <1>2, <1>4
<1>6. SUFFICES ASSUME NEW g \in Handler, NEW i \in EventId
               PROVE  IF frame[w].via = "dispatch" /\ Current(w).name = g /\ frame[w].event.id = i
                      THEN \E p : p \notin Driven(g, i) /\ Driven(g, i)' = Driven(g, i) \cup {p}
                      ELSE Driven(g, i)' = Driven(g, i)
    OBVIOUS
<1> DEFINE own == frame[w].via = "dispatch" /\ Current(w).name = g /\ frame[w].event.id = i
<1>7. (TurnOf(w).via = "dispatch" /\ TurnOf(w).name = g /\ TurnOf(w).id = i) <=> own
    BY DEF TurnOf
<1>8. ASSUME NEW x \in Session, NEW k
      PROVE  (k \in 1..Len(turns'[x]) /\ Drove(x, k, g, i)') <=>
                 \/ k \in 1..Len(turns[x]) /\ Drove(x, k, g, i)
                 \/ x = s /\ k = n /\ own
  <2> HIDE DEF own
  <2>1. CASE x # s
      BY <1>1, <2>1 DEF Drove
  <2>2. CASE x = s
    <3>1. ASSUME k \in 1..Len(turns[s]) PROVE k # n /\ (Drove(x, k, g, i)' <=> Drove(x, k, g, i))
      <4>1. k # n
          BY <1>5, <3>1
      <4> QED
          BY <1>2, <2>2, <3>1, <4>1 DEF Drove
    <3>2. ASSUME k = n PROVE Drove(x, k, g, i)' <=> own
        BY <1>2, <1>4, <1>7, <2>2, <3>2 DEF Drove
    <3> QED
        BY <1>5, <2>2, <3>1, <3>2
  <2> QED
      BY <2>1, <2>2
<1> HIDE DEF own
<1>9. \A p \in Driven(g, i) : p \in Driven(g, i)' /\ p # <<s, n>>
  <2>1. SUFFICES ASSUME NEW p \in Driven(g, i) PROVE p \in Driven(g, i)' /\ p # <<s, n>>
      OBVIOUS
  <2>2. PICK x \in Session : \E k \in 1..Len(turns[x]) : p = <<x, k>> /\ Drove(x, k, g, i)
      BY <1>3 DEF DrivenMeaning
  <2>3. PICK k \in 1..Len(turns[x]) : p = <<x, k>> /\ Drove(x, k, g, i)
      BY <2>2
  <2>4. k \in 1..Len(turns'[x]) /\ Drove(x, k, g, i)'
      BY <1>8, <2>3
  <2>5. p # <<s, n>>
      BY <1>5, <2>3
  <2> QED
      BY <1>3, <2>3, <2>4, <2>5 DEF DrivenMeaning
<1>10. \A p \in Driven(g, i)' : p \in Driven(g, i) \/ (p = <<s, n>> /\ own)
  <2>1. SUFFICES ASSUME NEW p \in Driven(g, i)' PROVE p \in Driven(g, i) \/ (p = <<s, n>> /\ own)
      OBVIOUS
  <2>2. PICK x \in Session : \E k \in 1..Len(turns'[x]) : p = <<x, k>> /\ Drove(x, k, g, i)'
      BY <1>3 DEF DrivenMeaning
  <2>3. PICK k \in 1..Len(turns'[x]) : p = <<x, k>> /\ Drove(x, k, g, i)'
      BY <2>2
  <2>4. (k \in 1..Len(turns[x]) /\ Drove(x, k, g, i)) \/ (x = s /\ k = n /\ own)
      BY <1>8, <2>3
  <2> QED
      BY <1>3, <2>3, <2>4 DEF DrivenMeaning
<1>11. CASE own
  <2>1. n \in 1..Len(turns'[s]) /\ Drove(s, n, g, i)'
      BY <1>8, <1>11
  <2>2. <<s, n>> \in Driven(g, i)'
      BY <1>3, <2>1 DEF DrivenMeaning
  <2>3. PICK p : p = <<s, n>>
      OBVIOUS
  <2>4. p \notin Driven(g, i) /\ Driven(g, i)' = Driven(g, i) \cup {p}
      BY <1>9, <1>10, <2>2, <2>3
  <2> QED
      BY <1>11, <2>4 DEF own
<1>12. CASE ~own
  <2>1. Driven(g, i)' = Driven(g, i)
      BY <1>9, <1>10, <1>12
  <2> QED
      BY <1>12, <2>1 DEF own
<1> QED
    BY <1>11, <1>12

\* No turn more, none driven more.
LEMMA DrivenKept ==
    ASSUME UNCHANGED turns
    PROVE  \A h \in Handler, id \in EventId : Driven(h, id)' = Driven(h, id)
BY DEF Driven

\* The claim of a caller whose frame stays stays.
LEMMA ClaimKept ==
    ASSUME NEW v \in Worker, frame'[v] = frame[v]
    PROVE  ClaimOf(v)' = ClaimOf(v)
BY DEF ClaimOf, Claiming, Current

\* A step that moves one caller and admits and drives nothing.
LEMMA QuietMove ==
    ASSUME LedgerInv, NEW w \in Worker, Moves(w), UNCHANGED <<newest, turns>>,
           \/ Leaves(frame[w], frame'[w])
           \/ /\ frame[w].pc # "mark" /\ Goes(frame[w], frame'[w])
              /\ frame'[w].doubt = frame[w].doubt
    PROVE  QuietStep
<1>1. UNCHANGED forked /\ \A v \in Worker : v # w => ClaimOf(v)' = ClaimOf(v)
    BY ClaimKept DEF Moves
<1>2. CASE Leaves(frame[w], frame'[w])
  <2>1. ClaimOf(w)' = None
      BY <1>2 DEF Leaves, ClaimOf, Claiming
  <2> QED
      BY <1>1, <2>1, DrivenKept DEF QuietStep
<1>3. CASE /\ frame[w].pc # "mark" /\ Goes(frame[w], frame'[w])
           /\ frame'[w].doubt = frame[w].doubt
  <2>1. CASE frame[w].via # "dispatch"
    <3>1. ClaimOf(w)' = None
        BY <1>3, <2>1 DEF Goes, ClaimOf, Claiming
    <3> QED
        BY <1>1, <3>1, DrivenKept DEF QuietStep
  <2>2. CASE frame[w].via = "dispatch"
    <3>1. frame[w].pc # "lookup" /\ frame[w].pc # "idle"
        BY <2>2 DEF LedgerInv, Started, Moves
    <3>2. ClaimOf(w)' = ClaimOf(w)
        BY <1>3, <3>1 DEF Goes, ClaimOf, Claiming, Current
    <3> QED
        BY <1>1, <3>2, DrivenKept DEF QuietStep
  <2> QED
      BY <2>1, <2>2
<1> QED
    BY <1>2, <1>3

\* markSeen admits an event that is not among the newest, or passes on.
LEMMA LedgerMark ==
    ASSUME Inv, Shared, WindowInv, LedgerInv, NEW w \in Worker, MarkSeenStep(w)
    PROVE  QuietStep \/ AdmitStep(w)
<1> DEFINE r == Current(w)
<1>1. frame[w].pc = "mark" /\ UNCHANGED <<turns, forked>> /\ frame[w].via = "dispatch" /\ ~frame[w].doubt
  <2>1. frame[w].pc = "mark" /\ UNCHANGED <<turns, forked>>
      BY MarkSeenShape DEF MarkSeenStep
  <2> QED
      BY <2>1 DEF LedgerInv, Started, DoubtSound
<1>2. CASE /\ Moved(w, {"record"}) /\ IsNew(stores[r], frame[w].event.id, 0)
           /\ newest' = Admitted(r.name, frame[w].event.id)
  <2>1. PICK h \in Handler, id \in EventId : h = r.name /\ id = frame[w].event.id
      BY <1>1, CurrentSound
  <2>2. h \in forked \/ \A i \in DOMAIN newest[h] : newest[h][i] # id
      BY <1>1, <1>2, <2>1, MarkSeenWindow
  <2>3. /\ \A v \in Worker : v # w => ClaimOf(v)' = ClaimOf(v)
        /\ frame'[w].pc = "record" /\ frame'[w].todo = frame[w].todo /\ frame'[w].via = "dispatch"
        /\ frame'[w].event = frame[w].event /\ frame'[w].doubt = FALSE
    <3>1. frame[w] \in Frame /\ frame[w].doubt = FALSE
        BY <1>1, CurrentSound DEF Frame
    <3> QED
        BY <1>1, <1>2, <3>1, ClaimKept DEF Moved, Moves, Goes
  <2>4. ClaimOf(w)' = [name |-> h, id |-> id, doubt |-> FALSE]
      BY <2>1, <2>3 DEF ClaimOf, Claiming, Current
  <2>5. ~Claiming(w)
      BY <1>1 DEF Claiming
  <2>6. newest' = Admitted(h, id)
      BY <1>2, <2>1
  <2>7. \A v \in Worker : v # w => ClaimOf(v)' = ClaimOf(v)
      BY <2>3
  <2> QED
      BY <1>1, <2>2, <2>4, <2>5, <2>6, <2>7, Zenon DEF AdmitStep
<1>3. CASE Left(w) /\ UNCHANGED newest
    BY <1>1, <1>3, QuietMove DEF Left
<1> QED
    BY <1>2, <1>3, MarkSeenShape

\* An accepted turn is driven by a claim, or is an operator's.
LEMMA LedgerSend ==
    ASSUME Inv, Inv', LedgerInv, NEW w \in Worker, SendAccepted(w) \/ SendRejected(w) \/ SendReplyLost(w)
    PROVE  QuietStep \/ DriveStep(w)
<1>1. /\ frame[w].pc = "send" /\ frame[w].sid \in Session /\ UNCHANGED newest
      /\ Moves(w) /\ UNCHANGED forked
      /\ \/ UNCHANGED turns /\ Leaves(frame[w], frame'[w])
         \/ /\ UNCHANGED turns /\ Goes(frame[w], frame'[w])
            /\ frame[w].reused /\ frame'[w].doubt = FALSE
         \/ Takes(w) /\ Leaves(frame[w], frame'[w])
         \/ /\ Takes(w) /\ Goes(frame[w], frame'[w]) /\ frame'[w].pc = "create"
            /\ frame[w].reused /\ frame'[w].doubt = TRUE
  <2>1. UNCHANGED newest
      BY DEF SendAccepted, SendRejected, SendReplyLost, history
  <2> QED
      BY <2>1, SendShape DEF Moved, Left, Moves
<1>2. frame[w] \in Frame
    BY <1>1, CurrentSound
<1>3. CASE UNCHANGED turns /\ Leaves(frame[w], frame'[w])
    BY <1>1, <1>3, QuietMove
<1>4. CASE /\ UNCHANGED turns /\ Goes(frame[w], frame'[w])
           /\ frame[w].reused /\ frame'[w].doubt = FALSE
  <2>1. frame[w].doubt = FALSE
      BY <1>1, <1>2, <1>4 DEF LedgerInv, DoubtSound, Frame
  <2> QED
      BY <1>1, <1>4, <2>1, QuietMove
<1>5. ASSUME Takes(w) PROVE frame[w].via # "dispatch" =>
                                \A h \in Handler, id \in EventId : Driven(h, id)' = Driven(h, id)
  <2>1. PICK s \in Session : s = frame[w].sid
      BY <1>1
  <2> QED
      BY <1>5, <2>1, DrivenTakes
<1>6. \A v \in Worker : v # w => ClaimOf(v)' = ClaimOf(v)
    BY <1>1, ClaimKept DEF Moves
<1>7. frame[w].via # "dispatch" => ClaimOf(w)' = None
    BY <1>1 DEF Goes, Leaves, ClaimOf, Claiming
<1>8. frame[w].via = "dispatch" => Claiming(w)
    BY <1>1 DEF Claiming
<1>9. CASE Takes(w) /\ Leaves(frame[w], frame'[w])
  <2>1. ClaimOf(w)' = None
      BY <1>9 DEF Leaves, ClaimOf, Claiming
  <2> QED
      BY <1>1, <1>5, <1>6, <1>8, <1>9, <2>1 DEF QuietStep, DriveStep
<1>10. CASE /\ Takes(w) /\ Goes(frame[w], frame'[w]) /\ frame'[w].pc = "create"
            /\ frame[w].reused /\ frame'[w].doubt = TRUE
  <2>1. ~frame[w].doubt
      BY <1>1, <1>10 DEF LedgerInv, DoubtSound
  <2>2. Claiming(w) =>
            ClaimOf(w)' = [name |-> Current(w).name, id |-> frame[w].event.id, doubt |-> TRUE]
    <3>1. /\ frame'[w].todo = frame[w].todo /\ frame'[w].event = frame[w].event
          /\ frame'[w].via = frame[w].via
        BY <1>1, <1>10 DEF Goes
    <3>2. Claiming(w) => Claiming(w)'
        BY <1>10, <3>1 DEF Claiming
    <3>3. ClaimOf(w)' = IF Claiming(w)' THEN [name |-> Current(w).name, id |-> frame[w].event.id, doubt |-> TRUE]
                        ELSE None
        BY <1>10, <3>1 DEF ClaimOf, Current
    <3> QED
        BY <3>2, <3>3
  <2> QED
      BY <1>1, <1>5, <1>6, <1>7, <1>8, <1>10, <2>1, <2>2 DEF QuietStep, DriveStep
<1> QED
    BY <1>1, <1>3, <1>4, <1>9, <1>10

\* Register forks a handler, or not; Unregister and a death change nothing here.
ForkStep ==
    /\ \E h \in Handler : forked' = forked \cup {h}
    /\ UNCHANGED <<newest, frame, turns>>

\* Every step admits, drives, forks, or does none of these.
LEMMA LedgerSteps ==
    ASSUME Inv, Shared, WindowInv, LedgerInv, [Next]_vars
    PROVE  QuietStep \/ ForkStep \/ \E w \in Worker : AdmitStep(w) \/ DriveStep(w)
<1>1. ASSUME NEW w \in Worker, Begins(w) PROVE QuietStep
  <2>1. /\ UNCHANGED <<newest, forked, turns>>
        /\ \A v \in Worker : v # w => ClaimOf(v)' = ClaimOf(v)
      BY <1>1, ClaimKept DEF Begins
  <2>2. ClaimOf(w)' = None
    <3>1. frame'[w].via \in {"dispatch", "retry"}
      <4>1. TypeOK'
          BY NextInv DEF Inv
      <4> QED
          BY <4>1 DEF TypeOK, Frame
    <3> QED
        BY <1>1, <3>1 DEF Begins, ClaimOf, Claiming
  <2> QED
      BY <2>1, <2>2, DrivenKept DEF QuietStep
<1>2. CASE Crash
  <2>1. /\ \A w \in Worker : frame'[w] = IdleFrame /\ frame'[w].pc = "idle"
        /\ UNCHANGED <<newest, forked, turns>>
      BY <1>2, Zenon DEF Crash, IdleFrame
  <2>2. \A w \in Worker : ClaimOf(w)' = None
      BY <2>1 DEF ClaimOf, Claiming
  <2> QED
      BY <2>1, <2>2, DrivenKept DEF QuietStep
<1>3. ASSUME newest' = newest, forked' = forked, turns' = turns, frame' = frame PROVE QuietStep
  <2>1. \A w \in Worker : ClaimOf(w)' = ClaimOf(w)
      BY <1>3, ClaimKept
  <2> QED
      BY <1>3, <2>1, DrivenKept DEF QuietStep
<1>4. ASSUME NEW h \in Handler, Register(h) PROVE ForkStep \/ QuietStep
  <2>1. /\ newest' = newest /\ turns' = turns /\ frame' = frame
        /\ forked' = forked \/ forked' = forked \cup {h}
      BY <1>4 DEF Register
  <2>2. CASE forked' = forked
      BY <1>3, <2>1, <2>2
  <2>3. CASE forked' = forked \cup {h}
      BY <2>1, <2>3 DEF ForkStep
  <2> QED
      BY <2>1, <2>2, <2>3
<1>5. ASSUME NEW h \in Handler, Unregister(h) PROVE QuietStep
  <2>1. newest' = newest /\ forked' = forked /\ turns' = turns /\ frame' = frame
      BY <1>5 DEF Unregister, history
  <2> QED
      BY <1>3, <2>1
<1>6. ASSUME NEW s \in Session, SessionDies(s) PROVE QuietStep
  <2>1. newest' = newest /\ forked' = forked /\ turns' = turns /\ frame' = frame
      BY <1>6 DEF SessionDies, history
  <2> QED
      BY <1>3, <2>1
<1>7. ASSUME NEW w \in Worker, Step(w) PROVE QuietStep \/ AdmitStep(w) \/ DriveStep(w)
  <2>1. CASE MarkSeenStep(w)
      BY <2>1, LedgerMark
  <2>2. CASE SendAccepted(w) \/ SendRejected(w) \/ SendReplyLost(w)
    <3>1. Inv'
        BY NextInv
    <3> QED
        BY <2>2, <3>1, LedgerSend
  <2>3. ASSUME Moved(w, PC) \/ Left(w), frame[w].pc \notin {"mark", "send"}, UNCHANGED turns, ~MarkSeenStep(w)
        PROVE  QuietStep
    <3>1. UNCHANGED newest
        BY <1>7, <2>3, HistoryShape
    <3> QED
        BY <2>3, <3>1, QuietMove DEF Moved, Left, Goes
  <2>4. frame[w].pc # "mark" => ~MarkSeenStep(w)
      BY DEF MarkSeenStep, At
  <2>5. Moves(w) => Moved(w, PC) \/ Left(w)
    <3>1. frame'[w].pc \in PC
      <4>1. TypeOK'
          BY NextInv DEF Inv
      <4> QED
          BY <4>1 DEF TypeOK, Frame
    <3> QED
        BY <3>1 DEF Moves, Moved, Left
  <2>6. CASE RecordEventStep(w) \/ LookupStep(w) \/ UnbindStep(w)
      BY <2>3, <2>4, <2>5, <2>6, RecordEventShape, LookupShape, UnbindShape DEF Moved, Left
  <2>7. CASE ReadBinding(w) \/ CheckAlive(w)
      BY <2>3, <2>4, <2>5, <2>7, ReadBindingShape, CheckAliveShape DEF Moved, Left
  <2>8. CASE ReadRecent(w) \/ (\E s \in Session : ReadSummary(w, s)) \/ RouterDecide(w)
      BY <2>3, <2>4, <2>5, <2>8, CandidatesShape, RouterDecideShape DEF Moved, Left
  <2>9. CASE CreateSession(w) \/ CreateFails(w)
      BY <2>3, <2>4, <2>5, <2>9, CreateSessionShape, CreateFailsShape DEF Moved, Left
  <2>10. CASE BindStep(w) \/ AddCreatedStep(w)
      BY <2>3, <2>4, <2>5, <2>10, BindShape, AddCreatedShape DEF Moved, Left
  <2> QED
      BY <1>7, <2>1, <2>2, <2>6, <2>7, <2>8, <2>9, <2>10 DEF Step
<1>8. CASE UNCHANGED vars
    BY <1>3, <1>8 DEF vars, history
<1>9. \/ \E h \in Handler : Register(h) \/ Unregister(h)
      \/ \E w \in Worker, e \in Event : Dispatch(w, e)
      \/ \E w \in Worker, h \in Handler, t \in Targets, fresh \in FreshChoices : Retry(w, h, t, fresh)
      \/ \E w \in Worker : Step(w)
      \/ \E s \in Session : SessionDies(s)
      \/ Crash
      \/ UNCHANGED vars
    BY DEF Next
<1> QED
    BY <1>1, <1>2, <1>4, <1>5, <1>6, <1>7, <1>8, <1>9, DispatchBegins, RetryBegins

\* The doubt and the start of a call.
LEMMA LedgerFrames ==
    ASSUME Inv, LedgerInv, [Next]_vars
    PROVE  \A w \in Worker : Started(w)' /\ DoubtSound(w)'
<1>1. ASSUME NEW v \in Worker, frame'[v] = frame[v] PROVE Started(v)' /\ DoubtSound(v)'
    BY <1>1 DEF LedgerInv, Started, DoubtSound
<1>2. ASSUME NEW w \in Worker, Begins(w) PROVE \A v \in Worker : Started(v)' /\ DoubtSound(v)'
  <2>1. frame'[w].via \in {"dispatch", "retry"}
    <3>1. TypeOK'
        BY NextInv DEF Inv
    <3> QED
        BY <3>1 DEF TypeOK, Frame
  <2>2. Started(w)' /\ DoubtSound(w)'
      BY <1>2, <2>1 DEF Begins, Started, DoubtSound
  <2>3. \A v \in Worker : v # w => frame'[v] = frame[v]
      BY <1>2 DEF Begins
  <2> QED
      BY <1>1, <2>2, <2>3
<1>3. CASE Crash
  <2>1. \A w \in Worker : frame'[w].pc = "idle" /\ frame'[w].doubt = FALSE
      BY <1>3, Zenon DEF Crash, IdleFrame
  <2> QED
      BY <2>1 DEF Started, DoubtSound
<1>4. CASE Outside
    BY <1>1, <1>4 DEF Outside
<1>5. ASSUME NEW w \in Worker, Step(w) PROVE \A v \in Worker : Started(v)' /\ DoubtSound(v)'
  <2>1. Moves(w)
      BY <1>5, StepCalls
  <2>2. \A v \in Worker : v # w => frame'[v] = frame[v]
      BY <2>1 DEF Moves
  <2>3. Started(w)'
      BY <2>1 DEF Moves, Goes, Leaves, Started
  <2>4. CASE Leaves(frame[w], frame'[w])
      BY <1>1, <2>2, <2>3, <2>4 DEF Leaves, DoubtSound
  <2>5. CASE frame[w].pc \notin {"create", "bind", "add", "send"} /\ Goes(frame[w], frame'[w])
    <3>1. ~frame[w].doubt
        BY <2>5 DEF LedgerInv, DoubtSound
    <3>2. DoubtSound(w)'
        BY <2>5, <3>1 DEF Goes, DoubtSound
    <3> QED
        BY <1>1, <2>2, <2>3, <3>2
  <2>6. CASE frame[w].pc \in {"create", "bind", "add", "send"} /\ Goes(frame[w], frame'[w])
    <3>1. ~Leaves(frame[w], frame'[w])
        BY <2>6 DEF Goes, Leaves
    <3>2. frame[w].doubt => (frame[w].pc # "create" => ~frame[w].reused)
        BY DEF LedgerInv, DoubtSound
    <3>3. CASE CreateSession(w)
      <4>1. frame'[w].pc \in {"bind", "add"} /\ ~frame'[w].reused
          BY <3>3, CreateSessionShape DEF Moved
      <4> QED
          BY <1>1, <2>2, <2>3, <4>1 DEF DoubtSound
    <3>4. CASE CreateFails(w)
        BY <3>1, <3>4, CreateFailsShape DEF Left
    <3>5. CASE BindStep(w)
      <4>1. /\ frame[w].pc = "bind" /\ frame'[w].pc = "add"
            /\ frame'[w].reused = frame[w].reused /\ frame'[w].doubt = frame[w].doubt
          BY <2>6, <3>5, BindShape DEF Moved, Goes
      <4> QED
          BY <1>1, <2>2, <2>3, <3>2, <4>1 DEF DoubtSound
    <3>6. CASE AddCreatedStep(w)
      <4>1. /\ frame[w].pc = "add" /\ frame'[w].pc = "send"
            /\ frame'[w].reused = frame[w].reused /\ frame'[w].doubt = frame[w].doubt
          BY <2>6, <3>1, <3>6, AddCreatedShape DEF Moved, Left, Goes
      <4> QED
          BY <1>1, <2>2, <2>3, <3>2, <4>1 DEF DoubtSound
    <3>7. CASE SendAccepted(w) \/ SendRejected(w) \/ SendReplyLost(w)
      <4>1. frame'[w].pc = "create"
          BY <3>1, <3>7, SendShape DEF Moved, Left
      <4> QED
          BY <1>1, <2>2, <2>3, <4>1 DEF DoubtSound
    <3>8. Step(w) => \/ CreateSession(w) \/ CreateFails(w) \/ BindStep(w) \/ AddCreatedStep(w)
                     \/ SendAccepted(w) \/ SendRejected(w) \/ SendReplyLost(w)
        BY <2>6 DEF Step, MarkSeenStep, RecordEventStep, LookupStep, UnbindStep, ReadBinding, CheckAlive,
                    ReadRecent, ReadSummary, RouterDecide, At
    <3> QED
        BY <1>5, <3>3, <3>4, <3>5, <3>6, <3>7, <3>8
  <2> QED
      BY <2>1, <2>4, <2>5, <2>6 DEF Moves
<1> QED
    BY <1>2, <1>3, <1>4, <1>5, NextShape

\* What the ledger needs holds all along.
LEMMA LedgerNext ==
    ASSUME Inv, Shared, WindowInv, LedgerInv, [Next]_vars
    PROVE  LedgerInv'
<1>1. \A w \in Worker : Started(w)' /\ DoubtSound(w)'
    BY LedgerFrames
<1>2. Inv'
    BY NextInv
<1>3. CASE QuietStep
    BY <1>1, <1>3 DEF QuietStep, LedgerInv
<1>4. CASE UNCHANGED turns
    BY <1>1, <1>4, DrivenKept DEF LedgerInv
<1>5. ASSUME NEW w \in Worker, DriveStep(w) PROVE LedgerInv'
  <2>1. PICK s \in Session : s = frame[w].sid /\ Takes(w)
      BY <1>5 DEF DriveStep
  <2>2. ASSUME NEW h \in Handler, NEW id \in EventId PROVE IsFiniteSet(Driven(h, id)')
    <3>1. IsFiniteSet(Driven(h, id))
        BY DEF LedgerInv
    <3>2. Driven(h, id)' = Driven(h, id) \/ \E p : Driven(h, id)' = Driven(h, id) \cup {p}
        BY <1>2, <2>1, DrivenTakes
    <3> QED
        BY <3>1, <3>2, FS_AddElement
  <2> QED
      BY <1>1, <2>2 DEF LedgerInv
<1> QED
    BY <1>3, <1>4, <1>5, LedgerSteps DEF AdmitStep, ForkStep

\* Nobody claimed and nothing was driven yet.
LEMMA LedgerInit == ASSUME Init PROVE LedgerInv /\ Ledger!ELInit
<1>1. \A w \in Worker : frame[w] = IdleFrame /\ frame[w].pc = "idle" /\ frame[w].doubt = FALSE
    BY Zenon DEF Init, IdleFrame
<1>2. \A h \in Handler, id \in EventId : Driven(h, id) = {} /\ Cardinality(Driven(h, id)) = 0
  <2>1. \A s \in Session : turns[s] = <<>> /\ DOMAIN turns[s] = {}
      BY DEF Init
  <2>2. \A h \in Handler, id \in EventId : Driven(h, id) = {}
      BY <2>1 DEF Driven
  <2> QED
      BY <2>2, FS_EmptySet
<1>3. LedgerInv
    BY <1>1, <1>2, FS_EmptySet DEF LedgerInv, Started, DoubtSound
<1>4. newest = [h \in Handler |-> <<>>] /\ forked = {}
    BY DEF Init
<1>5. ClaimTable = [w \in Worker |-> None]
    BY <1>1 DEF ClaimTable, ClaimOf, Claiming
<1>6. Delivered = [h \in Handler |-> [id \in EventId |-> 0]]
    BY <1>2 DEF Delivered
<1> QED
    BY <1>3, <1>4, <1>5, <1>6, Zenon DEF Ledger!ELInit, ClaimTable, ClaimOf, Delivered

\* One entry of a table of tables.
LEMMA TableUpdate ==
    ASSUME NEW T, NEW U, NEW x, NEW h \in Handler, NEW id \in EventId,
           T = [g \in Handler |-> [i \in EventId |-> T[g][i]]],
           U = [g \in Handler |-> [i \in EventId |-> U[g][i]]],
           \A g \in Handler, i \in EventId : U[g][i] = IF g = h /\ i = id THEN x ELSE T[g][i]
    PROVE  U = [T EXCEPT ![h][id] = x]
<1> DEFINE E == [T EXCEPT ![h][id] = x]
<1>1. E = [T EXCEPT ![h] = [T[h] EXCEPT ![id] = x]]
    OBVIOUS
<1>2. \A g \in Handler : E[g] = [i \in EventId |-> IF g = h /\ i = id THEN x ELSE T[g][i]]
    BY <1>1
<1>3. E = [g \in Handler |-> E[g]]
    BY <1>1
<1> HIDE DEF E
<1>4. \A g \in Handler : U[g] = [i \in EventId |-> U[g][i]]
    OBVIOUS
<1>5. \A g \in Handler : U[g] = E[g]
    BY <1>2, <1>4
<1>6. U = [g \in Handler |-> U[g]]
    OBVIOUS
<1>7. [g \in Handler |-> U[g]] = [g \in Handler |-> E[g]]
    BY <1>5
<1> QED
    BY <1>3, <1>6, <1>7 DEF E

\* A step that changes the claim of one caller at most.
LEMMA ClaimUpdate ==
    ASSUME NEW w \in Worker, NEW x, ClaimOf(w)' = x,
           \A v \in Worker : v # w => ClaimOf(v)' = ClaimOf(v)
    PROVE  ClaimTable' = [ClaimTable EXCEPT ![w] = x]
BY DEF ClaimTable

\* A quiet step gives up the claims that end.
LEMMA QuietGivesUp == ASSUME QuietStep PROVE Ledger!GiveUp
<1> DEFINE C == {w \in Worker : ClaimOf(w)' # ClaimOf(w)}
<1>1. ClaimTable' = [w \in Worker |-> IF w \in C THEN None ELSE ClaimTable[w]]
    BY DEF QuietStep, ClaimTable
<1>2. \E S \in SUBSET Worker : ClaimTable' = [w \in Worker |-> IF w \in S THEN None ELSE ClaimTable[w]]
    BY <1>1
<1>3. Delivered' = Delivered /\ UNCHANGED <<newest, forked>>
    BY DEF QuietStep, Delivered
<1> QED
    BY <1>2, <1>3, Zenon DEF Ledger!GiveUp, ClaimTable, ClaimOf, Delivered

\* An admission of the bus is one of the ledger.
LEMMA AdmitAdmits ==
    ASSUME NEW w \in Worker, AdmitStep(w)
    PROVE  \E h \in Handler, id \in EventId : Ledger!Admit(w, h, id)
<1>1. PICK h \in Handler, id \in EventId :
        /\ h \in forked \/ \A i \in DOMAIN newest[h] : newest[h][i] # id
        /\ ClaimOf(w)' = [name |-> h, id |-> id, doubt |-> FALSE]
        /\ newest' = Admitted(h, id)
    BY Zenon DEF AdmitStep
<1>2. ClaimTable' = [ClaimTable EXCEPT ![w] = [name |-> h, id |-> id, doubt |-> FALSE]]
    BY <1>1, ClaimUpdate DEF AdmitStep
<1>3. ClaimTable[w] = None
    BY DEF AdmitStep, ClaimTable, ClaimOf
<1>4. Delivered' = Delivered /\ forked' = forked
    BY DrivenKept DEF AdmitStep, Delivered
<1> QED
    BY <1>1, <1>2, <1>3, <1>4, Zenon DEF Ledger!Admit, Admitted, ClaimTable, ClaimOf, Delivered

\* A driven turn takes the claim, or the first of a claim's two.
LEMMA DriveDrives ==
    ASSUME Inv, Inv', LedgerInv, NEW w \in Worker, DriveStep(w)
    PROVE  \E h \in Handler, id \in EventId : Ledger!Drive(w, h, id)
<1>1. PICK s \in Session : s = frame[w].sid /\ Takes(w) /\ Claiming(w)
    BY DEF DriveStep
<1>2. PICK h \in Handler, id \in EventId, doubt \in BOOLEAN :
        h = Current(w).name /\ id = frame[w].event.id /\ doubt = frame[w].doubt
  <2>1. frame[w].pc \notin {"idle", "lookup"}
      BY <1>1 DEF LedgerInv, Started, Claiming
  <2>2. frame[w].doubt \in BOOLEAN
      BY <2>1, CurrentSound DEF Frame
  <2> QED
      BY <2>1, <2>2, CurrentSound
<1>3. ClaimTable[w] = [name |-> h, id |-> id, doubt |-> doubt]
    BY <1>1, <1>2 DEF ClaimTable, ClaimOf
<1>4. \/ ClaimTable' = [ClaimTable EXCEPT ![w] = None]
      \/ /\ ClaimTable[w] = [name |-> h, id |-> id, doubt |-> FALSE]
         /\ ClaimTable' = [ClaimTable EXCEPT ![w] = [name |-> h, id |-> id, doubt |-> TRUE]]
  <2>1. CASE ClaimOf(w)' = None
      BY <2>1, ClaimUpdate DEF DriveStep
  <2>2. CASE /\ ~frame[w].doubt
             /\ ClaimOf(w)' = [name |-> Current(w).name, id |-> frame[w].event.id, doubt |-> TRUE]
    <3>1. ClaimOf(w) = [name |-> h, id |-> id, doubt |-> FALSE]
        BY <1>1, <1>2, <2>2 DEF ClaimOf
    <3>2. ClaimOf(w)' = [name |-> h, id |-> id, doubt |-> TRUE]
        BY <1>2, <2>2
    <3>3. ClaimTable' = [ClaimTable EXCEPT ![w] = [name |-> h, id |-> id, doubt |-> TRUE]]
        BY <3>2, ClaimUpdate DEF DriveStep
    <3>4. ClaimTable[w] = [name |-> h, id |-> id, doubt |-> FALSE]
        BY <3>1 DEF ClaimTable
    <3> QED
        BY <3>3, <3>4
  <2> QED
      BY <2>1, <2>2 DEF DriveStep
<1>5. ASSUME NEW g \in Handler, NEW i \in EventId
      PROVE  Delivered'[g][i] = IF g = h /\ i = id THEN Delivered[h][id] + 1 ELSE Delivered[g][i]
  <2>1. Delivered'[g][i] = Cardinality(Driven(g, i)') /\ Delivered[g][i] = Cardinality(Driven(g, i))
      BY DEF Delivered
  <2>2. CASE g = h /\ i = id
    <3>1. \E p : p \notin Driven(g, i) /\ Driven(g, i)' = Driven(g, i) \cup {p}
        BY <1>1, <1>2, <2>2, DrivenTakes DEF Claiming
    <3>2. IsFiniteSet(Driven(g, i))
        BY DEF LedgerInv
    <3>3. Cardinality(Driven(g, i)') = Cardinality(Driven(g, i)) + 1
        BY <3>1, <3>2, FS_AddElement
    <3> QED
        BY <2>1, <2>2, <3>3
  <2>3. CASE ~(g = h /\ i = id)
    <3>1. Driven(g, i)' = Driven(g, i)
        BY <1>1, <1>2, <2>3, DrivenTakes
    <3> QED
        BY <2>1, <2>3, <3>1
  <2> QED
      BY <2>2, <2>3
<1>6. Delivered' = [Delivered EXCEPT ![h][id] = Delivered[h][id] + 1]
  <2> DEFINE T == Delivered
             U == Delivered'
             x == Delivered[h][id] + 1
  <2>1. /\ T = [g \in Handler |-> [i \in EventId |-> T[g][i]]]
        /\ U = [g \in Handler |-> [i \in EventId |-> U[g][i]]]
      BY DEF Delivered
  <2>2. \A g \in Handler, i \in EventId : U[g][i] = IF g = h /\ i = id THEN x ELSE T[g][i]
      BY <1>5
  <2> HIDE DEF T, U, x
  <2>3. U = [T EXCEPT ![h][id] = x]
      BY <2>1, <2>2, TableUpdate
  <2> QED
      BY <2>3 DEF T, U, x
<1>7. UNCHANGED <<newest, forked>>
    BY DEF DriveStep
<1>8. \/ \E d \in BOOLEAN : /\ ClaimTable[w] = [name |-> h, id |-> id, doubt |-> d]
                            /\ ClaimTable' = [ClaimTable EXCEPT ![w] = None]
      \/ /\ ClaimTable[w] = [name |-> h, id |-> id, doubt |-> FALSE]
         /\ ClaimTable' = [ClaimTable EXCEPT ![w] = [name |-> h, id |-> id, doubt |-> TRUE]]
    BY <1>3, <1>4, Zenon
<1>9. Ledger!Drive(w, h, id)
    BY <1>6, <1>7, <1>8, Zenon DEF Ledger!Drive, ClaimTable, ClaimOf, Delivered
<1> QED
    BY <1>9, Zenon

\* Every step of the bus is a step of the ledger.
LEMMA StepImplementsLedger ==
    ASSUME Inv, Shared, WindowInv, LedgerInv, [Next]_vars
    PROVE  Ledger!ELNext
<1>1. Inv'
    BY NextInv
<1>2. CASE QuietStep
    BY <1>2, QuietGivesUp DEF Ledger!ELNext
<1>3. ASSUME NEW w \in Worker, AdmitStep(w) PROVE Ledger!ELNext
    BY <1>3, AdmitAdmits DEF Ledger!ELNext
<1>4. ASSUME NEW w \in Worker, DriveStep(w) PROVE Ledger!ELNext
    BY <1>1, <1>4, DriveDrives DEF Ledger!ELNext
<1>5. CASE ForkStep
  <2>1. \A w \in Worker : ClaimOf(w)' = ClaimOf(w)
      BY <1>5, ClaimKept DEF ForkStep
  <2>2. ClaimTable' = ClaimTable
      BY <2>1 DEF ClaimTable
  <2>3. Delivered' = Delivered /\ newest' = newest
      BY <1>5, DrivenKept DEF ForkStep, Delivered
  <2>4. PICK h \in Handler : forked' = forked \cup {h}
      BY <1>5 DEF ForkStep
  <2>5. Ledger!Fork(h)
      BY <2>2, <2>3, <2>4, Zenon DEF Ledger!Fork, ClaimTable, ClaimOf, Delivered
  <2> QED
      BY <2>5 DEF Ledger!ELNext
<1> QED
    BY <1>2, <1>3, <1>4, <1>5, LedgerSteps

\* Dispatches drive an event once per window (AtMostOnce: the bus implements
\* EventLedger), over any interleaving of callers, retries, rotations, registrations,
\* rejected turns, lost answers, deaths of sessions and crashes.
THEOREM ImplementsLedger == Spec => AtMostOnce
<1>1. Init => Shared /\ WindowInv /\ LedgerInv /\ Ledger!ELInit
    BY SharedInit, WindowInit, LedgerInit
<1>2. Inv /\ Shared /\ WindowInv /\ LedgerInv /\ [Next]_vars => Shared' /\ WindowInv' /\ LedgerInv'
    BY SharedNext, WindowNext, LedgerNext
<1>3. Inv /\ Shared /\ WindowInv /\ LedgerInv /\ [Next]_vars => Ledger!ELNext
    BY StepImplementsLedger
<1>4. Spec => Ledger!ELSpec
    BY <1>1, <1>2, <1>3, Invariance, PTL DEF Spec, Ledger!ELSpec
<1> QED
    BY <1>4 DEF AtMostOnce

-----------------------------------------------------------------------------
(* While the process lives, no event is dropped in silence: whatever makes  *)
(* a caller leave a handler is a turn, an error or an empty prompt.         *)

\* Caller w holds the claim of event id at handler h.
Claimant(w, h, id) == Claiming(w) /\ Current(w).name = h /\ frame[w].event.id = id

WasDriven(h, id) == \E s \in Session : \E i \in 1..Len(turns[s]) : Drove(s, i, h, id)

Accounted(h, id) ==
    \/ \E w \in Worker : Claimant(w, h, id)
    \/ WasDriven(h, id)
    \/ <<h, id>> \in errors
    \/ \E e \in Silent[h] : e.id = id

\* A caller past its prompt that has none: the handler is silent on the event.
Prompted(w) ==
    frame[w].pc \notin {"idle", "mark", "lookup", "record"} /\ ~frame[w].prompt =>
        frame[w].event \in Silent[Current(w).name]

DropInv ==
    /\ \A w \in Worker : Started(w) /\ Prompted(w)
    /\ \A h \in Handler : \A id \in Ids(files[h].seen) : Accounted(h, id)
    /\ \A r \in Ref : stores[r] # None =>
            \A id \in Ids(stores[r].state.seen) : Accounted(r.name, id)

\* What is accounted for stays so.
AccountsKept == \A h \in Handler, id \in EventId : Accounted(h, id) => Accounted(h, id)'

\* What was in a window before the step is still accounted for.
LEMMA OldAccounts ==
    ASSUME Inv, DropInv, AccountsKept
    PROVE  /\ \A h \in Handler : \A id \in Ids(files[h].seen) : Accounted(h, id)'
           /\ \A q \in Ref : stores[q] # None =>
                \A id \in Ids(stores[q].state.seen) : Accounted(q.name, id)'
<1>1. files \in [Handler -> State] /\ stores \in [Ref -> Store \cup {None}]
    BY DEF Inv, TypeOK
<1>2. ASSUME NEW h \in Handler, NEW id \in Ids(files[h].seen) PROVE Accounted(h, id)'
  <2>1. files[h].seen \in Seq(SeenEntry)
      BY <1>1 DEF State
  <2> QED
      BY <1>2, <2>1, IdsType DEF DropInv, AccountsKept
<1>3. ASSUME NEW q \in Ref, stores[q] # None, NEW id \in Ids(stores[q].state.seen)
      PROVE  Accounted(q.name, id)'
  <2>1. stores[q].state.seen \in Seq(SeenEntry) /\ q.name \in Handler
      BY <1>1, <1>3 DEF Store, State, Ref
  <2> QED
      BY <1>3, <2>1, IdsType DEF DropInv, AccountsKept
<1> QED
    BY <1>2, <1>3

\* A step of caller w that may call its store.
LEMMA DropKept ==
    ASSUME Inv, DropInv, AccountsKept, NEW w \in Worker, frame[w].pc # "idle",
           \A v \in Worker : v # w => frame'[v] = frame[v],
           Started(w)', Prompted(w)', NEW r \in Ref, r = Current(w),
           \/ UNCHANGED <<stores, files>>
           \/ \E s \in Store : SetStore(r, s) /\ \A id \in Ids(s.state.seen) : Accounted(r.name, id)'
    PROVE  DropInv'
<1>1. \A v \in Worker : Started(v)' /\ Prompted(v)'
    BY DEF DropInv, Started, Prompted, Current
<1>2. files \in [Handler -> State] /\ stores \in [Ref -> Store \cup {None}] /\ r.name \in Handler
    BY DEF Inv, TypeOK, Ref
<1>3. /\ \A h \in Handler : \A id \in Ids(files[h].seen) : Accounted(h, id)'
      /\ \A q \in Ref : stores[q] # None => \A id \in Ids(stores[q].state.seen) : Accounted(q.name, id)'
    BY OldAccounts
<1>4. CASE UNCHANGED <<stores, files>>
    BY <1>1, <1>3, <1>4 DEF DropInv
<1>5. ASSUME NEW s \in Store, SetStore(r, s), \A id \in Ids(s.state.seen) : Accounted(r.name, id)'
      PROVE  DropInv'
  <2>1. PICK n \in Handler : n = r.name
      BY <1>2
  <2>2. stores' = [stores EXCEPT ![r] = s] /\ files' = [files EXCEPT ![n] = s.state]
      BY <1>5, <2>1 DEF SetStore
  <2>3. \A id \in Ids(s.state.seen) : Accounted(n, id)'
      BY <1>5, <2>1
  <2>4. \A h \in Handler : \A id \in Ids(files'[h].seen) : Accounted(h, id)'
      BY <1>2, <1>3, <2>2, <2>3
  <2>5. \A q \in Ref : stores'[q] # None => \A id \in Ids(stores'[q].state.seen) : Accounted(q.name, id)'
      BY <1>2, <1>3, <2>1, <2>2, <2>3
  <2> QED
      BY <1>1, <2>4, <2>5 DEF DropInv
<1> QED
    BY <1>4, <1>5

\* Turns stay where they are.
TurnsStay ==
    \A s \in Session : \A i \in 1..Len(turns[s]) :
        i \in 1..Len(turns'[s]) /\ turns'[s][i] = turns[s][i]

\* What caller w has claimed is accounted for after its step.
Settles(w) == \A h \in Handler, id \in EventId : Claimant(w, h, id) => Accounted(h, id)'

\* Turns and errors are kept, and what the others have claimed.
LEMMA AccountKept ==
    ASSUME NEW w \in Worker, \A v \in Worker : v # w => frame'[v] = frame[v],
           errors \subseteq errors', TurnsStay, Settles(w)
    PROVE  AccountsKept
<1>1. ASSUME NEW h \in Handler, NEW id \in EventId, Accounted(h, id)
      PROVE  Accounted(h, id)'
  <2>1. CASE Claimant(w, h, id)
      BY <2>1 DEF Settles
  <2>2. CASE \E v \in Worker : v # w /\ Claimant(v, h, id)
    <3>1. PICK v \in Worker : v # w /\ Claimant(v, h, id)
        BY <2>2
    <3>2. Claimant(v, h, id)'
        BY <3>1 DEF Claimant, Claiming, Current
    <3> QED
        BY <3>2 DEF Accounted
  <2>3. CASE WasDriven(h, id)
    <3>1. PICK s \in Session : \E i \in 1..Len(turns[s]) : Drove(s, i, h, id)
        BY <2>3 DEF WasDriven
    <3>2. PICK i \in 1..Len(turns[s]) : Drove(s, i, h, id)
        BY <3>1
    <3>3. i \in 1..Len(turns'[s]) /\ Drove(s, i, h, id)'
        BY <3>2 DEF TurnsStay, Drove
    <3> QED
        BY <3>3 DEF WasDriven, Accounted
  <2>4. CASE <<h, id>> \in errors \/ \E e \in Silent[h] : e.id = id
      BY <2>4 DEF Accounted
  <2> QED
      BY <1>1, <2>1, <2>2, <2>3, <2>4 DEF Accounted
<1> QED
    BY <1>1 DEF AccountsKept

\* A caller's step that puts no id into the window.
LEMMA DropMoves ==
    ASSUME Inv, DropInv, NEW w \in Worker, Moves(w), Started(w)', Prompted(w)',
           errors \subseteq errors', TurnsStay, Settles(w),
           \/ UNCHANGED <<stores, files>>
           \/ \E s \in Store : SetStore(Current(w), s) /\ SameWindow(stores[Current(w)], s)
    PROVE  DropInv'
<1>1. AccountsKept
    BY AccountKept DEF Moves
<1>2. PICK r \in Ref : r = Current(w)
    BY CurrentSound DEF Moves
<1>3. ASSUME NEW s \in Store, SetStore(Current(w), s), SameWindow(stores[Current(w)], s)
      PROVE  SetStore(r, s) /\ \A id \in Ids(s.state.seen) : Accounted(r.name, id)'
  <2>1. stores[r] # None /\ s.state.seen = stores[r].state.seen
      BY <1>2, <1>3, CurrentSound, NoStoreAssumption DEF Moves, SameWindow
  <2> QED
      BY <1>1, <1>2, <1>3, <2>1, OldAccounts
<1> QED
    BY <1>1, <1>2, <1>3, DropKept DEF Moves

\* A step that goes on with its event keeps its claim.
LEMMA DropGoes ==
    ASSUME Inv, DropInv, NEW w \in Worker, Moves(w), Goes(frame[w], frame'[w]), frame[w].pc # "mark",
           frame[w].pc \in {"record", "lookup"} =>
                (frame'[w].prompt <=> frame'[w].event \notin Silent[Current(w).name]),
           errors \subseteq errors', TurnsStay,
           \/ UNCHANGED <<stores, files>>
           \/ \E s \in Store : SetStore(Current(w), s) /\ SameWindow(stores[Current(w)], s)
    PROVE  DropInv'
<1>1. Started(w) /\ Prompted(w)
    BY DEF DropInv
<1>2. Started(w)'
    BY DEF Moves, Goes, Leaves, Started
<1>3. Head(frame'[w].todo) = Current(w)
    BY DEF Goes, Current
<1>4. Prompted(w)'
    BY <1>1, <1>3 DEF Prompted, Goes, Moves, Current
<1>5. Settles(w)
  <2>1. ASSUME NEW h \in Handler, NEW id \in EventId, Claimant(w, h, id) PROVE Claimant(w, h, id)'
      BY <1>1, <1>3, <2>1 DEF Claimant, Claiming, Goes, Started, Current
  <2> QED
      BY <2>1 DEF Settles, Accounted
<1> QED
    BY <1>2, <1>4, <1>5, DropMoves

\* A step that leaves its event behind owes an account of it.
LEMMA DropLeaves ==
    ASSUME Inv, DropInv, NEW w \in Worker, Left(w), errors \subseteq errors', TurnsStay, Settles(w),
           \/ UNCHANGED <<stores, files>>
           \/ \E s \in Store : SetStore(Current(w), s) /\ SameWindow(stores[Current(w)], s)
    PROVE  DropInv'
<1>1. Started(w)' /\ Prompted(w)'
    BY DEF Left, Leaves, Started, Prompted
<1> QED
    BY <1>1, DropMoves DEF Left

\* A claim without a prompt, and one whose error is reported, may end.
LEMMA SettledClaims ==
    ASSUME Inv, DropInv, NEW w \in Worker, frame[w].pc # "idle",
           \/ frame[w].pc \in {"mark", "lookup"}
           \/ frame[w].pc \notin {"mark", "lookup", "record"} /\ ~frame[w].prompt
           \/ ReportError(w)
    PROVE  Settles(w)
<1>1. Started(w) /\ Prompted(w)
    BY DEF DropInv
<1>2. SUFFICES ASSUME NEW h \in Handler, NEW id \in EventId, Claimant(w, h, id)
               PROVE  Accounted(h, id)'
    BY DEF Settles
<1>3. /\ frame[w].via = "dispatch" /\ frame[w].pc # "mark" /\ frame[w].pc # "lookup"
      /\ Current(w).name = h /\ frame[w].event.id = id
    BY <1>1, <1>2 DEF Claimant, Claiming, Started
<1>4. CASE frame[w].pc # "record" /\ ~frame[w].prompt
    BY <1>1, <1>3, <1>4 DEF Prompted, Accounted
<1>5. CASE ReportError(w)
  <2>1. <<h, id>> \in errors'
      BY <1>3, <1>5 DEF ReportError
  <2> QED
      BY <2>1 DEF Accounted
<1> QED
    BY <1>3, <1>4, <1>5

\* An accepted turn is where its session's turns end.
LEMMA AcceptedStays ==
    ASSUME Inv, NEW w \in Worker, frame[w].sid \in Session, Takes(w)
    PROVE  /\ TurnsStay
           /\ frame[w].pc \notin {"idle", "lookup"} => Settles(w)
<1> PICK s \in Session : s = frame[w].sid
    OBVIOUS
<1>1. turns \in [Session -> Seq(Turn)] /\ turns[s] \in Seq(Turn) /\ Len(turns[s]) \in Nat
    BY DEF Inv, TypeOK
<1> PICK n \in Nat : n = Len(turns[s]) + 1
    BY <1>1
<1>2. /\ turns'[s] = Append(turns[s], TurnOf(w))
      /\ \A x \in Session : x # s => turns'[x] = turns[x]
    BY <1>1 DEF Takes
<1>3. /\ Len(turns'[s]) = n /\ n \in 1..Len(turns'[s]) /\ turns'[s][n] = TurnOf(w)
      /\ \A i \in 1..Len(turns[s]) : i \in 1..Len(turns'[s]) /\ turns'[s][i] = turns[s][i]
    BY <1>1, <1>2
<1>4. TurnsStay
    BY <1>2, <1>3 DEF TurnsStay
<1>5. ASSUME NEW h \in Handler, NEW id \in EventId, Claimant(w, h, id) PROVE Accounted(h, id)'
  <2>1. TurnOf(w).name = h /\ TurnOf(w).id = id /\ TurnOf(w).via = "dispatch"
      BY <1>5 DEF TurnOf, Claimant, Claiming
  <2>2. Drove(s, n, h, id)'
      BY <1>3, <2>1 DEF Drove
  <2> QED
      BY <1>3, <2>2 DEF WasDriven, Accounted
<1> QED
    BY <1>4, <1>5 DEF Settles

\* markSeen: the id it admits is in the caller's hands.
LEMMA DropMark == ASSUME Inv, DropInv, NEW w \in Worker, MarkSeenStep(w) PROVE DropInv'
<1>1. frame[w].pc = "mark" /\ UNCHANGED <<turns, errors>> /\ Started(w)
    BY MarkSeenShape DEF DropInv
<1>2. TurnsStay /\ errors \subseteq errors'
    BY <1>1 DEF TurnsStay
<1>3. Settles(w)
    BY <1>1, SettledClaims
<1>4. CASE Left(w) /\ UNCHANGED <<stores, files>>
    BY <1>2, <1>3, <1>4, DropLeaves
<1>5. CASE /\ Moved(w, {"record"})
           /\ SetStore(Current(w), MarkSeen(stores[Current(w)], frame[w].event.id, 0))
  <2>1. PICK r \in Ref, id \in EventId : r = Current(w) /\ id = frame[w].event.id
      BY <1>1, CurrentSound
  <2> DEFINE s == MarkSeen(stores[r], id, 0)
  <2>2. r.name \in Handler /\ stores[r] \in Store /\ stores[r] # None /\ Indexed(stores[r]) /\ 0 \in Nat
      BY <1>1, <2>1, CurrentSound, NoStoreAssumption DEF StoreSound
  <2>3. s \in Store /\ Ids(s.state.seen) \subseteq Ids(stores[r].state.seen) \cup {id}
      BY <2>2, MarkSeenIndexed DEF Indexed
  <2>4. SetStore(r, s)
      BY <1>5, <2>1
  <2> HIDE DEF s
  <2>5. AccountsKept
      BY <1>2, <1>3, <1>5, AccountKept DEF Moved, Moves
  <2>6. Claimant(w, r.name, id)' /\ Started(w)' /\ Prompted(w)'
    <3>1. PICK h \in Handler : h = r.name
        BY <2>2
    <3>2. Claimant(w, h, id)'
        BY <1>1, <1>5, <2>1, <3>1 DEF Claimant, Claiming, Current, Moved, Goes, Started
    <3> QED
        BY <1>5, <3>1, <3>2 DEF Started, Prompted, Moved
  <2>7. \A i \in Ids(s.state.seen) : Accounted(r.name, i)'
    <3>1. \A i \in Ids(stores[r].state.seen) : Accounted(r.name, i)'
        BY <2>2, <2>5, OldAccounts
    <3>2. Accounted(r.name, id)'
        BY <2>6 DEF Accounted
    <3> QED
        BY <2>3, <3>1, <3>2
  <2> QED
      BY <1>1, <1>5, <2>1, <2>3, <2>4, <2>5, <2>6, <2>7, DropKept DEF Moved, Moves
<1> QED
    BY <1>4, <1>5, MarkSeenShape

\* Every step of a caller accounts for what it leaves.
LEMMA DropStep == ASSUME Inv, DropInv, NEW w \in Worker, Step(w) PROVE DropInv'
<1>1. Moves(w) /\ frame[w].pc # "idle"
    BY StepCalls DEF Moves
<1>2. UNCHANGED turns => TurnsStay
    BY DEF TurnsStay
<1>3. CASE RecordEventStep(w)
    BY <1>2, <1>3, RecordEventShape, DropGoes DEF Moved, Goes
<1>4. CASE LookupStep(w)
    BY <1>1, <1>2, <1>4, LookupShape, DropGoes, DropLeaves, SettledClaims DEF Moved
<1>5. CASE UnbindStep(w)
    BY <1>2, <1>5, UnbindShape, DropGoes DEF Moved
<1>6. CASE ReadBinding(w)
    BY <1>2, <1>6, ReadBindingShape, DropGoes DEF Moved
<1>7. CASE CheckAlive(w)
    BY <1>1, <1>2, <1>7, CheckAliveShape, DropGoes, DropLeaves, SettledClaims DEF Moved
<1>8. CASE ReadRecent(w) \/ \E s \in Session : ReadSummary(w, s)
    BY <1>2, <1>8, CandidatesShape, DropGoes DEF Moved
<1>9. CASE RouterDecide(w)
    BY <1>1, <1>2, <1>9, RouterDecideShape, DropGoes, DropLeaves, SettledClaims DEF Moved
<1>10. CASE CreateSession(w)
    BY <1>2, <1>10, CreateSessionShape, DropGoes DEF Moved
<1>11. CASE CreateFails(w)
  <2>1. Left(w) /\ ReportError(w) /\ UNCHANGED <<stores, files, turns>>
      BY <1>11, CreateFailsShape
  <2>2. errors \subseteq errors'
      BY <2>1 DEF ReportError
  <2> QED
      BY <1>1, <1>2, <2>1, <2>2, DropLeaves, SettledClaims
<1>12. CASE BindStep(w)
    BY <1>2, <1>12, BindShape, DropGoes DEF Moved
<1>13. CASE AddCreatedStep(w)
    BY <1>1, <1>2, <1>13, AddCreatedShape, DropGoes, DropLeaves, SettledClaims DEF Moved
<1>14. CASE SendAccepted(w) \/ SendRejected(w) \/ SendReplyLost(w)
  <2>1. frame[w].pc = "send" /\ frame[w].sid \in Session /\ UNCHANGED <<stores, files>>
      BY <1>14, SendShape
  <2>2. TurnsStay
      BY <1>2, <1>14, <2>1, SendShape, AcceptedStays
  <2>3. CASE Moved(w, {"create"}) /\ UNCHANGED errors
      BY <2>1, <2>2, <2>3, DropGoes DEF Moved
  <2>4. CASE Left(w) /\ ReportError(w)
    <3>1. errors \subseteq errors'
        BY <2>4 DEF ReportError
    <3> QED
        BY <1>1, <2>1, <2>2, <2>4, <3>1, DropLeaves, SettledClaims
  <2>5. CASE Left(w) /\ UNCHANGED errors /\ Takes(w)
    <3>1. Settles(w)
        BY <2>1, <2>5, AcceptedStays
    <3> QED
        BY <2>1, <2>2, <2>5, <3>1, DropLeaves
  <2> QED
      BY <1>14, <2>3, <2>4, <2>5, SendShape
<1> QED
    BY <1>3, <1>4, <1>5, <1>6, <1>7, <1>8, <1>9, <1>10, <1>11, <1>12, <1>13, <1>14, DropMark DEF Step

\* No account changes with the list of subscriptions, or while nothing moves.
LEMMA SameAccounts ==
    ASSUME UNCHANGED <<frame, turns, errors>>
    PROVE  /\ AccountsKept
           /\ DropInv => \A w \in Worker : Started(w)' /\ Prompted(w)'
BY DEF AccountsKept, Accounted, Claimant, Claiming, Current, WasDriven, Drove, DropInv, Started, Prompted

\* A new object starts from its file, and an object that is gone has no window.
LEMMA DropOutside ==
    ASSUME Inv, DropInv, Outside, UNCHANGED stores \/ \E h \in Handler : Register(h) \/ Unregister(h)
    PROVE  DropInv'
<1>1. AccountsKept /\ (\A w \in Worker : Started(w)' /\ Prompted(w)') /\ files' = files
    BY SameAccounts DEF Outside
<1>2. \A h \in Handler : \A id \in Ids(files'[h].seen) : Accounted(h, id)'
    BY <1>1, OldAccounts
<1>3. SUFFICES \A q \in Ref : stores'[q] # None =>
                 \/ stores[q] # None /\ stores'[q].state.seen = stores[q].state.seen
                 \/ q.name \in Handler /\ stores'[q].state.seen = files[q.name].seen
  <2>1. SUFFICES ASSUME NEW q \in Ref, stores'[q] # None, NEW id \in Ids(stores'[q].state.seen)
                 PROVE  Accounted(q.name, id)'
      BY <1>1, <1>2 DEF DropInv
  <2>2. CASE stores[q] # None /\ stores'[q].state.seen = stores[q].state.seen
      BY <1>1, <2>1, <2>2, OldAccounts
  <2>3. CASE q.name \in Handler /\ stores'[q].state.seen = files[q.name].seen
      BY <1>1, <2>1, <2>3, OldAccounts
  <2> QED
      BY <1>3, <2>1, <2>2, <2>3
<1>4. stores \in [Ref -> Store \cup {None}] /\ subs \in Seq(Ref)
    BY DEF Inv, TypeOK
<1>5. CASE UNCHANGED stores
    BY <1>5
<1>6. ASSUME NEW h \in Handler, Register(h)
      PROVE  \A q \in Ref : stores'[q] # None =>
                 \/ stores[q] # None /\ stores'[q].state.seen = stores[q].state.seen
                 \/ q.name \in Handler /\ stores'[q].state.seen = files[q.name].seen
  <2>1. PICK o \in Object :
          stores' = [Collected(h) EXCEPT ![[name |-> h, obj |-> o]] = NewSubStore(files[h], MaxEntries, 0)]
      BY <1>6 DEF Register
  <2>2. NewSubStore(files[h], MaxEntries, 0).state = files[h]
      BY DEF NewSubStore
  <2>3. \A q \in Ref : Collected(h)[q] \in {None, stores[q]}
      BY DEF Collected
  <2>4. Collected(h) \in [Ref -> Store \cup {None}]
      BY <1>4 DEF Collected
  <2> DEFINE s == NewSubStore(files[h], MaxEntries, 0)
             C == Collected(h)
             n == [name |-> h, obj |-> o]
  <2>5. /\ n \in Ref /\ n.name = h /\ s.state = files[h] /\ stores' = [C EXCEPT ![n] = s]
        /\ C \in [Ref -> Store \cup {None}] /\ \A q \in Ref : C[q] \in {None, stores[q]}
      BY <2>1, <2>2, <2>3, <2>4 DEF Ref
  <2> HIDE DEF s, C, n
  <2> QED
      BY <2>5
<1>7. ASSUME NEW h \in Handler, Unregister(h)
      PROVE  \A q \in Ref : stores'[q] # None => stores'[q] = stores[q]
  <2>1. stores' = Collected(h)
      BY <1>7 DEF Unregister
  <2> QED
      BY <2>1 DEF Collected
<1> QED
    BY <1>5, <1>6, <1>7

\* Until a crash, every step accounts for what it leaves.
LEMMA DropNext ==
    ASSUME Inv, crashes = 0 => DropInv, [Next]_vars, crashes' = 0
    PROVE  DropInv'
<1>1. crashes \in Nat
    BY DEF Inv, TypeOK
<1>2. ASSUME NEW w \in Worker, Begins(w) PROVE DropInv'
  <2>1. /\ UNCHANGED <<stores, files, turns, errors, crashes>> /\ frame[w].pc = "idle"
        /\ \A v \in Worker : v # w => frame'[v] = frame[v]
      BY <1>2 DEF Begins
  <2>2. DropInv
      BY <2>1
  <2>3. Started(w)' /\ Prompted(w)'
    <3>1. TypeOK'
        BY NextInv DEF Inv
    <3>2. frame'[w].via \in {"dispatch", "retry"}
        BY <3>1 DEF TypeOK, Frame
    <3> QED
        BY <1>2, <3>2 DEF Begins, Started, Prompted
  <2>4. AccountsKept
    <3>1. Settles(w)
        BY <2>1 DEF Settles, Claimant, Claiming
    <3> QED
        BY <2>1, <3>1, AccountKept DEF TurnsStay
  <2>5. \A v \in Worker : Started(v)' /\ Prompted(v)'
      BY <2>1, <2>2, <2>3 DEF DropInv, Started, Prompted, Current
  <2> QED
      BY <2>1, <2>2, <2>4, <2>5, OldAccounts DEF DropInv
<1>3. ASSUME NEW w \in Worker, Step(w) PROVE DropInv'
    BY <1>3, DropStep, StepCalls DEF Moves
<1>4. ASSUME Outside, UNCHANGED stores \/ \E h \in Handler : Register(h) \/ Unregister(h)
      PROVE  DropInv'
  <2>1. crashes' = crashes
      BY <1>4 DEF Outside
  <2> QED
      BY <1>4, <2>1, DropOutside
<1>5. ASSUME NEW s \in Session, SessionDies(s) PROVE Outside /\ UNCHANGED stores
    BY <1>5 DEF SessionDies, Outside, history
<1>6. ASSUME NEW h \in Handler, Register(h) \/ Unregister(h) PROVE Outside
    BY <1>6 DEF Register, Unregister, Outside, history
<1>7. ~Crash
    BY <1>1 DEF Crash
<1>8. UNCHANGED vars => Outside /\ UNCHANGED stores
    BY DEF vars, Outside, history
<1> QED
    BY <1>2, <1>3, <1>4, <1>5, <1>6, <1>7, <1>8, DispatchBegins, RetryBegins DEF Next

\* While the process lives no event is dropped in silence (NothingDropped): one that
\* is marked seen and in nobody's hands was driven, or its error was returned, or it
\* has no prompt.  A crash between markSeen and the turn is what can lose one.
THEOREM NothingIsDropped == Spec => [](crashes = 0 => NothingDropped)
<1>1. Init => DropInv
  <2>1. SUFFICES ASSUME Init PROVE DropInv
      OBVIOUS
  <2>2. \A w \in Worker : frame[w].pc = "idle"
      BY <2>1, Zenon DEF Init, IdleFrame
  <2>3. /\ \A h \in Handler : files[h].seen = <<>>
        /\ \A r \in Ref : stores[r] = None
      BY <2>1 DEF Init, EmptyState
  <2>4. Ids(<<>>) = {}
      BY DEF Ids
  <2> QED
      BY <2>2, <2>3, <2>4 DEF DropInv, Started, Prompted
<1>2. Inv /\ (crashes = 0 => DropInv) /\ [Next]_vars => (crashes = 0 => DropInv)'
    BY DropNext
<1>3. Inv /\ (crashes = 0 => DropInv) => (crashes = 0 => NothingDropped)
  <2>1. SUFFICES ASSUME Inv, DropInv, NEW h \in Handler, NEW id \in EventId, Spent(h, id)
                 PROVE  \/ Driven(h, id) # {} \/ <<h, id>> \in errors
                        \/ \E e \in Silent[h] : e.id = id
      BY DEF NothingDropped
  <2>2. Accounted(h, id) /\ \A w \in Worker : ~Claimant(w, h, id)
      BY <2>1 DEF Spent, Claims, Claimant, DropInv
  <2>3. WasDriven(h, id) => Driven(h, id) # {}
      BY <2>1, DrivenMember DEF DrivenMeaning, WasDriven
  <2> QED
      BY <2>2, <2>3 DEF Accounted
<1> QED
    BY <1>1, <1>2, <1>3, Invariance, PTL DEF Spec


-----------------------------------------------------------------------------
(* Events of one key share one session until the key is split or its        *)
(* handler forked.  resolve reads the binding, checks the session, creates  *)
(* and binds without a lock: what a caller read or wrote of a key holds     *)
(* until its turn because any other caller that gets in between splits the  *)
(* key, and so does whoever gives up a session that is alive.               *)

Whole(h, k) == <<h, k>> \notin split /\ h \notin forked

\* Session s has a conversation for key k of handler h.
Talks(s, h, k) == status[s] = "live" /\ turns[s] # <<>> /\ owner[s] = [name |-> h, key |-> k]

\* What caller w has read or written of the key still holds.
KeyFact(w, h, k) ==
    /\ frame[w].pc \in {"alive", "add", "send"} => files[h].bindings[k] = frame[w].sid
    /\ frame[w].pc \in {"create", "bind"} => \A s \in Session : ~Talks(s, h, k)

KeySound(h, k) ==
    /\ \A s \in Session : Talks(s, h, k) => files[h].bindings[k] = s
    /\ \A w \in Worker : Works(w, h, k) => KeyFact(w, h, k)
    /\ \A v, w \in Worker : Works(v, h, k) /\ Works(w, h, k) => v = w

OwnersKeyed == \A s \in Session : status[s] # "unused" /\ Keyed(owner[s].name) => owner[s].key \in Key

KeyInv ==
    /\ OwnersKeyed
    /\ \A h \in Handler, k \in Key : Keyed(h) /\ Whole(h, k) => KeySound(h, k)

\* A step of caller w after which its work for the key, if any, is sound.
LEMMA KeyKept ==
    ASSUME NEW h, NEW k, KeySound(h, k), NEW w \in Worker,
           \A v \in Worker : v # w => frame'[v] = frame[v],
           files'[h].bindings[k] = files[h].bindings[k],
           \A s \in Session : Talks(s, h, k)' => Talks(s, h, k),
           Works(w, h, k)' => /\ KeyFact(w, h, k)'
                              /\ \A v \in Worker : Works(v, h, k) => v = w
    PROVE  KeySound(h, k)'
<1>1. \A v \in Worker : v # w => (Works(v, h, k)' <=> Works(v, h, k))
    BY DEF Works, Current
<1>2. \A v \in Worker : v # w /\ Works(v, h, k) => KeyFact(v, h, k)'
    BY DEF KeySound, KeyFact
<1>3. \A s \in Session : Talks(s, h, k)' => files'[h].bindings[k] = s
    BY DEF KeySound
<1>4. \A v \in Worker : Works(v, h, k)' => KeyFact(v, h, k)'
    BY <1>1, <1>2
<1>5. \A u, v \in Worker : Works(u, h, k)' /\ Works(v, h, k)' => u = v
    BY <1>1 DEF KeySound
<1> QED
    BY <1>3, <1>4, <1>5 DEF KeySound

\* A step of caller w that does not touch the binding of the key.
LEMMA BindingKept ==
    ASSUME Inv, Shared, NEW w \in Worker, frame[w].pc # "idle", NEW h \in Handler, NEW k \in Key, h \notin forked,
           \/ UNCHANGED <<stores, files>>
           \/ \E s \in Store :
                /\ SetStore(Current(w), s)
                /\ Current(w).name = h => s.state.bindings[k] = stores[Current(w)].state.bindings[k]
    PROVE  files'[h].bindings[k] = files[h].bindings[k]
<1>1. /\ Current(w) \in Ref /\ Current(w).name \in Handler
      /\ Current(w).name = h => stores[Current(w)].state = files[h]
    BY CurrentSound, CurrentUsed DEF Shared
<1>2. files \in [Handler -> State]
    BY DEF Inv, TypeOK
<1> QED
    BY <1>1, <1>2 DEF SetStore

\* What a step that goes on with its event works for is what it worked for.
LEMMA WorksOn ==
    ASSUME Inv, NEW w \in Worker, Goes(frame[w], frame'[w]), frame[w].pc \notin {"idle", "mark", "record", "lookup"},
           NEW h, NEW k, Works(w, h, k)'
    PROVE  /\ Current(w).name = h /\ Keyed(h) /\ frame[w].event.key = k
           /\ frame[w].pc \in {"alive", "create", "bind", "add", "send"} => Works(w, h, k)
<1>1. frame'[w].todo = frame[w].todo /\ frame'[w].event = frame[w].event
    BY DEF Goes
<1> QED
    BY <1>1 DEF Works, Current

\* A caller that leaves its event works for nothing.
LEMMA LeavesNoWork ==
    ASSUME NEW w \in Worker, Leaves(frame[w], frame'[w]), NEW h, NEW k
    PROVE  ~Works(w, h, k)'
BY DEF Leaves, Works

\* Nor does one that is not past the binding of a keyed policy.
LEMMA GoesNoWork ==
    ASSUME NEW w \in Worker, Goes(frame[w], frame'[w]), NEW h, NEW k,
           \/ frame'[w].pc \notin {"alive", "create", "bind", "add", "send"}
           \/ ~Keyed(Current(w).name)
    PROVE  ~Works(w, h, k)'
<1>1. Current(w)' = Current(w)
    BY DEF Goes, Current
<1> QED
    BY <1>1 DEF Works

\* A session that is handed out has no turns: nobody talks more than before.
LEMMA HandOutTalks ==
    ASSUME Inv, NEW w \in Worker, NEW n \in Session, HandOut(w, n), UNCHANGED turns, NEW h, NEW k
    PROVE  \A s \in Session : Talks(s, h, k)' => Talks(s, h, k)
<1>1. turns[n] = <<>>
    BY UnusedUnknown DEF HandOut
<1>2. \A s \in Session : s # n => owner'[s] = owner[s] /\ status'[s] = status[s]
    BY DEF HandOut, Inv, TypeOK
<1> QED
    BY <1>1, <1>2 DEF Talks

\* A dead session in the binding is the only one that can have talked for the key.
LEMMA DeadBinding ==
    ASSUME NEW h, NEW k, KeySound(h, k), NEW w \in Worker, Works(w, h, k),
           frame[w].pc \in {"alive", "send"}, status[frame[w].sid] # "live"
    PROVE  \A s \in Session : ~Talks(s, h, k)
BY DEF KeySound, KeyFact, Talks

\* A key that is whole after a step was whole, and nobody split it.
LEMMA WholeBefore ==
    ASSUME Inv, NEW w \in Worker, Step(w), NEW h, NEW k, Whole(h, k)'
    PROVE  /\ Whole(h, k) /\ Moves(w)
           /\ \A condition \in BOOLEAN :
                Splits(w, condition) /\ Keyed(h) /\ Current(w).name = h /\ frame[w].event.key = k => ~condition
<1>1. Moves(w) /\ split \subseteq split'
    BY StepCalls, HistoryShape
<1>2. Whole(h, k)
    BY <1>1 DEF Whole, Moves
<1> QED
    BY <1>1, <1>2 DEF Splits, Whole

-----------------------------------------------------------------------------
(* One step of a caller, for one key.                                       *)

\* The steps after which the caller works for no key, and which hand nothing out.
LEMMA KeyNoWork ==
    ASSUME Inv, Shared, NEW w \in Worker, Moves(w), NEW h \in Handler, NEW k \in Key,
           h \notin forked, KeySound(h, k), UNCHANGED <<status, turns, owner>>, ~Works(w, h, k)',
           \/ UNCHANGED <<stores, files>>
           \/ \E s \in Store :
                /\ SetStore(Current(w), s)
                /\ Current(w).name = h => s.state.bindings[k] = stores[Current(w)].state.bindings[k]
    PROVE  KeySound(h, k)'
<1>1. files'[h].bindings[k] = files[h].bindings[k]
    BY BindingKept DEF Moves
<1>2. \A s \in Session : Talks(s, h, k)' => Talks(s, h, k)
    BY DEF Talks
<1> QED
    BY <1>1, <1>2, KeyKept DEF Moves

\* Up to the binding nobody works for a key.
LEMMA KeyBefore ==
    ASSUME Inv, Shared, NEW w \in Worker, NEW h \in Handler, NEW k \in Key, h \notin forked, KeySound(h, k),
           MarkSeenStep(w) \/ RecordEventStep(w) \/ LookupStep(w)
    PROVE  KeySound(h, k)'
<1>1. CASE MarkSeenStep(w)
  <2>1. /\ frame[w].pc = "mark" /\ UNCHANGED <<status, turns, owner>> /\ Moves(w)
        /\ Leaves(frame[w], frame'[w]) \/ (Goes(frame[w], frame'[w]) /\ frame'[w].pc = "record")
      BY <1>1, MarkSeenShape DEF Left, Moved
  <2>2. ~Works(w, h, k)'
      BY <2>1, LeavesNoWork, GoesNoWork
  <2> DEFINE s == MarkSeen(stores[Current(w)], frame[w].event.id, 0)
  <2>3. s \in Store /\ s.state.bindings = stores[Current(w)].state.bindings
      BY <2>1, CurrentSound, MarkSeenIndexed DEF StoreSound, SameButWindow
  <2>4. SetStore(Current(w), s) \/ UNCHANGED <<stores, files>>
      BY <1>1, MarkSeenShape
  <2> HIDE DEF s
  <2> QED
      BY <2>1, <2>2, <2>3, <2>4, KeyNoWork
<1>2. CASE RecordEventStep(w)
  <2>1. /\ UNCHANGED <<status, turns, owner>> /\ Moves(w) /\ Goes(frame[w], frame'[w])
        /\ frame'[w].pc \in {"create", "binding", "recent"}
        /\ frame'[w].pc = "create" => ~Keyed(Current(w).name)
    <3>1. frame[w].pc = "record"
        BY <1>2, RecordEventShape
    <3> QED
        BY <1>2, <3>1, RecordEventShape, ResolveStarts, CurrentSound DEF Moved
  <2>2. ~Works(w, h, k)'
      BY <2>1, GoesNoWork
  <2> QED
      BY <1>2, <2>1, <2>2, RecordEventShape, KeyNoWork
<1>3. CASE LookupStep(w)
  <2>1. ~Works(w, h, k)' /\ Moves(w)
      BY <1>3, LookupShape, LeavesNoWork, GoesNoWork DEF Left, Moved
  <2> QED
      BY <1>3, <2>1, LookupShape, KeyNoWork
<1> QED
    BY <1>1, <1>2, <1>3

\* A fresh retry that drops a binding splits the key.
LEMMA KeyUnbind ==
    ASSUME Inv, Shared, NEW w \in Worker, NEW h \in Handler, NEW k \in Key, Keyed(h), Whole(h, k)',
           KeySound(h, k), UnbindStep(w)
    PROVE  KeySound(h, k)'
<1>1. /\ frame[w].pc = "unbind" /\ UNCHANGED <<status, turns, owner>>
      /\ Moves(w) /\ Goes(frame[w], frame'[w]) /\ frame'[w].pc = "binding"
    BY UnbindShape DEF Moved
<1>2. ~Works(w, h, k)' /\ h \notin forked
    BY <1>1, GoesNoWork DEF Whole, Moves
<1>3. CASE UNCHANGED <<stores, files>>
    BY <1>1, <1>2, <1>3, KeyNoWork
<1>4. CASE /\ split' = split \cup {<<Current(w).name, frame[w].event.key>>}
           /\ \E s \in Store : /\ SetStore(Current(w), s)
                               /\ s.state.bindings = [stores[Current(w)].state.bindings
                                                        EXCEPT ![frame[w].event.key] = None]
  <2>1. PICK s \in Store : /\ SetStore(Current(w), s)
                           /\ s.state.bindings = [stores[Current(w)].state.bindings
                                                    EXCEPT ![frame[w].event.key] = None]
      BY <1>4
  <2>2. stores[Current(w)].state.bindings \in [Key -> Session \cup {None}]
      BY <1>1, CurrentSound DEF Store, State
  <2>3. Current(w).name = h => frame[w].event.key # k
      BY <1>4 DEF Whole
  <2>4. Current(w).name = h => s.state.bindings[k] = stores[Current(w)].state.bindings[k]
      BY <2>1, <2>2, <2>3
  <2> QED
      BY <1>1, <1>2, <2>1, <2>4, KeyNoWork
<1> QED
    BY <1>3, <1>4, UnbindShape

\* The binding read is the session in hand, and without one nobody talks for the key.
LEMMA KeyBinding ==
    ASSUME Inv, Shared, NEW w \in Worker, NEW h \in Handler, NEW k \in Key, Keyed(h), Whole(h, k)',
           KeySound(h, k), ReadBinding(w)
    PROVE  KeySound(h, k)'
<1>1. /\ frame[w].pc = "binding" /\ UNCHANGED <<stores, files, status, turns, owner>>
      /\ Moves(w) /\ Goes(frame[w], frame'[w]) /\ frame'[w].pc \in {"create", "alive"}
      /\ frame'[w].pc = "create" => stores[Current(w)].state.bindings[frame[w].event.key] = None
      /\ frame'[w].pc = "alive" => frame'[w].sid = stores[Current(w)].state.bindings[frame[w].event.key]
      /\ Splits(w, \E v \in Worker : Works(v, Current(w).name, frame[w].event.key))
    BY ReadBindingShape DEF Moved
<1>2. CASE ~Works(w, h, k)'
  <2>1. h \notin forked
      BY <1>1 DEF Whole, Moves
  <2> QED
      BY <1>1, <1>2, <2>1, KeyNoWork
<1>3. CASE Works(w, h, k)'
  <2>1. Current(w).name = h /\ frame[w].event.key = k
      BY <1>1, <1>3, WorksOn
  <2>2. Whole(h, k) /\ h \notin forked
      BY WholeBefore DEF Whole, Step
  <2>3. \A v \in Worker : ~Works(v, h, k)
    <3>1. <<h, k>> \notin split'
        BY DEF Whole
    <3> QED
        BY <1>1, <2>1, <3>1 DEF Splits
  <2>4. stores[Current(w)].state = files[h]
      BY <1>1, <2>1, <2>2, CurrentUsed, CurrentSound DEF Shared
  <2>5. \A s \in Session : Talks(s, h, k)' <=> Talks(s, h, k)
      BY <1>1 DEF Talks
  <2>6. frame'[w].pc = "create" => \A s \in Session : files[h].bindings[k] # s
      BY <1>1, <2>1, <2>4, NoneAssumption
  <2>7. KeyFact(w, h, k)'
      BY <1>1, <2>1, <2>4, <2>5, <2>6 DEF KeySound, KeyFact
  <2>8. /\ \A v \in Worker : v # w => frame'[v] = frame[v]
        /\ files'[h].bindings[k] = files[h].bindings[k]
      BY <1>1 DEF Moves
  <2> QED
      BY <2>3, <2>5, <2>7, <2>8, KeyKept
<1> QED
    BY <1>2, <1>3

\* A step that keeps the work: the facts of the caller are what is left to show.
LEMMA KeyWorkKept ==
    ASSUME NEW w \in Worker, Moves(w), NEW h \in Handler, NEW k \in Key, KeySound(h, k),
           files'[h].bindings[k] = files[h].bindings[k],
           \A s \in Session : Talks(s, h, k)' => Talks(s, h, k),
           Works(w, h, k)' => Works(w, h, k) /\ KeyFact(w, h, k)'
    PROVE  KeySound(h, k)'
<1>1. Works(w, h, k)' => \A v \in Worker : Works(v, h, k) => v = w
    BY DEF KeySound
<1> QED
    BY <1>1, KeyKept DEF Moves

\* The session of the binding is used, or dead, or given up alive, which splits the key.
LEMMA KeyAlive ==
    ASSUME Inv, Shared, NEW w \in Worker, NEW h \in Handler, NEW k \in Key, Keyed(h), Whole(h, k)',
           KeySound(h, k), CheckAlive(w)
    PROVE  KeySound(h, k)'
<1>1. /\ frame[w].pc = "alive" /\ UNCHANGED <<stores, files, status, turns, owner>> /\ Moves(w)
      /\ Leaves(frame[w], frame'[w]) \/ Goes(frame[w], frame'[w])
      /\ Goes(frame[w], frame'[w]) =>
            \/ frame'[w].pc = "send" /\ frame'[w].sid = frame[w].sid
            \/ frame'[w].pc = "create" /\ Splits(w, status[frame[w].sid] = "live")
      /\ \A s \in Session : Talks(s, h, k)' <=> Talks(s, h, k)
    BY CheckAliveShape DEF Moved, Left, Moves, Goes, Leaves, Talks
<1>2. ASSUME Works(w, h, k)' PROVE Works(w, h, k) /\ KeyFact(w, h, k)'
  <2>1. Goes(frame[w], frame'[w])
      BY <1>1, <1>2, LeavesNoWork
  <2>2. Current(w).name = h /\ frame[w].event.key = k /\ Works(w, h, k)
      BY <1>1, <1>2, <2>1, WorksOn
  <2>3. CASE frame'[w].pc = "send" /\ frame'[w].sid = frame[w].sid
      BY <1>1, <2>2, <2>3 DEF KeySound, KeyFact
  <2>4. CASE frame'[w].pc = "create" /\ Splits(w, status[frame[w].sid] = "live")
    <3>1. status[frame[w].sid] # "live"
      <4>1. <<h, k>> \notin split'
          BY DEF Whole
      <4> QED
          BY <2>2, <2>4, <4>1 DEF Splits
    <3>2. \A s \in Session : ~Talks(s, h, k)
        BY <1>1, <2>2, <3>1, DeadBinding
    <3> QED
        BY <1>1, <2>2, <2>4, <3>2 DEF KeyFact
  <2> QED
      BY <1>1, <2>1, <2>2, <2>3, <2>4
<1> QED
    BY <1>1, <1>2, KeyWorkKept

\* A new session does not talk yet, whether its creator learned its id or not.
LEMMA KeyCreate ==
    ASSUME Inv, Shared, NEW w \in Worker, NEW h \in Handler, NEW k \in Key, Keyed(h),
           KeySound(h, k), CreateSession(w) \/ CreateFails(w)
    PROVE  KeySound(h, k)'
<1>1. /\ frame[w].pc = "create" /\ UNCHANGED <<stores, files, turns>> /\ Moves(w)
      /\ \/ Leaves(frame[w], frame'[w])
         \/ /\ Goes(frame[w], frame'[w]) /\ frame'[w].pc \in {"bind", "add"}
            /\ frame'[w].pc = "bind" <=> Keyed(Current(w).name)
      /\ UNCHANGED <<status, owner>> \/ \E n \in Session : HandOut(w, n)
    BY CreateSessionShape, CreateFailsShape DEF Moved, Left
<1>2. \A s \in Session : Talks(s, h, k)' => Talks(s, h, k)
  <2>1. CASE UNCHANGED <<status, owner>>
      BY <1>1, <2>1 DEF Talks
  <2>2. ASSUME NEW n \in Session, HandOut(w, n) PROVE \A s \in Session : Talks(s, h, k)' => Talks(s, h, k)
      BY <1>1, <2>2, HandOutTalks
  <2> QED
      BY <1>1, <2>1, <2>2
<1>3. ASSUME Works(w, h, k)' PROVE Works(w, h, k) /\ KeyFact(w, h, k)'
  <2>1. Goes(frame[w], frame'[w])
      BY <1>1, <1>3, LeavesNoWork
  <2>2. Current(w).name = h /\ Works(w, h, k)
      BY <1>1, <1>3, <2>1, WorksOn
  <2>3. frame'[w].pc = "bind"
      BY <1>1, <2>1, <2>2 DEF Goes, Leaves
  <2>4. \A s \in Session : ~Talks(s, h, k)
      BY <1>1, <2>2 DEF KeySound, KeyFact
  <2> QED
      BY <1>2, <2>2, <2>3, <2>4 DEF KeyFact
<1> QED
    BY <1>1, <1>2, <1>3, KeyWorkKept

\* bind takes a binding from a session that does not talk, and from no other caller.
LEMMA KeyBind ==
    ASSUME Inv, Shared, NEW w \in Worker, NEW h \in Handler, NEW k \in Key, Keyed(h), Whole(h, k)',
           KeySound(h, k), BindStep(w)
    PROVE  KeySound(h, k)'
<1>1. /\ frame[w].pc = "bind" /\ UNCHANGED <<status, turns, owner>>
      /\ Moves(w) /\ Goes(frame[w], frame'[w]) /\ frame'[w].pc = "add" /\ frame'[w].sid = frame[w].sid
      /\ Keyed(Current(w).name)
      /\ \A s \in Session : Talks(s, h, k)' <=> Talks(s, h, k)
    BY BindShape DEF Moved, Talks
<1>2. PICK s \in Store :
        /\ SetStore(Current(w), s)
        /\ s.state.bindings = [stores[Current(w)].state.bindings EXCEPT ![frame[w].event.key] = frame[w].sid]
    BY BindShape
<1>3. /\ stores[Current(w)].state.bindings \in [Key -> Session \cup {None}] /\ Current(w).name \in Handler
      /\ frame[w].event.key \in Key
    BY <1>1, CurrentSound, EventKeyAssumption DEF Store, State
<1>4. h \notin forked
    BY <1>1 DEF Whole, Moves
<1>5. CASE Current(w).name = h /\ frame[w].event.key = k
  <2>1. Works(w, h, k)
      BY <1>1, <1>5 DEF Works
  <2>2. \A t \in Session : ~Talks(t, h, k)
      BY <1>1, <2>1 DEF KeySound, KeyFact
  <2>3. files'[h].bindings[k] = frame'[w].sid
    <3>1. files \in [Handler -> State] /\ files' = [files EXCEPT ![h] = s.state]
        BY <1>2, <1>5 DEF Inv, TypeOK, SetStore
    <3> QED
        BY <1>1, <1>2, <1>3, <1>5, <3>1
  <2>4. \A v \in Worker : v # w => frame'[v] = frame[v] /\ ~Works(v, h, k)
      BY <1>1, <2>1 DEF KeySound, Moves
  <2>5. \A v \in Worker : v # w => ~Works(v, h, k)'
      BY <2>4 DEF Works, Current
  <2>6. KeyFact(w, h, k)'
      BY <1>1, <2>3 DEF KeyFact
  <2>7. \A t \in Session : ~Talks(t, h, k)'
      BY <1>1, <2>2
  <2>8. \A v \in Worker : Works(v, h, k)' => v = w
      BY <2>5
  <2> QED
      BY <2>6, <2>7, <2>8 DEF KeySound
<1>6. CASE ~(Current(w).name = h /\ frame[w].event.key = k)
  <2>1. Current(w).name = h => s.state.bindings[k] = stores[Current(w)].state.bindings[k]
      BY <1>2, <1>3, <1>6
  <2>2. ~Works(w, h, k)'
      BY <1>1, <1>6, WorksOn
  <2> QED
      BY <1>1, <1>2, <1>4, <2>1, <2>2, KeyNoWork
<1> QED
    BY <1>5, <1>6

\* The session that was bound is added to the list, and stays the binding's.
LEMMA KeyAdd ==
    ASSUME Inv, Shared, NEW w \in Worker, NEW h \in Handler, NEW k \in Key, h \notin forked,
           KeySound(h, k), AddCreatedStep(w)
    PROVE  KeySound(h, k)'
<1>1. /\ frame[w].pc = "add" /\ UNCHANGED <<status, turns, owner>> /\ Moves(w)
      /\ \/ Leaves(frame[w], frame'[w])
         \/ Goes(frame[w], frame'[w]) /\ frame'[w].pc = "send" /\ frame'[w].sid = frame[w].sid
      /\ \E s \in Store : SetStore(Current(w), s) /\ s.state.bindings = stores[Current(w)].state.bindings
      /\ \A s \in Session : Talks(s, h, k)' <=> Talks(s, h, k)
    BY AddCreatedShape DEF Moved, Left, Talks
<1>2. files'[h].bindings[k] = files[h].bindings[k]
    BY <1>1, BindingKept
<1>3. ASSUME Works(w, h, k)' PROVE Works(w, h, k) /\ KeyFact(w, h, k)'
  <2>1. Goes(frame[w], frame'[w]) /\ frame'[w].pc = "send" /\ frame'[w].sid = frame[w].sid
      BY <1>1, <1>3, LeavesNoWork
  <2>2. Works(w, h, k)
      BY <1>1, <1>3, <2>1, WorksOn
  <2> QED
      BY <1>1, <1>2, <2>1, <2>2 DEF KeySound, KeyFact
<1> QED
    BY <1>1, <1>2, <1>3, KeyWorkKept

\* The session that takes a turn is the binding's, and no other caller is about to
\* replace it; whoever gives it up alive splits the key.
LEMMA KeySend ==
    ASSUME Inv, Shared, NEW w \in Worker, NEW h \in Handler, NEW k \in Key, Keyed(h), Whole(h, k)',
           KeySound(h, k), SendAccepted(w) \/ SendRejected(w) \/ SendReplyLost(w)
    PROVE  KeySound(h, k)'
<1>1. /\ frame[w].pc = "send" /\ UNCHANGED <<stores, files, status, owner>> /\ Moves(w)
      /\ \/ Leaves(frame[w], frame'[w])
         \/ /\ Goes(frame[w], frame'[w]) /\ frame'[w].pc = "create"
            /\ Splits(w, status[frame[w].sid] = "live")
      /\ UNCHANGED turns \/ Takes(w)
    BY SendShape DEF Moved, Left
<1>2. PICK s \in Session : s = frame[w].sid
    BY SendShape
<1>3. /\ turns \in [Session -> Seq(Turn)] /\ frame[w].event \in Event
      /\ owner[s] = OwnerOf(Current(w).name, frame[w].event)
    BY <1>1, <1>2, CurrentSound DEF Inv, TypeOK, FrameSound, Grants, OwnerOf, Current
<1>4. /\ \A t \in Session : t # s => turns'[t] = turns[t]
      /\ turns'[s] = turns[s] \/ status[s] = "live"
    BY <1>1, <1>2, <1>3 DEF Takes
<1>5. CASE Works(w, h, k)
  <2>1. Current(w).name = h /\ frame[w].event.key = k /\ files[h].bindings[k] = s
      BY <1>1, <1>2, <1>5 DEF Works, KeySound, KeyFact
  <2>2. \A t \in Session : Talks(t, h, k)' => t = s \/ Talks(t, h, k)
      BY <1>1, <1>4 DEF Talks
  <2>3. \A t \in Session : Talks(t, h, k)' => files'[h].bindings[k] = t
      BY <1>1, <2>1, <2>2 DEF KeySound
  <2>4. \A v \in Worker : v # w => frame'[v] = frame[v] /\ ~Works(v, h, k)
      BY <1>1, <1>5 DEF KeySound, Moves
  <2>5. \A v \in Worker : v # w => ~Works(v, h, k)'
      BY <2>4 DEF Works, Current
  <2>6. ASSUME Works(w, h, k)' PROVE KeyFact(w, h, k)'
    <3>1. /\ Goes(frame[w], frame'[w]) /\ frame'[w].pc = "create"
          /\ Splits(w, status[frame[w].sid] = "live")
        BY <1>1, <2>6, LeavesNoWork
    <3>2. status[s] # "live"
      <4>1. <<h, k>> \notin split'
          BY DEF Whole
      <4> QED
          BY <1>2, <2>1, <3>1, <4>1 DEF Splits
    <3>3. \A t \in Session : ~Talks(t, h, k)
        BY <1>1, <1>2, <1>5, <3>2, DeadBinding
    <3>4. \A t \in Session : ~Talks(t, h, k)'
        BY <1>1, <1>4, <3>2, <3>3 DEF Talks
    <3> QED
        BY <3>1, <3>4 DEF KeyFact
  <2>7. \A u, v \in Worker : Works(u, h, k)' /\ Works(v, h, k)' => u = v
      BY <2>5
  <2> QED
      BY <2>3, <2>5, <2>6, <2>7 DEF KeySound
<1>6. CASE ~Works(w, h, k)
  <2>1. ~Works(w, h, k)'
      BY <1>1, <1>6, LeavesNoWork, WorksOn
  <2>2. owner[s] # [name |-> h, key |-> k]
    <3>1. ASSUME owner[s] = [name |-> h, key |-> k] PROVE Works(w, h, k)
      <4>1. Current(w).name = h /\ PolicyKey(Current(w).name, frame[w].event) = k
          BY <1>3, <3>1 DEF OwnerOf
      <4> QED
          BY <1>1, <4>1 DEF Works, PolicyKey
    <3> QED
        BY <1>6, <3>1
  <2>3. \A t \in Session : Talks(t, h, k)' => Talks(t, h, k)
      BY <1>1, <1>4, <2>2 DEF Talks
  <2>4. files'[h].bindings[k] = files[h].bindings[k]
      BY <1>1
  <2> QED
      BY <1>1, <2>1, <2>3, <2>4, KeyWorkKept
<1> QED
    BY <1>5, <1>6


\* Nor does anybody work for a key of a routed policy.
LEMMA KeyRouted ==
    ASSUME Inv, Shared, NEW w \in Worker, NEW h \in Handler, NEW k \in Key, h \notin forked, KeySound(h, k),
           ReadRecent(w) \/ (\E s \in Session : ReadSummary(w, s)) \/ RouterDecide(w)
    PROVE  KeySound(h, k)'
<1>1. CASE ReadRecent(w) \/ \E s \in Session : ReadSummary(w, s)
  <2>1. ~Works(w, h, k)' /\ Moves(w)
      BY <1>1, CandidatesShape, GoesNoWork DEF Moved
  <2> QED
      BY <1>1, <2>1, CandidatesShape, KeyNoWork
<1>2. CASE RouterDecide(w)
  <2>1. ~Works(w, h, k)' /\ Moves(w)
      BY <1>2, RouterDecideShape, LeavesNoWork, GoesNoWork DEF Left, Moved, Keyed
  <2> QED
      BY <1>2, <2>1, RouterDecideShape, KeyNoWork
<1> QED
    BY <1>1, <1>2

\* Whatever a caller does next, a key that is still whole is sound.
LEMMA KeyStep ==
    ASSUME Inv, Shared, KeyInv, NEW w \in Worker, Step(w),
           NEW h \in Handler, NEW k \in Key, Keyed(h), Whole(h, k)'
    PROVE  KeySound(h, k)'
<1>1. Whole(h, k) /\ h \notin forked
    BY WholeBefore DEF Whole
<1>2. KeySound(h, k)
    BY <1>1 DEF KeyInv
<1>3. CASE MarkSeenStep(w) \/ RecordEventStep(w) \/ LookupStep(w)
    BY <1>1, <1>2, <1>3, KeyBefore
<1>4. CASE UnbindStep(w)
    BY <1>2, <1>4, KeyUnbind
<1>5. CASE ReadBinding(w)
    BY <1>2, <1>5, KeyBinding
<1>6. CASE CheckAlive(w)
    BY <1>2, <1>6, KeyAlive
<1>7. CASE ReadRecent(w) \/ (\E s \in Session : ReadSummary(w, s)) \/ RouterDecide(w)
    BY <1>1, <1>2, <1>7, KeyRouted
<1>8. CASE CreateSession(w) \/ CreateFails(w)
    BY <1>2, <1>8, KeyCreate
<1>9. CASE BindStep(w)
    BY <1>2, <1>9, KeyBind
<1>10. CASE AddCreatedStep(w)
    BY <1>1, <1>2, <1>10, KeyAdd
<1>11. CASE SendAccepted(w) \/ SendRejected(w) \/ SendReplyLost(w)
    BY <1>2, <1>11, KeySend
<1> QED
    BY <1>3, <1>4, <1>5, <1>6, <1>7, <1>8, <1>9, <1>10, <1>11 DEF Step

\* A session is created for a key of its handler.
LEMMA OwnersStep ==
    ASSUME Inv, OwnersKeyed, NEW w \in Worker, Step(w)
    PROVE  OwnersKeyed'
<1>1. CASE UNCHANGED <<status, owner>>
    BY <1>1 DEF OwnersKeyed
<1>2. CASE CreateSession(w) \/ CreateFails(w)
  <2>1. /\ frame[w].pc = "create"
        /\ UNCHANGED <<status, owner>> \/ \E n \in Session : HandOut(w, n)
      BY <1>2, CreateSessionShape, CreateFailsShape DEF Moved, Left
  <2>2. ASSUME NEW n \in Session, HandOut(w, n) PROVE OwnersKeyed'
    <3>1. frame[w].event \in Event
        BY <2>1, CurrentSound
    <3>2. /\ \A s \in Session : s # n => owner'[s] = owner[s] /\ status'[s] = status[s]
          /\ owner'[n] = OwnerOf(Current(w).name, frame[w].event)
        BY <2>2 DEF HandOut, Inv, TypeOK
    <3>3. Keyed(owner'[n].name) => owner'[n].key \in Key
        BY <3>1, <3>2, EventKeyAssumption DEF OwnerOf, PolicyKey
    <3> QED
        BY <3>2, <3>3 DEF OwnersKeyed
  <2> QED
      BY <1>1, <2>1, <2>2
<1> QED
    BY <1>1, <1>2, HistoryShape

\* Every other step leaves the bindings and the callers' work alone, or ends all of it.
LEMMA KeyOutside ==
    ASSUME KeyInv, UNCHANGED <<files, turns, owner>>, split \subseteq split', forked \subseteq forked',
           \A s \in Session : /\ status'[s] = "live" => status[s] = "live"
                              /\ status'[s] # "unused" => status[s] # "unused",
           \A w \in Worker : frame'[w] = frame[w] \/ frame'[w].pc \in {"idle", "mark", "lookup"}
    PROVE  KeyInv'
<1>1. OwnersKeyed'
    BY DEF KeyInv, OwnersKeyed
<1>2. ASSUME NEW h \in Handler, NEW k \in Key, Keyed(h), Whole(h, k)' PROVE KeySound(h, k)'
  <2>1. KeySound(h, k)
      BY <1>2 DEF KeyInv, Whole
  <2>2. \A s \in Session : Talks(s, h, k)' => Talks(s, h, k)
      BY DEF Talks
  <2>3. \A w \in Worker : Works(w, h, k)' => Works(w, h, k) /\ frame'[w] = frame[w]
      BY DEF Works, Current
  <2>4. \A w \in Worker : Works(w, h, k)' => KeyFact(w, h, k)'
      BY <2>1, <2>2, <2>3 DEF KeySound, KeyFact
  <2> QED
      BY <2>1, <2>2, <2>3, <2>4 DEF KeySound
<1> QED
    BY <1>1, <1>2 DEF KeyInv

LEMMA KeyNext ==
    ASSUME Inv, Shared, KeyInv, [Next]_vars
    PROVE  KeyInv'
<1>1. status \in [Session -> {"unused", "live", "dead"}]
    BY DEF Inv, TypeOK
<1>2. ASSUME NEW w \in Worker, Begins(w) PROVE KeyInv'
  <2>1. \A v \in Worker : frame'[v] = frame[v] \/ frame'[v].pc \in {"idle", "mark", "lookup"}
      BY <1>2 DEF Begins
  <2> QED
      BY <1>2, <2>1, KeyOutside DEF Begins
<1>3. ASSUME NEW w \in Worker, Step(w) PROVE KeyInv'
  <2>1. OwnersKeyed'
      BY <1>3, OwnersStep DEF KeyInv
  <2> QED
      BY <1>3, <2>1, KeyStep DEF KeyInv
<1>4. CASE Crash
  <2>1. \A w \in Worker : frame'[w].pc = "idle"
      BY <1>4, Zenon DEF Crash, IdleFrame
  <2>2. UNCHANGED <<files, status, turns, owner, split, forked>>
      BY <1>4 DEF Crash
  <2> QED
      BY <2>1, <2>2, KeyOutside
<1>5. ASSUME NEW s \in Session, SessionDies(s) PROVE KeyInv'
    BY <1>1, <1>5, KeyOutside DEF SessionDies, history
<1>6. ASSUME NEW h \in Handler, Register(h) \/ Unregister(h) PROVE KeyInv'
  <2>1. UNCHANGED <<files, turns, owner, status, split, frame>> /\ forked \subseteq forked'
      BY <1>6 DEF Register, Unregister, history
  <2> QED
      BY <2>1, KeyOutside
<1>7. CASE UNCHANGED vars
    BY <1>7, KeyOutside DEF vars, history
<1> QED
    BY <1>2, <1>3, <1>4, <1>5, <1>6, <1>7, DispatchBegins, RetryBegins DEF Next

\* Events with the same key share one session, but for the four cases in which the bus
\* itself gives one up (KeySplitsAlone): whatever else happens, no two live sessions of
\* one handler and key have both accepted a turn.
THEOREM OneSession == Spec => []KeySplitsAlone
<1>1. Init => Shared /\ KeyInv
  <2>1. SUFFICES ASSUME Init PROVE KeyInv
      BY SharedInit
  <2>2. \A w \in Worker : frame[w].pc = "idle"
      BY <2>1, Zenon DEF Init, IdleFrame
  <2>3. \A s \in Session : status[s] = "unused"
      BY <2>1 DEF Init
  <2> QED
      BY <2>2, <2>3 DEF KeyInv, OwnersKeyed, KeySound, Works, Talks
<1>2. Inv /\ Shared /\ KeyInv /\ [Next]_vars => Shared' /\ KeyInv'
    BY SharedNext, KeyNext
<1>3. Inv /\ KeyInv => KeySplitsAlone
  <2>1. SUFFICES ASSUME Inv, KeyInv, NEW s1 \in Session, NEW s2 \in Session,
                        status[s1] = "live", status[s2] = "live", turns[s1] # <<>>, turns[s2] # <<>>,
                        owner[s1] = owner[s2], Keyed(owner[s1].name),
                        <<owner[s1].name, owner[s1].key>> \notin split, owner[s1].name \notin forked
                 PROVE  s1 = s2
      BY DEF KeySplitsAlone
  <2>2. PICK h \in Handler, k \in Key \cup {None} : owner[s1] = [name |-> h, key |-> k]
    <3>1. turns[s1] \in Seq(Turn)
        BY <2>1 DEF Inv, TypeOK
    <3>2. 1 \in 1..Len(turns[s1])
        BY <2>1, <3>1, EmptySeq
    <3>3. <<s1, turns[s1][1].name, turns[s1][1].key>> \in Grants
        BY <2>1, <3>2 DEF Inv, TurnsSound
    <3> QED
        BY <3>3 DEF Grants
  <2>3. Keyed(h) /\ k \in Key /\ Whole(h, k)
      BY <2>1, <2>2 DEF KeyInv, OwnersKeyed, Whole
  <2>4. Talks(s1, h, k) /\ Talks(s2, h, k)
      BY <2>1, <2>2 DEF Talks
  <2> QED
      BY <2>1, <2>3, <2>4 DEF KeyInv, KeySound
<1> QED
    BY <1>1, <1>2, <1>3, Invariance, PTL DEF Spec

=============================================================================
