------------------------------ MODULE EventBus ------------------------------
(***************************************************************************)
(* The bus (internal/eventbus/bus.go): concurrent callers of Dispatch and  *)
(* Retry (webhook requests, source pollers, the control plane), the list   *)
(* of subscriptions they share, the store object behind each subscription  *)
(* and the sessions of the agent runtime behind the SessionDriver.         *)
(*                                                                         *)
(* The code holds a mutex inside Register, Unregister, the snapshot of the *)
(* subscriptions and each method of a store, and none between them: every  *)
(* one of these, and every call of the driver, is a step of its own.  A    *)
(* caller (Worker) keeps its local variables in a frame whose pc names the *)
(* step it makes next:                                                     *)
(*                                                                         *)
(*   mark     markSeen of the next matching subscription                   *)
(*   record   recordEvent                                                  *)
(*   lookup   lookupEvent, of a retry                                      *)
(*   unbind   unbind, of a retry that asked for a fresh session            *)
(*   binding, alive          resolve of a keyed policy: read, then check   *)
(*   recent, summary         resolve of a routed policy, up to the router  *)
(*   create, bind, add       a new session: CreateSession, bind and        *)
(*                           addCreated, for resolve and for refresh       *)
(*   send     SendUserMessage                                              *)
(*                                                                         *)
(* A subscription (Ref) is its name and the store object it was registered *)
(* with: a caller that took its snapshot before an Unregister goes on with *)
(* the old object while a new one serves the same name from the same file. *)
(* Stores run without a ttl here; StoreLifecycle has the clock.            *)
(*                                                                         *)
(* newest, forked, split and orphans, and a frame's doubt, record what     *)
(* happened, for the properties; no step reads them.                       *)
(***************************************************************************)
EXTENDS SubStore, Functions, FiniteSets

CONSTANTS Worker,
          Handler,              \* subscription names
          Policy,               \* the session policy of each handler
          Matches,              \* the events each handler's Match accepts
          Silent,               \* the events each handler renders an empty prompt for
          MaxEntries,           \* DedupConfig.MaxEntries
          MaxHop,               \* the hop limit and the router's cap on candidates,
          MaxCandidates,        \* as resolved: New and Router replace 0 by a default
          Targets,              \* the retry targets operators use
          FreshChoices,         \* do they ask for a fresh session?
          Faults,               \* what may go wrong in the agent runtime
          Removable,            \* the handlers operators unregister
          Object,               \* store objects of one handler that may be alive at once
          MaxCalls, MaxCrashes  \* bounds of the model: calls of the bus's API, crashes

ASSUME PolicyAssumption == Policy \in [Handler -> {"stateless", "keyed", "routed"}]
ASSUME MatchesAssumption == Matches \in [Handler -> SUBSET Event]
ASSUME SilentAssumption == Silent \in [Handler -> SUBSET Event]
ASSUME FaultsAssumption == Faults \subseteq {"create", "summary", "rejected", "lost_reply", "death"}
ASSUME BoundsAssumption ==
    /\ MaxEntries \in Int /\ MaxHop \in Nat /\ MaxCandidates \in Nat
    /\ MaxCalls \in Nat /\ MaxCrashes \in Nat
    /\ Removable \subseteq Handler
    /\ \A e \in Event : e.hop \in Nat
ASSUME TargetsAssumption == Targets \subseteq RetryTarget /\ FreshChoices \subseteq BOOLEAN

VARIABLES subs,                 \* Bus.subs: the registered subscriptions in order
          stores,               \* the store object of every Ref
          files,                \* the file of every handler
          frame,                \* the local variables of every caller
          status,               \* of every session: unused, live or dead
          turns,                \* the turns every session accepted, oldest first
          owner,                \* what every session was created for
          newest,               \* the newest events admitted for every handler, one window of them
          forked,               \* handlers registered again while a caller still used them
          split,                \* handlers and keys whose session somebody gave up or raced for
          orphans,              \* sessions whose id a crash or a lost answer kept from the bus
          errors,               \* the events whose Dispatch returned an error, per handler
          calls, crashes

history == <<newest, forked, split, orphans>>
vars == <<subs, stores, files, frame, status, turns, owner, history, errors, calls, crashes>>

Ref == [name : Handler, obj : Object]

Turn == [name : Handler, id : EventId, key : Key \cup {None}, via : {"dispatch", "retry"}]

PC == {"idle", "mark", "record", "lookup", "unbind", "binding", "alive",
       "recent", "summary", "create", "bind", "add", "send"}

Frame == [pc      : PC,
          via     : {"dispatch", "retry"},
          event   : Event \cup {None},
          todo    : Seq(Ref),           \* the subscriptions left, the current one first
          target  : Targets \cup {None},
          fresh   : BOOLEAN,
          sid     : Session \cup {None},
          reused  : BOOLEAN,
          prompt  : BOOLEAN,            \* the prompt is not empty
          doubt   : BOOLEAN,            \* the turn was taken once and its answer lost
          listed  : SUBSET Session,     \* candidates whose summary is not read yet
          cands   : SUBSET Session]     \* candidates found reusable

IdleFrame == [pc |-> "idle", via |-> "dispatch", event |-> None, todo |-> <<>>,
              target |-> None, fresh |-> FALSE, sid |-> None, reused |-> FALSE,
              prompt |-> FALSE, doubt |-> FALSE, listed |-> {}, cands |-> {}]

Init ==
    /\ subs = <<>>
    /\ stores = [r \in Ref |-> None]
    /\ files = [h \in Handler |-> EmptyState]
    /\ frame = [w \in Worker |-> IdleFrame]
    /\ status = [s \in Session |-> "unused"]
    /\ turns = [s \in Session |-> <<>>]
    /\ owner = [s \in Session |-> None]
    /\ newest = [h \in Handler |-> <<>>]
    /\ forked = {} /\ split = {} /\ orphans = {}
    /\ errors = {}
    /\ calls = 0 /\ crashes = 0

-----------------------------------------------------------------------------
At(w, pc) == frame[w].pc = pc

Current(w) == Head(frame[w].todo)

Keyed(h) == Policy[h] = "keyed"

\* policyKey
PolicyKey(h, e) == IF Keyed(h) THEN e.key ELSE None

\* Mutant: a stateless policy reuses what it created, like a routed one.
ResolveAtReusing(h) == IF Policy[h] = "keyed" THEN "binding" ELSE "recent"

\* Mutant: a keyed policy creates a session per event, like a stateless one.
ResolveAtCreating(h) == IF Policy[h] = "routed" THEN "recent" ELSE "create"

\* The step resolve() starts with.
ResolveAt(h) ==
    CASE Policy[h] = "stateless" -> "create"
      [] Policy[h] = "keyed"     -> "binding"
      [] Policy[h] = "routed"    -> "recent"

\* The frame of a caller that is done with its current subscription.
NextHandler(f) ==
    IF Len(f.todo) > 1
    THEN [IdleFrame EXCEPT !.pc = "mark", !.event = f.event, !.todo = Tail(f.todo)]
    ELSE IdleFrame

Resolve(f, e) ==
    LET h == Head(f.todo).name
    IN  [f EXCEPT !.pc = ResolveAt(h), !.event = e, !.prompt = e \notin Silent[h]]

\* The frame of a caller whose session is resolved: no prompt, no turn.
Deliver(f) == IF f.prompt THEN [f EXCEPT !.pc = "send"] ELSE NextHandler(f)

\* Mutant: the error is swallowed.
ReportNothing(w) == UNCHANGED errors

\* The error of the current subscription's turn is the dispatch's result.
ReportError(w) ==
    errors' = IF frame[w].via = "dispatch"
              THEN errors \cup {<<Current(w).name, frame[w].event.id>>} ELSE errors

SetFrame(w, f) == frame' = [frame EXCEPT ![w] = f]

\* The store object of subscription r after a call, persisted to its file.
SetStore(r, s) ==
    /\ stores' = [stores EXCEPT ![r] = s]
    /\ files' = [files EXCEPT ![r.name] = s.state]

\* Sessions that are created and not yet in their handler's file.
InHand == {frame[w].sid : w \in {v \in Worker : frame[v].pc \in {"bind", "add"}}}

Registered(h) == \E i \in DOMAIN subs : subs[i].name = h

\* Caller w is past reading the binding of key k of handler h.
Works(w, h, k) ==
    /\ frame[w].pc \in {"alive", "create", "bind", "add", "send"}
    /\ Current(w).name = h /\ Keyed(h) /\ frame[w].event.key = k

\* The key of the caller's event is split under the condition given.
Splits(w, condition) ==
    split' = IF condition /\ Keyed(Current(w).name)
             THEN split \cup {<<Current(w).name, frame[w].event.key>>} ELSE split

\* Subscription r is in the snapshot of a caller that has yet to leave it.
InUse(r) == \E w \in Worker : \E i \in DOMAIN frame[w].todo : frame[w].todo[i] = r

\* The store objects, those of h that nobody refers to any more collected.
Collected(h) == [r \in Ref |-> IF r.name = h /\ ~InUse(r) THEN None ELSE stores[r]]

-----------------------------------------------------------------------------
(* The list of subscriptions.  Register loads the file into a new object;   *)
(* Unregister drops the entry and leaves the file.                          *)

\* A call of Dispatch, Retry or Unregister begins.
Call == calls < MaxCalls /\ calls' = calls + 1

Register(h) ==
    /\ ~Registered(h)
    /\ \E o \in Object :
        LET r == [name |-> h, obj |-> o]
        IN  /\ ~InUse(r)
            /\ stores' = [Collected(h) EXCEPT ![r] = NewSubStore(files[h], MaxEntries, 0)]
            /\ subs' = Append(subs, r)
    /\ forked' = IF \E r \in Ref : r.name = h /\ InUse(r) THEN forked \cup {h} ELSE forked
    /\ UNCHANGED <<files, frame, status, turns, owner, newest, split, orphans, errors, calls, crashes>>

\* A dispatch under way keeps its subscription and the store object behind it.
Unregister(h) ==
    /\ h \in Removable
    /\ Call
    /\ \E i \in DOMAIN subs :
        /\ subs[i].name = h
        /\ subs' = RemoveAt(subs, i)
    /\ stores' = Collected(h)
    /\ UNCHANGED <<files, frame, status, turns, owner, history, errors, crashes>>

-----------------------------------------------------------------------------
(* Dispatch and Retry, up to the resolution of a session.                   *)

\* Dispatch takes its snapshot of the subscriptions.  An event beyond the hop
\* limit, or one nobody matches, returns and changes nothing.
Dispatch(w, e) ==
    /\ At(w, "idle")
    /\ Call
    /\ e.hop <= MaxHop
    /\ \E i \in DOMAIN subs : e \in Matches[subs[i].name]
    /\ SetFrame(w, [IdleFrame EXCEPT !.pc = "mark", !.event = e, !.todo = subs])
    /\ UNCHANGED <<subs, stores, files, status, turns, owner, history, errors, crashes>>

\* The newest admissions of handler h once id is one of them.
Admitted(h, id) ==
    [newest EXCEPT ![h] = IF Len(@) < WindowSize(MaxEntries) THEN Append(@, id)
                          ELSE Append(Tail(@), id)]

\* The loop passes over a subscription that does not match, and over one that
\* has seen the event.
MarkSeenStep(w) ==
    LET r       == Current(w)
        id      == frame[w].event.id
        matches == frame[w].event \in Matches[r.name]
    IN  /\ At(w, "mark")
        /\ \/ /\ matches /\ IsNew(stores[r], id, 0)
              /\ SetStore(r, MarkSeen(stores[r], id, 0))
              /\ SetFrame(w, [frame[w] EXCEPT !.pc = "record"])
              /\ newest' = Admitted(r.name, id)
           \/ /\ ~matches \/ ~IsNew(stores[r], id, 0)
              /\ SetFrame(w, NextHandler(frame[w]))
              /\ UNCHANGED <<stores, files, newest>>
        /\ UNCHANGED <<subs, status, turns, owner, forked, split, orphans, errors, calls, crashes>>

RecordEventStep(w) ==
    LET r == Current(w)
        e == frame[w].event
    IN  /\ At(w, "record")
        /\ SetStore(r, RecordEvent(stores[r], PolicyKey(r.name, e), e))
        /\ SetFrame(w, Resolve(frame[w], e))
        /\ UNCHANGED <<subs, status, turns, owner, history, errors, calls, crashes>>

\* Retry finds its handler.  A target that selects nothing and a handler that
\* is not registered return an error and change nothing.
Retry(w, h, target, fresh) ==
    /\ At(w, "idle")
    /\ Call
    /\ target.id # None \/ target.key # None \/ target.subject # None
    /\ \E i \in DOMAIN subs :
        /\ subs[i].name = h
        /\ SetFrame(w, [IdleFrame EXCEPT !.pc = "lookup", !.via = "retry", !.todo = <<subs[i]>>,
                                         !.target = target, !.fresh = fresh])
    /\ UNCHANGED <<subs, stores, files, status, turns, owner, history, errors, crashes>>

LookupStep(w) ==
    LET e == LookupEvent(stores[Current(w)], frame[w].target)
        f == [frame[w] EXCEPT !.target = None, !.fresh = FALSE]
    IN  /\ At(w, "lookup")
        /\ SetFrame(w, IF e = None THEN IdleFrame
                       ELSE IF frame[w].fresh /\ Keyed(Current(w).name)
                       THEN [Resolve(f, e) EXCEPT !.pc = "unbind"]
                       ELSE Resolve(f, e))
        /\ UNCHANGED <<subs, stores, files, status, turns, owner, history, errors, calls, crashes>>

\* unbind writes the file only when the key was bound: then nothing changes.
UnbindStep(w) ==
    LET r == Current(w)
        k == frame[w].event.key
    IN  /\ At(w, "unbind")
        /\ IF stores[r].state.bindings[k] # None
           THEN SetStore(r, Unbind(stores[r], k))
           ELSE UNCHANGED <<stores, files>>
        /\ Splits(w, stores[r].state.bindings[k] # None)
        /\ SetFrame(w, [frame[w] EXCEPT !.pc = ResolveAt(r.name)])
        /\ UNCHANGED <<subs, status, turns, owner, newest, forked, orphans, errors, calls, crashes>>

-----------------------------------------------------------------------------
(* resolve() of a keyed policy.                                             *)

ReadBinding(w) ==
    LET sid == stores[Current(w)].state.bindings[frame[w].event.key]
    IN  /\ At(w, "binding")
        /\ SetFrame(w, IF sid = None THEN [frame[w] EXCEPT !.pc = "create"]
                       ELSE [frame[w] EXCEPT !.pc = "alive", !.sid = sid])
        /\ Splits(w, \E v \in Worker : Works(v, Current(w).name, frame[w].event.key))
        /\ UNCHANGED <<subs, stores, files, status, turns, owner, newest, forked, orphans, errors, calls, crashes>>

\* alive(): a summary that cannot be read counts as a dead session.
CheckAlive(w) ==
    LET f == frame[w]
    IN  /\ At(w, "alive")
        /\ \/ /\ status[f.sid] = "live"
              /\ SetFrame(w, Deliver([f EXCEPT !.reused = TRUE]))
              /\ UNCHANGED split
           \/ /\ status[f.sid] # "live" \/ "summary" \in Faults
              /\ SetFrame(w, [f EXCEPT !.pc = "create", !.sid = None])
              /\ Splits(w, status[f.sid] = "live")
        /\ UNCHANGED <<subs, stores, files, status, turns, owner, newest, forked, orphans, errors, calls, crashes>>

-----------------------------------------------------------------------------
(* resolveRouted().                                                         *)

ReadRecent(w) ==
    /\ At(w, "recent")
    /\ SetFrame(w, [frame[w] EXCEPT !.pc = "summary", !.cands = {},
                      !.listed = RecentCreated(stores[Current(w)], MaxCandidates)])
    /\ UNCHANGED <<subs, stores, files, status, turns, owner, history, errors, calls, crashes>>

\* The summary of one more candidate, which stays one if it can be read and is reusable.
ReadSummary(w, s) ==
    LET f == [frame[w] EXCEPT !.listed = @ \ {s}]
    IN  /\ At(w, "summary")
        /\ s \in frame[w].listed
        /\ \/ status[s] = "live" /\ SetFrame(w, [f EXCEPT !.cands = @ \cup {s}])
           \/ /\ status[s] # "live" \/ "summary" \in Faults
              /\ SetFrame(w, f)
        /\ UNCHANGED <<subs, stores, files, status, turns, owner, history, errors, calls, crashes>>

\* Mutant: the router's choice is reused without a look at the candidates.
RouterTrusted(w) ==
    /\ At(w, "summary") /\ frame[w].listed = {}
    /\ \E choice \in {s \in Session : status[s] # "unused"} \cup {None}, prompt \in BOOLEAN :
        LET f == [frame[w] EXCEPT !.prompt = @ \/ prompt, !.cands = {}]
        IN  SetFrame(w, IF choice # None
                        THEN Deliver([f EXCEPT !.sid = choice, !.reused = TRUE])
                        ELSE [f EXCEPT !.pc = "create"])
    /\ UNCHANGED <<subs, stores, files, status, turns, owner, history, errors, calls, crashes>>

\* routerDecide(): the router agent names any session or none, and may supply
\* the prompt; a reply that is no decision is an empty one.  Only a candidate
\* is reused.
RouterDecide(w) ==
    /\ At(w, "summary") /\ frame[w].listed = {}
    /\ \E choice \in Session \cup {None}, prompt \in BOOLEAN :
        LET f == [frame[w] EXCEPT !.prompt = @ \/ prompt, !.cands = {}]
        IN  SetFrame(w, IF choice \in frame[w].cands
                        THEN Deliver([f EXCEPT !.sid = choice, !.reused = TRUE])
                        ELSE [f EXCEPT !.pc = "create"])
    /\ UNCHANGED <<subs, stores, files, status, turns, owner, history, errors, calls, crashes>>

-----------------------------------------------------------------------------
(* A new session, for resolve() and, after a reused session rejected a      *)
(* turn, for refresh(): create it, re-point the binding of a keyed policy   *)
(* and add it to the candidates.                                            *)

\* What a session of handler h for event e is created for.
OwnerOf(h, e) == [name |-> h, key |-> PolicyKey(h, e)]

\* The runtime hands out session s for the caller's event.
HandOut(w, s) ==
    /\ status[s] = "unused"
    /\ status' = [status EXCEPT ![s] = "live"]
    /\ owner' = [owner EXCEPT ![s] = OwnerOf(Current(w).name, frame[w].event)]

CreateSession(w) ==
    /\ At(w, "create")
    /\ \E s \in Session :
        /\ HandOut(w, s)
        /\ SetFrame(w, [frame[w] EXCEPT !.pc = IF Keyed(Current(w).name) THEN "bind" ELSE "add",
                                        !.sid = s, !.reused = FALSE])
    /\ UNCHANGED <<subs, stores, files, turns, history, errors, calls, crashes>>

\* Mutant: the session is resolved again until its creation succeeds.
CreateRetried(w) ==
    /\ At(w, "create") /\ "create" \in Faults
    /\ SetFrame(w, Resolve(frame[w], frame[w].event))
    /\ UNCHANGED <<subs, stores, files, status, turns, owner, history, errors, calls, crashes>>

\* Nothing was created, or a session was and its answer lost: the bus cannot tell,
\* and never learns the id.  The runtime also refuses when the model has no session
\* left.
CreateFails(w) ==
    /\ At(w, "create")
    /\ \/ /\ "create" \in Faults \/ \A s \in Session : status[s] # "unused"
          /\ UNCHANGED <<status, owner, orphans>>
       \/ /\ "create" \in Faults
          /\ \E s \in Session : HandOut(w, s) /\ orphans' = orphans \cup {s}
    /\ ReportError(w)
    /\ SetFrame(w, NextHandler(frame[w]))
    /\ UNCHANGED <<subs, stores, files, turns, newest, forked, split, calls, crashes>>

BindStep(w) ==
    LET r == Current(w)
    IN  /\ At(w, "bind")
        /\ SetStore(r, Bind(stores[r], frame[w].event.key, frame[w].sid))
        /\ SetFrame(w, [frame[w] EXCEPT !.pc = "add"])
        /\ UNCHANGED <<subs, status, turns, owner, history, errors, calls, crashes>>

AddCreatedStep(w) ==
    LET r == Current(w)
    IN  /\ At(w, "add")
        /\ SetStore(r, AddCreated(stores[r], frame[w].sid))
        /\ SetFrame(w, Deliver(frame[w]))
        /\ UNCHANGED <<subs, status, turns, owner, history, errors, calls, crashes>>

-----------------------------------------------------------------------------
(* SendUserMessage, and the recovery of a reused session that rejected it.  *)

\* The caller's session accepts the turn.
Accept(w) ==
    turns' = [turns EXCEPT ![frame[w].sid] =
                Append(@, [name |-> Current(w).name, id |-> frame[w].event.id, via |-> frame[w].via,
                           key |-> PolicyKey(Current(w).name, frame[w].event)])]

\* A reused session is replaced once, by refresh(), dead or not; otherwise the error
\* is the result.  lost: the session took the turn.
SendFailed(w, lost) ==
    \/ /\ frame[w].reused
       /\ SetFrame(w, [frame[w] EXCEPT !.pc = "create", !.sid = None, !.reused = FALSE, !.doubt = lost])
       /\ Splits(w, status[frame[w].sid] = "live")
       /\ UNCHANGED errors
    \/ /\ ~frame[w].reused
       /\ SetFrame(w, NextHandler(frame[w]))
       /\ UNCHANGED split
       /\ ReportError(w)

SendAccepted(w) ==
    /\ At(w, "send")
    /\ status[frame[w].sid] = "live"
    /\ Accept(w)
    /\ SetFrame(w, NextHandler(frame[w]))
    /\ UNCHANGED <<subs, stores, files, status, owner, history, errors, calls, crashes>>

SendRejected(w) ==
    /\ At(w, "send")
    /\ status[frame[w].sid] # "live" \/ "rejected" \in Faults
    /\ SendFailed(w, FALSE)
    /\ UNCHANGED <<subs, stores, files, status, turns, owner, newest, forked, orphans, calls, crashes>>

\* The turn is accepted and its answer lost: the bus sees an error.
SendReplyLost(w) ==
    /\ At(w, "send")
    /\ "lost_reply" \in Faults
    /\ status[frame[w].sid] = "live"
    /\ Accept(w)
    /\ SendFailed(w, TRUE)
    /\ UNCHANGED <<subs, stores, files, status, owner, newest, forked, orphans, calls, crashes>>

-----------------------------------------------------------------------------
(* The environment.                                                         *)

SessionDies(s) ==
    /\ "death" \in Faults
    /\ status[s] = "live"
    /\ status' = [status EXCEPT ![s] = "dead"]
    /\ UNCHANGED <<subs, stores, files, frame, turns, owner, history, errors, calls, crashes>>

\* The process ends: the files and the runtime's sessions stay.
Crash ==
    /\ crashes < MaxCrashes
    /\ crashes' = crashes + 1
    /\ subs' = <<>>
    /\ stores' = [r \in Ref |-> None]
    /\ orphans' = orphans \cup InHand
    /\ frame' = [w \in Worker |-> IdleFrame]
    /\ UNCHANGED <<files, status, turns, owner, newest, forked, split, errors, calls>>

-----------------------------------------------------------------------------
\* A caller's next step, once it has begun.
Step(w) ==
    \/ MarkSeenStep(w) \/ RecordEventStep(w) \/ LookupStep(w) \/ UnbindStep(w)
    \/ ReadBinding(w) \/ CheckAlive(w)
    \/ ReadRecent(w) \/ (\E s \in Session : ReadSummary(w, s)) \/ RouterDecide(w)
    \/ CreateSession(w) \/ CreateFails(w) \/ BindStep(w) \/ AddCreatedStep(w)
    \/ SendAccepted(w) \/ SendRejected(w) \/ SendReplyLost(w)

Next ==
    \/ \E h \in Handler : Register(h) \/ Unregister(h)
    \/ \E w \in Worker, e \in Event : Dispatch(w, e)
    \/ \E w \in Worker, h \in Handler, t \in Targets, fresh \in FreshChoices : Retry(w, h, t, fresh)
    \/ \E w \in Worker : Step(w)
    \/ \E s \in Session : SessionDies(s)
    \/ Crash

Spec == Init /\ [][Next]_vars

\* Goroutines are scheduled, and every call of the driver ends: it has a timeout.
FairSpec == Spec /\ \A w \in Worker : WF_vars(Step(w))

-----------------------------------------------------------------------------
TypeOK ==
    /\ subs \in Seq(Ref)
    /\ stores \in [Ref -> Store \cup {None}]
    /\ files \in [Handler -> State]
    /\ frame \in [Worker -> Frame]
    /\ status \in [Session -> {"unused", "live", "dead"}]
    /\ turns \in [Session -> Seq(Turn)]
    /\ owner \in [Session -> [name : Handler, key : Key \cup {None}] \cup {None}]
    /\ newest \in [Handler -> Seq(EventId)]
    /\ forked \subseteq Handler /\ split \subseteq Handler \X Key
    /\ orphans \subseteq Session
    /\ errors \subseteq Handler \X EventId
    /\ calls \in Nat /\ crashes \in Nat

\* A session carries one conversation: every turn it ever accepts is of the
\* handler, and for a keyed policy of the key, it was created for, whatever
\* bindings were overwritten, dropped or re-read while the turn was on its way.
SessionIsolation ==
    \A s \in Session : \A i \in DOMAIN turns[s] :
        owner[s] = [name |-> turns[s][i].name, key |-> turns[s][i].key]

\* A binding on disk, which the next process will trust, names a session that
\* was created for that handler and that key.
BindingsOwned ==
    \A h \in Handler, k \in Key :
        LET s == files[h].bindings[k]
        IN  s # None => owner[s] = [name |-> h, key |-> k]

\* No session leaks whose id the bus learned: each is in its handler's file or about
\* to be, through refreshes, re-bindings and restarts.  The orphans are those whose
\* creator crashed before it wrote the id down or never got the answer; the file of a
\* handler that was registered again under a running dispatch may lose entries.
CreatedSessionsKnown ==
    \A s \in Session :
        owner[s] # None =>
            \/ s \in Range(files[owner[s].name].created) \cup InHand \cup orphans
            \/ owner[s].name \in forked

\* A stateless handler never reuses a session: not for another event, not for
\* the retry of the same one.
StatelessSessionsAreFresh ==
    \A s \in Session :
        owner[s] # None /\ Policy[owner[s].name] = "stateless" => Len(turns[s]) <= 1

\* Events with the same key share one session, as EVENTBUS-SPEC.md says of a keyed
\* policy: no two live sessions of one handler and key have both accepted a turn.
OneSessionPerKey ==
    \A s1, s2 \in {s \in Session : status[s] = "live" /\ turns[s] # <<>>} :
        s1 # s2 /\ owner[s1] = owner[s2] => ~Keyed(owner[s1].name)

\* And what the code makes of it: a key gets a second session in four cases only, and
\* no order of callers, deaths, failed or lost creations, crashes and registrations
\* adds a fifth.  Split: an operator asked for a fresh one; an error of a live session
\* was taken for its death, by alive() or by the recovery of a turn; a caller read
\* the binding while another was between reading it and its turn.  Forked: the handler
\* was registered again under a running dispatch.
KeySplitsAlone ==
    \A s1, s2 \in {s \in Session : status[s] = "live" /\ turns[s] # <<>>} :
        s1 # s2 /\ owner[s1] = owner[s2] /\ Keyed(owner[s1].name) =>
            <<owner[s1].name, owner[s1].key>> \in split \/ owner[s1].name \in forked

-----------------------------------------------------------------------------
(* What becomes of an event.                                                *)

\* Caller w holds the admission of an event and has not delivered it.
Claiming(w) == frame[w].via = "dispatch" /\ frame[w].pc \notin {"idle", "mark"}

Claims(h, id) ==
    {w \in Worker : Claiming(w) /\ Current(w).name = h /\ frame[w].event.id = id}

\* Marked as seen, and in nobody's hands.
Spent(h, id) == Claims(h, id) = {} /\ id \in Ids(files[h].seen)

\* The turns that dispatches drove.  Those of a retry are an operator's.
Driven(h, id) ==
    {p \in UNION {{s} \X DOMAIN turns[s] : s \in Session} :
        LET t == turns[p[1]][p[2]]
        IN  t.name = h /\ t.id = id /\ t.via = "dispatch"}

\* No event is dropped in silence: one that is marked seen and in nobody's
\* hands was driven, or its error was returned, or it has no prompt.
NothingDropped ==
    \A h \in Handler, id \in EventId :
        Spent(h, id) =>
            \/ Driven(h, id) # {} \/ <<h, id>> \in errors
            \/ \E e \in Silent[h] : e.id = id

\* Registering a name again resumes its dedup window: the store that serves a handler
\* knows the newest events, as many as the window holds, that any store object of that
\* name ever admitted, through rotation, crashes and any order of Unregister and
\* Register; unless Register came while a caller still used the object before.
DedupWindowResumes ==
    \A i \in DOMAIN subs :
        LET h == subs[i].name
        IN  h \notin forked => Range(newest[h]) \subseteq stores[subs[i]].index

Ledger == INSTANCE EventLedger WITH
    Claimant  <- Worker,
    Size      <- WindowSize(MaxEntries),
    window    <- newest,
    claim     <- [w \in Worker |->
                    IF Claiming(w)
                    THEN [name |-> Current(w).name, id |-> frame[w].event.id, doubt |-> frame[w].doubt]
                    ELSE None],
    delivered <- [h \in Handler |-> [id \in EventId |-> Cardinality(Driven(h, id))]],
    void      <- forked

\* Dispatches drive an event once per window: each turn takes an admission of its own,
\* a second one only the admission whose first answer was lost, and no event among the
\* newest admitted is admitted again.  This holds over any interleaving of callers,
\* rotations, lost answers and crashes; a handler registered again under a running
\* dispatch keeps the count of turns per admission and loses its window.
AtMostOnce == Ledger!ELSpec

\* Every call of Dispatch and Retry returns.
CallsReturn == \A w \in Worker : ~At(w, "idle") ~> At(w, "idle")
=============================================================================
