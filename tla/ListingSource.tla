---------------------------- MODULE ListingSource ----------------------------
(***************************************************************************)
(* The sources that list everything at each tick and leave it to the bus   *)
(* to drop what it knows: codehub-pr (source_codehub.go), workitem         *)
(* (source_workitem.go), and an exec plugin of the same pattern            *)
(* (source_exec.go).  An event's id holds the item's mutable version; what *)
(* a handler wants is its MatchSpec (spec.go).                             *)
(*                                                                         *)
(* The CodeHub source asks for the list, then for the commits of each pull *)
(* request, then for its merge status, and the upstream changes between    *)
(* any two of these requests.  The others ask once.                        *)
(*                                                                         *)
(* A handler's dedup window is as large as it has to be, and Dispatch is   *)
(* one step: StoreLifecycle and EventBus are about these.                  *)
(***************************************************************************)
EXTENDS Integers, Sequences, FiniteSets, FiniteSetsExt

CONSTANTS Item,
          Nameless,             \* items without any of the id fields, entries without an id
          Drafts,               \* pull requests that may have no commits at first
          Date,                 \* of a commit; a later one is a greater number
          Sources,              \* the configurations the source may have
          MatchSpecs, None,     \* the match of a handler, None when it is not registered
          Handler,
          PageSize,             \* of the workitem list, of which one page is read
          Changing, MaxChanges  \* bounds: which items change; how often they and the handlers do

Field == {"head", "status", "modified"}

ASSUME ItemAssumption == IsFiniteSet(Item) /\ Nameless \subseteq Item /\ Drafts \subseteq Item
ASSUME DateAssumption == Date \subseteq Nat /\ Date # {}
ASSUME SourceAssumption ==
    Sources \subseteq [type : {"codehub-pr", "workitem", "exec"}, mergeStatus : BOOLEAN,
                       version : Field, allow : SUBSET Item]
ASSUME BoundsAssumption == PageSize \in Nat \ {0} /\ MaxChanges \in Nat
ASSUME MatchAssumption == None \notin MatchSpecs
ASSUME ChangingAssumption == Changing \subseteq Item

VARIABLES source,               \* the configuration
          match,                \* of each handler
          item,                 \* the upstream
          fetch,                \* the tick under way
          seen, driven,         \* per handler: its dedup window, the ids it was driven by
          turns,                \* per handler and item: how many turns
          settled,              \* items as they were since before the last whole tick began
          due,                  \* handler and item: it became conflicted since its last turn
          moves,                \* of each item: changes of what its id holds
          changes

upstreamVars == <<item, moves, changes>>
busVars == <<match, seen, driven, turns>>
vars == <<source, upstreamVars, busVars, fetch, settled, due>>

Status == {"mergeable", "conflict"}

\* The items listed, and those of them to be read yet; the one whose merge status is
\* asked for next, and its head; the events; what changed since the tick began.
NoTick == [pc |-> "wait", listed |-> {}, todo |-> {}, at |-> None, head |-> 0, out |-> {}, touched |-> {}]

Init ==
    /\ source \in Sources
    /\ match \in [Handler -> MatchSpecs]
    /\ \E empty \in SUBSET Drafts :
        item = [n \in Item |-> [shown |-> TRUE, status |-> "mergeable", modified |-> 0,
                               commits |-> IF n \in empty THEN <<>> ELSE <<Min(Date)>>]]
    /\ fetch = NoTick
    /\ seen = [h \in Handler |-> {}] /\ driven = [h \in Handler |-> {}]
    /\ turns = [h \in Handler |-> [n \in Item |-> 0]]
    /\ settled = {}
    /\ due = {}
    /\ moves = [n \in Item |-> 0]
    /\ changes = 0

-----------------------------------------------------------------------------
(* What an event is made of.                                                *)

IsCodeHub == source.type = "codehub-pr"

\* pickField: the configured version field, or the first candidate there is (the
\* time of the last change); a plugin chooses for itself.
PickField == {source.version}

\* Mutant: the time of the last change is part of the version.
PartsWithTime == IF IsCodeHub THEN {"head", "modified"} ELSE PickField

\* The fields that Event.ID holds.
Parts ==
    IF IsCodeHub THEN {"head"} \cup (IF source.mergeStatus THEN {"status"} ELSE {})
    ELSE PickField

\* The fields handlers can match on; the merge status is asked for on demand.
PayloadFields == IF IsCodeHub THEN Parts ELSE Field

\* headSHA: the commit with the latest date, the newest of several.  (The list is
\* newest first, and sort.Slice keeps the order of equals in short lists.)
HeadSHA(n) ==
    LET dates == item[n].commits
    IN  IF dates = <<>> THEN 0
        ELSE Max({i \in DOMAIN dates : \A j \in DOMAIN dates : dates[j] <= dates[i]})

\* All that the upstream says of an item.
View(n) == [head |-> HeadSHA(n), status |-> item[n].status, modified |-> item[n].modified]

Event(n, view) ==
    [id      |-> [item |-> n, version |-> [p \in Parts |-> view[p]]],
     type    |-> source.type,     \* pr, workitem: each source names its events
     subject |-> n,
     payload |-> [f \in PayloadFields |-> view[f]]]

\* lookupPath and stringify: a path that the payload lacks is no match.
PayloadHas(e, f, value) == f \in DOMAIN e.payload /\ e.payload[f] = value

\* compile(): an exact type, a glob on the subject (the set of those it matches),
\* and values of payload fields, all of them optional and all of them required.
Matches(m, e) ==
    /\ m # None
    /\ m.type = "" \/ e.type = m.type
    /\ m.subjects = {} \/ e.subject \in m.subjects
    /\ \A f \in DOMAIN m.equals : PayloadHas(e, f, m.equals[f])

Allowed(n) == source.allow = {} \/ n \in source.allow

Shown == {n \in Item : item[n].shown}

CurrentEvent(n) == Event(n, View(n))

\* The event of the item as it is now would be dispatched to the handler.
Wants(h, n) ==
    /\ n \in Shown /\ (IF IsCodeHub THEN Allowed(n) /\ HeadSHA(n) # 0 ELSE n \notin Nameless)
    /\ Matches(match[h], CurrentEvent(n))

-----------------------------------------------------------------------------
(* The upstream.                                                            *)

Change(n, after) ==
    /\ changes < MaxChanges
    /\ changes' = changes + 1
    /\ item' = [item EXCEPT ![n] = [after EXCEPT !.modified = @ + 1]]
    /\ fetch' = [fetch EXCEPT !.touched = @ \cup {n}]
    /\ settled' = settled \ {n}
    /\ UNCHANGED <<source, busVars>>

Moves(n, counts) == moves' = IF counts THEN [moves EXCEPT ![n] = @ + 1] ELSE moves

\* A commit, made before it is pushed, on a machine with a clock of its own.
Push(n, date) ==
    /\ IsCodeHub
    /\ Change(n, [item[n] EXCEPT !.commits = Append(@, date)])
    /\ Moves(n, TRUE)
    /\ UNCHANGED due

\* The target branch moves; or somebody moves a work item on.
SetStatus(n, status) ==
    /\ item[n].status # status
    /\ Change(n, [item[n] EXCEPT !.status = status])
    /\ Moves(n, IsCodeHub => source.mergeStatus)
    /\ due' = IF status = "conflict" /\ source.mergeStatus THEN due \cup (Handler \X {n})
              ELSE due \ (Handler \X {n})

\* A comment, the agent's own as well.
Remark(n) == Change(n, item[n]) /\ Moves(n, FALSE) /\ UNCHANGED due

\* Closed and reopened, or in and out of the source's filters.
Show(n, shown) ==
    /\ item[n].shown # shown
    /\ Change(n, [item[n] EXCEPT !.shown = shown])
    /\ Moves(n, FALSE)
    /\ UNCHANGED due

-----------------------------------------------------------------------------
(* The handlers.                                                            *)

SetMatch(h, m) ==
    /\ match' = [match EXCEPT ![h] = m]
    /\ changes < MaxChanges
    /\ changes' = changes + 1
    /\ fetch' = [fetch EXCEPT !.touched = Item]
    /\ settled' = {}
    /\ UNCHANGED <<source, item, moves, seen, driven, turns, due>>

AddHandler(h, m) == match[h] = None /\ m # None /\ SetMatch(h, m)

\* The handler's file remains.
RemoveHandler(h) == match[h] # None /\ SetMatch(h, None)

-----------------------------------------------------------------------------
(* A tick: Fetch of the source, and the poller's dispatches.                *)

FetchStep == UNCHANGED <<source, upstreamVars, busVars, settled, due>>

StartTick ==
    /\ fetch.pc = "wait"
    /\ fetch' = [NoTick EXCEPT !.pc = "list"]
    /\ FetchStep

\* listPRs
ListPRs ==
    /\ fetch.pc = "list" /\ IsCodeHub
    /\ fetch' = [fetch EXCEPT !.pc = "read", !.listed = Shown, !.todo = Shown]
    /\ FetchStep

\* The events of a source that asks once.
ListedAtOnce(page) ==
    /\ fetch.pc = "list"
    /\ fetch' = [fetch EXCEPT !.pc = "read", !.listed = page,
                              !.out = {CurrentEvent(n) : n \in page \ Nameless}]
    /\ FetchStep

\* The first page of the work items, whatever their order.
ListWorkItems ==
    /\ source.type = "workitem"
    /\ \E page \in SUBSET Shown :
        /\ Cardinality(page) = Min({PageSize, Cardinality(Shown)})
        /\ ListedAtOnce(page)

\* All that the plugin prints.
RunPlugin == source.type = "exec" /\ ListedAtOnce(Shown)

Reading(n) == fetch.pc = "read" /\ n \in fetch.todo

Skip(n) ==
    /\ Reading(n) /\ ~Allowed(n)
    /\ fetch' = [fetch EXCEPT !.todo = @ \ {n}]
    /\ FetchStep

\* Mutant: the merge status is in the payload and not in the id.
EmitByHead(n, view) ==
    LET e == Event(n, view)
    IN  fetch' = [fetch EXCEPT !.pc = "read", !.todo = @ \ {n}, !.at = None, !.head = 0,
                    !.out = @ \cup {[e EXCEPT !.id.version = [p \in {"head"} |-> view[p]]]}]

\* The item's event is complete.
Emit(n, view) ==
    fetch' = [fetch EXCEPT !.pc = "read", !.todo = @ \ {n}, !.at = None, !.head = 0,
                              !.out = @ \cup {Event(n, view)}]

ReadHead(n) ==
    /\ Reading(n) /\ Allowed(n) /\ HeadSHA(n) # 0
    /\ IF source.mergeStatus THEN fetch' = [fetch EXCEPT !.pc = "status", !.at = n, !.head = HeadSHA(n)]
                             ELSE Emit(n, View(n))
    /\ FetchStep

\* The head as it was, the merge status as it is now.
ReadStatus(n) ==
    /\ fetch.pc = "status" /\ fetch.at = n
    /\ Emit(n, [View(n) EXCEPT !.head = fetch.head])
    /\ FetchStep

\* A pull request without commits is an error.
NoCommits(n) ==
    /\ Reading(n) /\ Allowed(n) /\ HeadSHA(n) = 0
    /\ fetch' = NoTick
    /\ FetchStep

Fetched == fetch.pc = "read" /\ fetch.todo = {}

\* Any command may fail or print what does not parse: the tick ends, and the events
\* so far are dropped.
Fail ==
    /\ fetch.pc # "wait" /\ ~Fetched
    /\ fetch' = NoTick
    /\ FetchStep

\* A turn of each of the handlers.
Drive(handlers, e) ==
    /\ driven' = [h \in Handler |-> IF h \in handlers THEN driven[h] \cup {e.id} ELSE driven[h]]
    /\ turns' = [h \in Handler |-> IF h \in handlers THEN [turns[h] EXCEPT ![e.subject] = @ + 1] ELSE turns[h]]
    /\ due' = due \ (handlers \X {e.subject})
    /\ fetch' = [fetch EXCEPT !.out = @ \ {e}]

\* Mutant: the event is not marked.
DispatchNotMarking ==
    /\ Fetched
    /\ \E e \in fetch.out : Drive({h \in Handler : Matches(match[h], e) /\ e.id \notin seen[h]}, e)
    /\ UNCHANGED <<source, upstreamVars, match, seen, settled>>

\* Mutant: the event is marked before its match is looked at.
DispatchMarkingFirst ==
    /\ Fetched
    /\ \E e \in fetch.out :
        LET takers == {h \in Handler : Matches(match[h], e) /\ e.id \notin seen[h]}
        IN  /\ seen' = [h \in Handler |-> IF match[h] = None THEN seen[h] ELSE seen[h] \cup {e.id}]
            /\ Drive(takers, e)
    /\ UNCHANGED <<source, upstreamVars, match, settled>>

\* Dispatch: an event is a handler's if it matches and its id is new; one that does
\* not match is not marked.
DispatchNext ==
    /\ Fetched
    /\ \E e \in fetch.out :
        LET takers == {h \in Handler : Matches(match[h], e) /\ e.id \notin seen[h]}
        IN  /\ seen' = [h \in Handler |-> IF h \in takers THEN seen[h] \cup {e.id} ELSE seen[h]]
            /\ Drive(takers, e)
    /\ UNCHANGED <<source, upstreamVars, match, settled>>

TickDone ==
    /\ Fetched /\ fetch.out = {}
    /\ settled' = fetch.listed \ fetch.touched
    /\ fetch' = NoTick
    /\ UNCHANGED <<source, upstreamVars, busVars, due>>

\* The process ends and starts again: the stores remain, the batch does not.
Restart ==
    /\ fetch' = NoTick
    /\ UNCHANGED <<source, upstreamVars, busVars, settled, due>>

-----------------------------------------------------------------------------
Upstream(n) ==
    \/ \E d \in Date : Push(n, d)
    \/ \E s \in Status : SetStatus(n, s)
    \/ Remark(n)
    \/ \E b \in BOOLEAN : Show(n, b)

Read(n) == Skip(n) \/ ReadHead(n) \/ ReadStatus(n) \/ NoCommits(n)

Next ==
    \/ \E n \in Changing : Upstream(n)
    \/ \E n \in Item : Read(n)
    \/ \E h \in Handler : RemoveHandler(h) \/ (\E m \in MatchSpecs : AddHandler(h, m))
    \/ StartTick \/ ListPRs \/ ListWorkItems \/ RunPlugin \/ Fail \/ DispatchNext \/ TickDone
    \/ Restart

Spec == Init /\ [][Next]_vars

\* The poller ticks for ever and failures are transient: again and again a tick meets
\* none, but for a pull request that has no commits.
FairSpec == Spec /\ []<><<TickDone \/ \E n \in Item : NoCommits(n)>>_vars

-----------------------------------------------------------------------------
TypeOK ==
    /\ source \in Sources
    /\ match \in [Handler -> MatchSpecs \cup {None}]
    /\ item \in [Item -> [shown : BOOLEAN, commits : Seq(Date), status : Status, modified : Nat]]
    /\ fetch.pc \in {"wait", "list", "read", "status"}
    /\ fetch.todo \subseteq fetch.listed /\ fetch.listed \subseteq Item /\ fetch.touched \subseteq Item
    /\ fetch.at \in fetch.todo \cup {None} /\ fetch.head \in Nat
    /\ \A h \in Handler : driven[h] \subseteq seen[h]
    /\ turns \in [Handler -> [Item -> Nat]]
    /\ settled \subseteq Item /\ due \subseteq Handler \X Item
    /\ moves \in [Item -> Nat] /\ changes \in Nat

\* After a whole tick, every item that has not changed since before the tick began
\* has driven every handler that wants it as it is, also a handler that was added
\* when the item had long been listed, and whatever failed in earlier ticks.
SettledFires ==
    \A n \in settled, h \in Handler : Wants(h, n) => CurrentEvent(n).id \in driven[h]

\* An item drives a handler once, and once more for each push or change of status: its
\* comments, restarts, handlers that come and go and heads read before the status
\* they are combined with drive nothing more.  (A work item whose version is the
\* time of its last change is driven by comments too.)
TurnsBoundedByChanges ==
    IsCodeHub \/ source.version = "status" =>
        \A h \in Handler, n \in Item : turns[h][n] <= moves[n] + 1

\* A pull request that becomes conflicted fires again for the handlers of conflicts.
ConflictFires ==
    \A n \in settled, h \in Handler :
        Wants(h, n) /\ item[n].status = "conflict" => <<h, n>> \notin due

\* A pull request without commits fails every fetch; the page of work items may leave
\* some out.
Blocked ==
    IF IsCodeHub THEN \E n \in Shown : Allowed(n) /\ HeadSHA(n) = 0
    ELSE source.type = "workitem" /\ Cardinality(Shown) > PageSize

\* A handler that wants an item is driven by it as it is, sooner or later, although
\* commands fail now and then and the process restarts.
CurrentVersionReaches ==
    \A h \in Handler, n \in Item :
        Wants(h, n) ~> CurrentEvent(n).id \in driven[h] \/ ~Wants(h, n) \/ Blocked
=============================================================================
