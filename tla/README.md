# hetairoi: a TLA+ verification of the event bus

hetairoi receives events (GitHub and CodeHub items, webhooks, commands), and
drives one agent turn per event on a session chosen by the subscription's
policy. This directory holds TLA+ models of that core, the TLC instances that
check them, and proofs for TLAPS. Paths below are relative to the repository;
`bus.go` and the like without a directory are in `internal/eventbus/`.

## 1. The system

| part | state | operations | interacts with |
|---|---|---|---|
| **Subscription store** (`substore.go`) | bindings key → session, list of created sessions, dedup window `seen` with its index `set`, replay window `events`; one JSON file | `newSubStore`/`load`, `markSeen`, `binding`, `bind`, `unbind`, `recordEvent`, `lookupEvent`, `addCreated`, `recentCreated`, `persist` | called by the bus, under its own mutex; writes its file after every change |
| **Bus** (`bus.go`, `eventbus.go`) | the ordered list of subscriptions, each with its store object | `Register`, `Unregister`, `Dispatch`, `Retry`, `resolve`, `refresh`, `resolveRouted` | called concurrently by webhook requests, pollers and the control plane; calls the store and the driver with no lock held between the calls |
| **Session driver** (`internal/sdkdriver/driver.go`) | none of its own: the sessions of the agent runtime, and each call's place in a session's log | `CreateSession`, `SendUserMessage`, `SessionSummary`, `RunForReply` | requests that fail, time out, or succeed with their answer lost; a log that is read in pages while it grows |
| **Poller** (`source.go`) | none but its interval; what it fetched already is known by the handlers' dedup windows | `Run`, `tick`: fetch, dispatch each event, wait | calls `Bus.Dispatch`; ends some time after its context is cancelled |
| **Webhook ingress** (`webhook.go`) | none | decode, `Dispatch` | calls the bus |
| **Registry** (`registry.go`) | handler and source specs, one file for all of them (`_registry.json`), the cancel functions of the pollers | add, remove and list handlers and sources, boot | calls `Register`, `Unregister`; starts and stops pollers |
| **Specs** (`spec.go`) | none | match predicates, templates | called by the subscriptions the registry builds |
| **GitHub source** (`source_github.go`) | a `since` watermark | `Fetch`: a paged list, then a request or two for each item | called by the poller |
| **Listing sources** (`source_codehub.go`, `source_workitem.go`, `source_exec.go`) | none: what was returned already is in the handlers' dedup windows | `Fetch`: everything, at each tick; CodeHub asks for the commits and the merge status of each pull request | called by the poller |
| **HTTP API, entry point, configuration, `tools/`** | none | | |

What is hard here is not any one function. The store's methods are atomic and
the bus is not: between reading a binding, asking the runtime whether the session
lives, creating another, binding it and sending the turn, every other caller may
run, the session may die, the handler may be removed and registered again, and
the process may end. The file outlives all of it. So the properties that make
the system correct relate places far apart:

* *store*: the index agrees with the window; a reopened store answers like the
  one it replaces; an id is processed once per window over rotation, expiry,
  restarts and failed writes; what was seen can be retried, if dispatch is serial.
* *bus*: a turn that a dispatch drives has an admission of its own, and nothing in
  the window is admitted; sessions never mix handlers or keys; a key has one
  session but where the code itself gives one up; bindings on disk can be trusted;
  no session whose id is known is forgotten; no event is lost in silence; every
  call returns.
* *poller*: an item that does not change drives nothing while the window knows it,
  one that goes on being shown reaches every handler, and a cancelled goroutine
  ends.
* *registry*: what a request was answered stays true over restarts, and what is
  listed is what runs.
* *GitHub source*: the watermark never passes a change that was not returned, the
  agent's replies cause nothing, and fetching catches up.
* *listing sources*: an item that rests has driven every handler that wants it as
  it is; no handler is driven more often than the item moves.
* *store file*: what was reported as written is in the file, and the file changes
  in one step.
* *session driver*: a reply is a whole turn, although the log grows while it is
  read; a throwaway session is deleted on every way out; every call returns.

`PROJECT.json` lists the hazards one by one, each at its line.

## 2. The modules

```
SubStore ──────────┬── StoreLifecycle ── MCStoreLifecycle       store_window
 (operators)       │        │ Contract == INSTANCE             store_crossing
                   │        └── DedupWindow            (abstract)
                   ├── EventBus ── MCEventBus                   bus_*, key_race,
                   │        │ Ledger == INSTANCE WITH           crash_drop
                   │        └── EventLedger            (abstract)
                   └── ControlPlane ── MCControlPlane           control_plane
StoreFile ── MCStoreFile                                        store_file
Driver ── MCDriver                                              driver
GitHubSource ── MCGitHubSource                                  github_source
ListingSource ── MCListingSource                                listing_source,
                                                                conflict_returns
SubStore_proofs ─── StoreLifecycle_proofs, EventBus_proofs,
                    ControlPlane_proofs                         TLAPS
StoreFile_proofs, Driver_proofs, GitHubSource_proofs,
                    ListingSource_proofs                        TLAPS
```

**SubStore** is `substore.go` as operators on a store object, a record of
`state` (what the file holds), `index` (the map `set`), `maxSeen` and `ttl`.
Every method holds the object's mutex from its first line to its last, so a
method is one operator: `MarkSeen` with its two evictions, `RecordEvent` with
the removal of the older payload and the trim, `LookupEvent` with the order in
which its selectors are tried, `NewSubStore` with the default window size and the
rebuilt index. Two details that matter are kept: eviction by age stops at the
first entry that is young enough, and a duplicate evicts in memory without
persisting.

**StoreLifecycle** takes one store through its life. `Open` is `newSubStore`;
the `...Call` actions are the methods; `Drop` is the end of the process or
`Unregister`; `Tick` the clock. A dispatcher calls `markSeen` and then
`recordEvent`, two steps with others and crashes in between. `persist` may fail
(`PersistOutcomes`): every caller in the code ignores its error, so the memory
goes on and the file stays behind. `hist` and `durable` record what callers were
told, and `crossed` whether two of them were between their two calls at once; no
guard but the bound on admissions reads them.

**DedupWindow** says what a caller of `markSeen` relies on, without windows of
entries, indexes or files: an id is processed only when it is not among the
newest admissions, and a restart forgets only a suffix.

**EventBus** composes the stores, their files, the callers and the runtime. A
`Worker` is one goroutine in `Dispatch` or `Retry`. Its local variables are its
`frame`, whose `pc` names the next call it makes:

| step | code | step | code |
|---|---|---|---|
| `Dispatch` | the hop check and the snapshot | `ReadRecent` | `recentCreated` |
| `MarkSeenStep` | match and `markSeen` | `ReadSummary` | one candidate's `SessionSummary` |
| `RecordEventStep` | `recordEvent` | `RouterDecide` | `routerDecide`, `candidateContains` |
| `Retry`, `LookupStep` | find the handler, `lookupEvent` | `CreateSession`, `CreateFails` | `CreateSession`, of `resolve` and of `refresh` |
| `UnbindStep` | `unbind` of a fresh retry | `BindStep`, `AddCreatedStep` | `bind`, `addCreated` |
| `ReadBinding` | `binding` | `SendAccepted`, `SendRejected`, `SendReplyLost` | `SendUserMessage` and its recovery |
| `CheckAlive` | `alive` | `SessionDies`, `Crash` | the runtime, the process |

A subscription (`Ref`) is a name *and* a store object, because the code has two
objects for one name when a dispatch holds a snapshot across `Unregister` and
`Register`; both write the same file. The caller gets a fresh frame for each
subscription of its snapshot, as the loop body has fresh variables. `Unregister`
is free to come at any time; `Register` opens a new object, and a subscription
that a snapshot still names keeps its own (`InUse`, `Collected`).

The driver's calls fail in two ways each: a creation or a turn is refused, or it
is carried out and its answer lost (`CreateFails`, `SendReplyLost`). The bus
cannot tell the two apart.

Four variables record what happened, for the properties, and no step reads them:
`newest` (the newest events admitted for each handler, one window of them),
`forked` (handlers registered again while a caller still used an older object),
`split` (keys whose session was given up alive, or raced for) and `orphans`
(sessions whose id the bus never learned or lost in a crash before writing it).

**EventLedger** is what the bus promises of the turns it drives of its own accord,
without stores or sessions: a claimant admits an event that is not among the newest
admitted; a claim is worth one turn, or two when the first one's answer was lost;
a claim that ended is not renewed.

**ControlPlane** is the registry with the pollers it starts. `Boot`,
`RebuildHandler`, `RebuildSource` and `Serve` are `NewRegistry` and the start of
the HTTP server in `main`, handlers before sources; the sources rebuilt first
poll while others are being built, and a boot that fails half-way has had
effects; it ends in `Exit`, like a crash. A request is one step, as the registry's
mutex is held from its first line to its last: it changes what is live, then
`Persist` writes the one file or fails, and the answer (`acked`) says which.
`RemoveSource` cancels a context; the goroutine (`poller`) notices when it fetches or waits, not while it
dispatches its batch, and may run beside the poller of a source added again
under the same name. Each poller goes through `BeginFetch`, `FetchReturns` or
`FetchFails`, then `DispatchNext` for every event, `TickDone`, `NextTick` or `Stop`.
`DispatchNext` takes the snapshot of the subscriptions, each with its store object
(`Ref`, `OpenStore`); `MarkNext` and `RecordNext` mark and record for one of them at
a time, with requests and the other poller in between, so a dispatch under way goes
on with a handler that was removed, and with its old object when it was added again
(`forked`). The dedup windows are the stores of `SubStore`, opened from the files
that outlive a removed handler. `Change` is the upstream: it shows the latest
version of each of its items.

**GitHubSource** is one fetch after another of `source_github.go`, request by
request, over a repository that changes in between. `StartFetch` takes the time
that will be the next watermark; `ListPage`, `ListLastPage` and `ListTooLong` are
`listIssues`, whose pages are cut from the list *as it is when each is asked
for*; `ReadIssue`, `ReadPull` and `ReadVerdict` read one listed item now, with
the number of comments the list gave then (`LastPage`); `Finish` returns the
events and advances `since`; `Fail` is an error of any request. The repository
(`Push`, `Label`, `Post`, `Close`, `Reopen`) is external: each change moves
`updated_at`, on which the code relies by listing with `since`. `Authorized` is the
gate of a build: the label as the list showed it, and the owner's approval as the
page of comments shows it, or an issue of the owner's.

**StoreFile** is what one `persist` is made of: `OpenTemp` truncates the temporary
file, `Write` or `WriteFails` puts the state into it or a part of it, `Rename`
publishes it, and the process may end between any two of these. `Fail` is any
other call that returns an error. Two store objects of one name, which exist when
a dispatch still holds the old one, share the two file names but no lock, and a
descriptor follows its file through a rename. `persistLocked` of the registry is
the same code with one object. The process ends, the machine does not: nothing is
synced to the disk, and a loss of power is outside the model.

**Driver** is `RunForReply` and `SessionSummary`, request by request, over a
runtime that is external: a log for each session that only grows, served in
pages. A call is a record of what it has read; `Poll` is the head of the loop
with the deadline (`Expire`), `ReadTurn` a page of `readTurn`, which starts from
the first event at each round. `Delete` and `DeleteFails` are the deferred
delete, on every way out that comes after the create. `CreateFails`, `SendFails` and
`DeleteFails` include requests that were carried out and whose answer was lost.

**ListingSource** is the three sources that return everything at each tick, with
the poller's dispatches and the match predicates of `spec.go`, over an upstream
that changes in between. `ListPRs`, `ReadHead` and `ReadStatus` are CodeHub's
requests; `ListWorkItems` and `RunPlugin` are the sources that ask once. `Parts`
says what an event's id is made of, on which all depends: what is in the id and
what a handler can match on decide together whether a change reaches it.
`settled` holds the items that have not changed since before the last whole tick
began.

### What the model abstracts

* Prompts are empty or not; the router's prompt and reply text become a choice of
  any session or none and of a prompt or none. What it may name includes sessions
  of other handlers and sessions that do not exist.
* A subscription's `Match` and `Prompt` are the constants `Matches` and `Silent`.
* In `EventBus` a persist succeeds and the ttl is off: `StoreLifecycle` has both.
  Persisting is one step there and in `ControlPlane`: `StoreFile` shows when it is.
* `MaxHop` and `MaxCandidates` are the resolved values; `New` and `resolveRouted`
  replace a zero by a default.
* `binding` is a read of the map; a key that is not bound reads `None`.
* The runtime accepts a turn only in a live session and keeps what it accepted.
  `CreateSession` picks any unused id; the finite `Session` makes it also fail
  when none is left, which is a failure of the call like any other.
* In `ControlPlane` a dispatch is the calls of the stores: its turns succeed, the
  stores persist, and every handler matches every event. `EventBus` has the
  sessions and `StoreLifecycle` the writes. A request that is refused (a name that
  exists or does not, a spec that does not compile) changes nothing and is no
  step; a crash in the middle of a request is one just before it. A source
  returns all that its upstream shows, as the codehub, workitem and exec sources
  do; the GitHub source returns what changed since its watermark, so
  `EventsReachHandlers` says nothing of it, and `PushReaches` of `GitHubSource`
  takes its place.
* In `GitHubSource` time is in seconds, the unit of GitHub's timestamps and of
  `since`, and both clocks are one. Of the payloads there is whether a build
  is authorized, which handlers match on. Link headers and URLs are left out: a
  page has a next one or not. Comments are not deleted or edited, and the list is of open items, the
  default of `State`.
* In `StoreFile` a state is the set of changes made so far, each a number, and a
  file in which two writers' bytes mix is `Torn`, whatever they are.
* In `Driver` an event is its type; a text is the set of positions of the agent's
  messages, which tells a whole turn from a part of one, and one that holds
  something twice. The truncation of a summary's texts is left out, and so are the
  retries that the SDK makes inside a request.
* In `ListingSource` the dedup windows are as large as they have to be and a
  dispatch is one step: `StoreLifecycle` and `EventBus` are about these. A commit
  is its date; a glob on the subject is the set of subjects it matches; a page of
  work items is any set of its size, as nothing says how the list is sorted. The
  shapes of a reply that are tolerated, the environment and the scratch directory
  of a plugin are left out, and so is a plugin that keeps a cursor of its own.

## 3. The runs

| run | instance | shows |
|---|---|---|
| `store_window` | 2 callers, 3 ids, window 1 or 2 by opening, ttl 1, 2 ticks, 3 admissions, failing writes | the store implements `DedupWindow`; index, file, replay window and reopened store agree; what was seen can be retried unless two callers crossed |
| `store_crossing` | 2 callers, a window of 1, 2 admissions, nothing fails | *violation* of "retryable events track the dedup window" (`substore.go:170`, `docs/EVENTBUS-SOURCES.md:271`) |
| `bus_keyed` | 2 callers, 1 keyed handler, 2 keys with an event each, 2 sessions, a window of 1, 3 calls (dispatches, fresh and plain retries, removals), 2 store objects, failed and lost creations, rejected turns, lost answers, dying sessions, one crash | bindings do not cross keys or handlers; a session whose id was learned is not forgotten; a window resumes; a key splits only where the code gives its session up; the bus implements `EventLedger` |
| `bus_routed` | 2 callers, a routed and a stateless handler, 3 events below, at and beyond the hop limit, an empty prompt, 3 sessions, 2 candidates, 2 calls, failed and lost creations, unreadable summaries, rejected turns, lost answers | whatever the router names, a session stays with its handler; a stateless session takes one turn; without a crash no event is lost in silence; every call returns, through the recovery too |
| `key_race` | 2 callers, 2 events of one key | *violation* of "events with the same Key share one session" (`docs/EVENTBUS-SPEC.md:94`, and the serialization of `:200`) |
| `crash_drop` | 1 caller, one crash | *violation* of "a crash mid-loop resumes cleanly" (`docs/DESIGN.md:67`; `docs/EVENTBUS-SPEC.md:185` calls delivery at-least-once) |
| `control_plane` | 1 handler, 1 source, 2 pollers, 2 versions of an item in a window of 1, 2 store objects, 4 requests, failing writes, 1 crash or failed boot | acknowledged requests survive; one poller per listed source; nothing the window knows is driven again over ticks, restarts, overlapping pollers and dispatches under way across a removal; what is shown reaches the handler; pollers of removed sources end |
| `github_source` | an issue, a pull request and an unwanted one, one item to a page and two pages at most, two comments to a page, comments and a label from before, a stranger's too, 3 seconds, 2 changes, 1 restart | the watermark passes no push, verdict on the last page or issue change that was not returned, nor an approved build without its authorization; the agent's replies cause no event; a push is returned sooner or later |
| `store_file` | 2 objects of a name, 4 changes, 2 crashes, failing calls | the file changes in a rename alone and to a whole state, unless both objects had the temporary file open; what was reported as written stays |
| `listing_source` | CodeHub with and without merge status and with an allow list, work items, a plugin; 2 items, one without an id field, a page of 1, 3 changes, a catch-all handler and one for conflicts | an item that rests has driven the handlers that want it; a handler has no more turns than an item has changes; each version reaches its handlers, though commands fail and the process restarts |
| `conflict_returns` | 1 pull request, the handler of conflicts, 3 changes | *violation* of "a PR that *becomes* conflicted (target advanced) re-fires" (`docs/EVENTBUS-SOURCES.md:45`, `source_codehub.go:32`) |
| `driver` | 1 call at a time, a session at work and a throwaway, pages of 2, logs of 5 | a reply is a whole turn that ended in no error; throwaways are deleted; a summary misses nothing said before it was asked for; calls return |

### Properties

*Store.* `IndexMatchesWindow`, `ReloadAnswersAlike`, `ReplayWindowBounded`,
`SeenIsRetryable`, `RefusesOnlyTheWindow`, and the refinement `OncePerWindow`.
The last two are the two sides of dedup: nothing processed twice in a window,
nothing refused that is not in one. `EverySeenIsRetryable` is what `substore.go`
says of the replay window; `store_crossing` shows two callers break it.
`SeenIsRetryable` is what remains: it holds as long as no two callers were between
their two calls at once (`crossed`), whoever they are.

*Bus.* Several properties name the cases in which the code gives something up, and
the runs contain them: `BindingsOwned` without any; `CreatedSessionsKnown`, where
a crash or a lost answer leaves a session behind (`orphans`) and a handler
registered again under a running dispatch may lose an entry (`forked`);
`DedupWindowResumes`, with `forked` again, over rotation; `KeySplitsAlone`, the
cases in which a key gets a second live session (`split`, `forked`).
`OneSessionPerKey` is what `docs/EVENTBUS-SPEC.md` says instead, and `key_race`
refutes it without any fault. `AtMostOnce` is the refinement of `EventLedger`,
with rotation, lost answers, registrations and crashes in the run; the turns of
retries are an operator's and are not counted. `SessionIsolation` is run where it
is in most danger, with a router that names any session it likes (the proof covers
all policies), with `StatelessSessionsAreFresh`, `NothingDropped` (no crash; an
error that a poller is told of counts as reported, although the pollers that the
registry starts set no `onResult` and drop it) and `CallsReturn`.

*Control plane.* `AcknowledgedSurvives` (what was answered, against what is live
after any restart and other requests' failed writes), `OnePollerPerSource`,
`UnchangedDrivesNothing` (no event among the newest that a handler processed, as
many as its window holds, is processed again, unless the handler was added again
under a dispatch; the run has two versions in a window of one, so the item does
rotate out and is then driven again, which the property allows), and the liveness
properties `EventsReachHandlers` and `PollersEnd`.

*GitHub source.* `PushesFire`, `VerdictsFire` and `IssuesFire` relate the
watermark to what was returned: nothing may be behind the one and not among the
other. They are stated unless `torn`: an item that is closed while the list is
read moves the rest up by one, and a fetch that succeeds has then skipped the
first item of the next page; the watermark passes it, and without the exception
TLC finds that. Of the comments the code reads the last page, as the count
of the list gives it: `VerdictsFire` speaks of a verdict that is on it (`Newest`),
and so does `BuildsFire` of an approval. The run crosses the boundary, with two
comments to a page; without `Newest` TLC finds a verdict, and an approval, that a
later comment hides (section 5). `IssuesFire` asks for no event when the latest
comment is the agent's, nor when the latest change is a stranger's comment
(`CallsForEvent`): the code comments say that such a comment is no trigger, and
whether it returns an event all the same is section 5's subject.
`BuildsFire` is about the payload: the first three speak of ids, and two changes in
one second share one, so a fetch between them may have returned the id without the
authorization that the second brings; the next fetch returns it again, with it.
(A handler that matches on `authorized` has not marked the first, and gets the
second; one that matches both drops it as seen.) `AgentRepliesDriveNothing` is
about the issues on which the owner, and the agent under the owner's name, are
alone to comment: a remark by somebody else between the list and the comments can
hide the agent's reply from the guard. `PushReaches` is the liveness property.

*Listing sources.* `SettledFires` is what the combination of event id, match and
dedup must give: after a whole tick, an item at rest has driven every handler that
wants it as it is, also one that was added when the item was long known, and
whatever failed or was dropped before. `TurnsBoundedByChanges` is the other side:
comments, restarts, handlers that come and go and a head combined with a later
merge status cause no turn beyond one for each push or change of status.
`CurrentVersionReaches` is the liveness property; it excepts a list that is
blocked for good, by a pull request without commits or by more work items than a
page holds (`Blocked`). `ConflictFires` is the documented promise about conflicts,
which fails.

*Store file.* `PersistIsAtomic` is what the other modules assume of persist, and
`SavedSurvives` what its callers believe of a write without an error. The first
needs that two store objects do not write at once, the second that they do not
coexist. Without these conditions TLC finds a file that does not decode, and a
change lost that was reported as written.

*Driver.* `ReplyIsWholeTurn`, `ThrowawaysDeleted` (the sessions that cannot be
blamed on the code, because a create or a delete did not answer or the process
ended, are `excused`), `SummaryRecent`, and the liveness property `CallsReturn`.

### Why the bounds are enough

Two callers are enough for the races, which are all between a pair (reader and
writer of a binding, old and new store object, marker and marker). Two keys are
the least with which a session can cross keys, a routed handler beside another
the least with which the router can name another's session, two ids in a window
of one the least with which one rotates out and returns, and three in a window of
one or two where the size changes. Two sessions let one be replaced by another,
and three calls let a key be bound, used, and bound or registered again while the
third runs. `MaxCalls` stops new calls, and a call under way always finishes;
`MaxCrashes` of one leaves a
process before and after. In `control_plane` two pollers are the least with
which the goroutine of a removed source meets its successor, four requests the
least that add a handler and a source, remove one and add it again, and the
crash bound of one counts failed boots too; `Poller` bounds the goroutines, so
a source is added only when one is free. One handler and one source are two
names, enough for a request to persist another's unacknowledged change; more of
each is what the proofs are for. In `github_source` three items at one to a page
with a limit of two are the least with which items move between pages and the
list outgrows the limit; three seconds give two successive windows; `Changing`
keeps the third item still. Two changes are enough for each property, which
relates one change to a fetch or to one other change (two pushes, two verdicts,
an instruction and a reply, a label and an approval); `Earlier` lets an item start
with a comment and a label, so that two more comments fill a page of two and begin
the next. In `store_file` two
objects are the old and the new one of a name, and two crashes let a process find
what two earlier ones left. In `listing_source` three changes are the least with
which a pull request becomes conflicted, mergeable and conflicted again, or with
which a handler is removed and added around a push; one item changes and the
other only takes the place on the page, or blocks the list. In `driver` a page of
two and a log of five give readings of three pages that the log outgrows; calls
share nothing but the runtime's ids, so one at a time is enough for TLC and the
proofs are for any number. `CHECK_DEADLOCK FALSE` is set because the bounded
system stops when its calls are used up.

Symmetry is over sessions, workers, store objects and, of a store, event ids and
callers. No
operator distinguishes two of them (choices are by `\E`, and the newest or oldest
entry by position), and it is not used in the run with a liveness property.

### Fairness

`FairSpec` assumes weak fairness of each caller's own steps. Goroutines are
scheduled, the store's critical sections contain no waiting, and each call of
the driver ends: an RPC has a timeout of 30 seconds and `RunForReply` a deadline of
ten minutes. Nothing is assumed of the environment: sessions need not die, the
process need not crash, no event need ever come. `CallsReturn` holds because no
step of a caller waits for another and the one loop, the recovery of a reused
session, is entered once per subscription.

In `ControlPlane`, `FairSpec` assumes weak fairness of each poller's steps, as
above, and strong fairness of two of them. `FetchReturns`: an upstream that is
asked for ever answers now and then, which is what "a transient upstream
failure" (`source.go:58`) means. `Stop`: when the ticker and the cancelled
context are both ready, Go's `select` picks one at random, so it does not pass
over the context on every one of endless rounds; without this `PollersEnd` would
fail. Nothing is assumed of requests, the upstream's changes or the boot.

In `GitHubSource`, `FairSpec` assumes that fetches come to an end without a
failing request again and again: by success, or by a list that is too long. The
poller ticks for ever and failures are transient; a list that stays too long is
not, and `PushReaches` excepts it, as the source then stands still.

In `ListingSource`, `FairSpec` assumes the same of ticks: again and again one ends
with no failing request, or at a pull request that has no commits. The process
may restart without end, if only a tick comes through now and then.

In `Driver`, `FairSpec` assumes weak fairness of each call's steps, as every
request has a timeout, and strong fairness of `Expire`, whose guard comes and goes
with `Poll` and `ReadTurn` while the clock goes on. The agent need never answer.

## 4. The proofs

TLC's instances are small. What they show for these sizes is proved for every
value of the constants, by eight modules:

* `SubStore_proofs`: what the operators of a store return. Cutting a prefix off a
  window of distinct ids and taking its ids out of the index leaves them in step
  (`DropOldestIndexed`), an admission of a new id keeps ids distinct
  (`AdmitIndexed`), the replay window holds each id once and at most `maxSeen`
  entries (`RecordEventProperties`), `lookupEvent` returns a stored event.
* `StoreLifecycle_proofs`: `TypeCorrect`, `IndexCorrect` (`IndexMatchesWindow`)
  and `ReplayBounded` (`ReplayWindowBounded`). Neither invariant is inductive:
  after a crash the store is only as good as its file. The invariant used,
  `Inv`, says of the *file* what the properties say of the open store: distinct
  ids, distinct payloads, a bounded replay window. A failed write leaves an old
  file, which was sound.

  The refinement of `DedupWindow` (`ImplementsDedupWindow`), the other side of
  dedup (`RefusesOnlyWhatIsInTheWindow`, `RefusesOnlyTheWindow`) and
  `RestartAnswersAlike` (`ReloadAnswersAlike`) relate answers given at different
  times, so they need `HistoryInv`: the window is an end of the history of
  admissions, and every admission it lacks has rotated out or is too old; the file
  is the same of the admissions that are durable, and, while every admission is
  on disk, behind the memory in evictions alone. A step of the store is then a step
  of the contract or a stutter, whatever writes fail. `SeenStaysRetryable`
  (`SeenIsRetryable`) is about two windows of one size that are filled in two
  steps: `ReplayInv` says that the payload of each id stands as close to the end of
  its window as the id to the end of its own, with one place to spare while a
  call is between the two, until two callers cross.
* `EventBus_proofs`: `TypeCorrect`, `Isolation` (`SessionIsolation`) and
  `BindingsCorrect` (`BindingsOwned`). A session id travels: created, written to a
  binding or the created list, copied to the file, loaded by the next process,
  read into a frame, kept there while others run, used. The invariant follows
  it: `Grants` is the set of sessions with the handler and key each was
  created for, and every place on the path (`StateSound` for files,
  `StoreSound` for each object that is registered *or still held by a caller*,
  `FrameSound` for what a `pc` takes for granted) mentions only granted
  sessions. Grants only grow, so one lemma (`StepInv`) covers every step of a
  caller, and `SoundMonotonic` says the rest of the system does not notice.
  A drop of a store object is safe because no caller's frame names it, which is
  why `InUse` ranges over the whole `todo`.

  The other theorems rest on `Inv` and on one invariant each.
  - `StatelessFresh` (`StatelessSessionsAreFresh`), without a hypothesis: a session
    that a stateless handler's caller has in hand has no turn, is no other caller's
    and was not reused (`FreshInv`).
  - `CreatedKnown` (`CreatedSessionsKnown`): the objects in use of a handler that
    is not forked are what its file says (`Shared`), so what one caller writes no
    other overwrites.
  - `WindowResumes` (`DedupWindowResumes`): the store that serves a name, and the
    file, end with the newest admissions (`WindowInv`); the window's bound makes
    the two rotate together.
  - `ImplementsLedger` (`AtMostOnce`) is the refinement of `EventLedger`, step by
    step: a claim has one holder and each turn takes a claim (`LedgerInv`); that an
    admitted event is not among the newest is `WindowInv`. A frame's `doubt` says
    that the claim's first turn was taken and its answer lost. The turns are
    counted as a set, so a lemma says that one more turn is one more element.
  - `NothingIsDropped` (`NothingDropped`) is said of the time before the first
    crash; `crash_drop` shows what a crash does. Marked events are in somebody's
    hands, driven, reported or silent (`DropInv`), for two store objects of a name
    as well.
  - `OneSession` (`KeySplitsAlone`): for a key that is whole, neither split nor of a
    forked handler, the session that talks for it is the one its binding names, and
    at most one caller is past reading the binding, whose reading still holds
    (`KeyInv`). Every step that could break this splits the key, and the property
    is that there is no other way.

  None of them assumes a run without a fault, a rotation or a second registration.
* `ControlPlane_proofs`: `TypeCorrect`, `AcknowledgedCorrect`
  (`AcknowledgedSurvives`) and `OnePollerCorrect` (`OnePollerPerSource`). An
  acknowledgement outlives the process, so the invariant states it of the *file*
  as well (`Acknowledged`), and says of a boot that what it has rebuilt and what
  it has yet to do make up the file (`BootSound`); `Serve` joins the two. A
  request whose write fails makes file and live state differ on its own name
  alone, whose acknowledgement it takes back, so the next write may publish it
  without contradicting anybody (`PersistSound`). A source is listed exactly
  when some poller is active for it, and then one (`PollersSound`), which all
  steps of a poller leave alone (`SetPollerSound`). `UnchangedIsQuiet`
  (`UnchangedDrivesNothing`) is about the dispatches under way: while no handler was
  added again under one, every object that anybody refers to has the window of the
  file, which ends with the newest events the handler processed (`Stored`),
  whichever of two pollers fetched them.
* `StoreFile_proofs`: `TypeCorrect`, `FileDecodes`, `ReportedIsDurable`
  (`SavedSurvives`) and `PersistAtomic` (`PersistIsAtomic`). The file is right
  because what is renamed is, so the invariant follows the temporary file from
  the open to the rename (`Exclusive`), and the state of an object from the file
  it was read from (`Alone`). Each holds as long as the condition of the
  property does, which is why the invariant is a pair of implications.
* `Driver_proofs`: `TypeCorrect`, `RepliesWhole` (`ReplyIsWholeTurn`),
  `ThrowawaysGone` (`ThrowawaysDeleted`) and `SummariesRecent` (`SummaryRecent`),
  for any number of calls and sessions, logs and pages of any length. A call owns
  its session from the create to the delete (`Owned`), so its log is one turn
  (`OneTurn`) and a reading that saw the end of it saw all of it; and a reading is
  right at each page for as far as it got (`ReadSound`), since a log grows at its
  end alone (`CallGrows`).
* `GitHubSource_proofs`: `TypeCorrect`, `PushesAreReturned` (`PushesFire`),
  `IssuesAreReturned` (`IssuesFire`), `VerdictsAreReturned` (`VerdictsFire`),
  `BuildsAreReturned` (`BuildsFire`) and `RepliesDriveNothing`
  (`AgentRepliesDriveNothing`), for any repository, page sizes, changes, failures
  and restarts. The first four follow an item through a fetch (`Swept`): while the
  list is read, an item that is due is listed or stands behind the pages read so
  far. A page is cut from the list as it is, so the argument counts: the items
  before one that rests (`Rank`) only grow in number while others change, since
  what changes comes to the front, unless one leaves the list, which is `torn`
  (`ListKept`). While details are read each due item is still to be read or was
  read as it is now (`ReadKept`), and when the watermark moves each it passes was
  (`PassedKept`). Verdicts and builds are in the comments, of which the page
  is read that was the last when the list counted them: for an item that rests it
  is the last page still, for any number of comments. The last theorem follows the
  agent's replies (`Silent`), on the issues its property speaks of.
* `ListingSource_proofs`: `TypeCorrect`, `ItemsReachHandlers` (`SettledFires`) and
  `TurnsBounded` (`TurnsBoundedByChanges`).
  The property speaks of whole ticks, so the invariant says of a tick under way
  that each item it has read and nobody has touched since is among its events or
  has driven the handler that wants it (`Whole`), and that a head read before the
  merge status is the current one of an item nobody touched (`HeadCurrent`). That
  a head exists is a lemma of its own (`LatestExists`): among the dates of
  finitely many commits there is a latest.

  `TurnsBounded` counts. Two ids of an item can be new to a handler at once: the
  current one, and that of an event that waits in the batch or of a head that was
  read before the merge status it will be combined with. `Tallied` keeps a change
  in reserve for each that is not the current one: an id ceases to be current by a
  change that is counted, and a waiting event is the only one of its item
  (`OutShape`). The theorem has no hypothesis.

The assumptions are those the modules name: `None` is no key, session or event
(`NoneAssumption`), each event's key is a key, the default window size is
positive, the configured sizes are integers and finitely many, and the constants
of `EventBus` have their types; in `ControlPlane` no handler has a source's name
(they are two name spaces in the code, told apart here so that one map of
acknowledgements serves both). In `StoreFile` the three
marks for a file's content are different and no state; in `Driver` the sessions at
work are sessions and pages hold an event at least; in `ListingSource` dates are
numbers and there is one. `None` is also no store (`NoStoreAssumption`), and
the items that change are items. Nothing is assumed of `Worker`, `Handler`,
`Object` or the bounds beyond that; in particular the configured window size may
be zero or negative, as the code allows. The theorems have no
hypotheses of their own: what a property excepts it names, by a variable that
records the case, and the runs contain the case.

The type invariants of `StoreFile` and `Driver` are proved and in no run. Every
safety property of the passing runs is stated by a theorem. Left to TLC: both
`CallsReturn`, `EventsReachHandlers`, `PollersEnd`, `PushReaches` and
`CurrentVersionReaches` (liveness, as the prover has neither fairness nor ENABLED).
Induction over data and RECURSIVE operators are out of the prover's reach; the
modules use none. Where an argument needs the greatest or least element of a set,
or that one exists, it is by well-founded induction from the library
(`MaxOfFinite`, `MinOfNat`, `LatestExists`).

## 5. Divergences found

Four runs check a sentence of the repository's own text and find it violated by
what the code does; `PROJECT.json` quotes each under "findings".

1. *One session per key* (`key_race`) fails when two events of a new key are
   dispatched at once: both find no binding, each creates a session and drives its
   turn there.
2. *Resuming after a crash* (`crash_drop`): the id is persisted as seen before the
   turn is sent. A crash in between loses the event; no retry by a source brings it
   back.
3. *A conflict that returns* (`conflict_returns`): the id of a pull request holds
   the head and the merge status, and the second conflict with one head has the id
   of the first.
4. *Retryable events* (`store_crossing`): two dispatchers that mark in one order
   and record in the other leave an id in the dedup window whose payload the replay
   window has dropped.

Others are the exceptions that passing properties name. The runs contain each; the
property without its exception is violated by the same run.

* *Re-registration* resumes the window of the file, not of a dispatch that is under
  way on the old object (`bus.go:77` says that registering the same name again
  "resumes its dedup window"): `forked`, in `DedupWindowResumes`,
  `CreatedSessionsKnown`, `KeySplitsAlone` and `UnchangedDrivesNothing`.
* *An unchanged item* drives work again once it has rotated out: a duplicate does
  not move its entry to the newest end of the window. `source.go:20` and
  `docs/EVENTBUS-SOURCES.md:26` say that what is unchanged drives no work;
  `UnchangedDrivesNothing` speaks of the newest events of one window.
* *A session whose creation was not answered* is in no file, and nothing deletes
  it: `orphans`, in `CreatedSessionsKnown`. No text denies it.
* *A turn whose answer was lost* is driven a second time by the recovery of a
  reused session: a claim with `doubt`, in `EventLedger`.
* *A verdict on an earlier page* (`docs/EVENTBUS-SOURCES.md:87`) is never returned
  when a page of later comments begins before the next fetch: `Newest`, in
  `VerdictsFire`.
* *An approval on an earlier page* is forgotten: the build it authorized is
  returned as not authorized, although `docs/EVENTBUS-SOURCES.md:124-127` states the
  owner's approval without such a limit: `Newest`, in `BuildsFire`.
* *A stranger's comment* on an issue moves `updated_at`, from which `issueEvent`
  takes the version of its event (`source_github.go:280`); so it does return an
  event, although `source_github.go:39-43` and `:313-314` and
  `docs/EVENTBUS-SOURCES.md:119-120` say that a comment by others never is the
  trigger. What it says is not in the event's instruction, and it authorizes
  nothing. `IssuesFire` asks for no event there and forbids none.
* *A torn file*: two store objects of one name that persist at once can publish a
  file that does not decode; the handler can then not be registered, nor the
  process boot (`StoreFile`, `FileLoads` without its condition).

One more is visible in a model and named by no property: *candidates* of a router
are the newest created, not the newest active (`docs/EVENTBUS-SPEC.md:145`), since
the cap comes before the filter (`ReadRecent`).

Some behaviours are no divergence, as no text of the repository denies them:
cancelling a source lets the batch under way finish (`tick` looks at its context
in the fetch alone); the GitHub source does not list what changed while the
process was down, which `EVENTBUS-SOURCES.md:169` states; a commit that is older
than the head, by the clock of the machine it was made on, is never the head; one
pull request without commits fails the fetch of all.

## 6. Not modelled

The parsing of requests and replies, the text of prompts, the HTTP status codes,
the configuration and the Python tools hold no state that the properties concern.
Templates render prompts and keys: `EventBus` takes their results for constants.
The other fields of the GitHub source's payloads are read by templates and
predicates alone, which `EventBus` takes for constants. A plugin that keeps a cursor in its scratch
directory is a program outside the repository. That a handler named `_registry`
would share the control plane's file is outside a model whose names are model
values. A loss of power is not among the crashes, as nothing is synced.

## 7. Plan

Done, in this order: `SubStore`, `StoreLifecycle` with `DedupWindow`, `EventBus`
with `EventLedger`, `ControlPlane`, their proofs, `GitHubSource`, `StoreFile`,
`ListingSource` and `Driver` with their proofs; then the proofs that relate two
times (the refinements, `HistoryInv`, `ReplayInv`), two actors (`CreatedKnown`,
`ImplementsLedger`, `OneSession`) or a request to the ones before it
(`GitHubSource_proofs`, `TurnsBounded`). Next, by importance:

1. A second process of the same data directory, or a boot beside pollers that still
   run: the models have one process.
2. What the handlers of the GitHub source see when two changes share a second: the
   source with the dedup windows of its handlers.
3. The order of a router's candidates, with the cap before the filter.
