---------------------------- MODULE GitHubSource ----------------------------
(***************************************************************************)
(* The GitHub source (internal/eventbus/source_github.go): a fetch lists,  *)
(* page by page, the issues and pull requests updated since the watermark, *)
(* reads each one's details, and advances the watermark to its own start   *)
(* when everything succeeded.  The repository changes between any two of   *)
(* its requests.                                                           *)
(*                                                                         *)
(* Time is in seconds, as GitHub's timestamps and the since parameter are; *)
(* any number of changes may share one.  Of the payloads there is whether  *)
(* a build is authorized, which handlers match on; the errors are not told *)
(* apart: a request succeeds or fails the fetch.                           *)
(***************************************************************************)
EXTENDS Integers, Sequences, FiniteSets, FiniteSetsExt

CONSTANTS Number,               \* of the repository's issues and pull requests
          PullRequest,
          Wanted,               \* those AllowNumbers and Kinds let through
          OwnersIssues,         \* the issues whose author is the owner
          Comment,              \* what may be posted on each: its author and its marker
          IssuesPerPage, CommentsPerPage, MaxPages,
          Recent, Earlier,      \* bounds: those that may be updated in the second the
                                \* process starts, or labelled and commented on before;
          Changing, MaxClock, MaxChanges, MaxRestarts   \* which items change, until
                                \* when, how often; restarts

Mark == {"none", "bot", "verdict", "approve"}

ASSUME NumberAssumption ==
    /\ Number \subseteq Nat /\ IsFiniteSet(Number)
    /\ PullRequest \subseteq Number /\ OwnersIssues \subseteq Number
    /\ Changing \subseteq Number /\ Recent \subseteq Number /\ Earlier \subseteq Number
ASSUME CommentAssumption == Comment \in [Number -> SUBSET [owner : BOOLEAN, mark : Mark]]
ASSUME PageAssumption ==
    /\ IssuesPerPage \in Nat \ {0} /\ CommentsPerPage \in Nat \ {0} /\ MaxPages \in Nat \ {0}

VARIABLES clock,
          item,                 \* the repository
          since,                \* the watermark
          fetch,                \* the fetch under way
          emitted,              \* the events returned so far
          born,                 \* when this process started the source
          torn,                 \* a finished fetch saw an item leave its list
          prompted,             \* changes by others than the agent: number and time
          changes, restarts

upstreamVars == <<item, prompted, changes>>
vars == <<clock, upstreamVars, since, fetch, emitted, born, torn, restarts>>

\* pc: the next request is a page of the list, a detail of the first listed item,
\* or its comments.
NoFetch == [pc |-> "idle", start |-> 0, page |-> 1, listed |-> <<>>, out |-> {}, torn |-> FALSE]

\* The first three fields are the event's id.
Event(kind, n, version, authorized) ==
    [kind |-> kind, number |-> n, version |-> version, authorized |-> authorized]

Remark == [owner |-> TRUE, mark |-> "none", time |-> 0]

Init ==
    /\ clock = 1
    /\ \E recent \in SUBSET Recent, old \in SUBSET Earlier :
        /\ item = [n \in Number |-> [open |-> TRUE, label |-> n \in old \ PullRequest, head |-> 0,
                                     updated |-> IF n \in recent THEN 1 ELSE 0,
                                     comments |-> IF n \in old THEN <<Remark>> ELSE <<>>]]
        /\ prompted = recent \X {1}
    /\ since = clock /\ born = clock
    /\ fetch = NoFetch
    /\ emitted = {}
    /\ torn = FALSE
    /\ changes = 0
    /\ restarts = 0

-----------------------------------------------------------------------------
(* The repository, and the clock.                                           *)

Tick ==
    /\ clock < MaxClock
    /\ clock' = clock + 1
    /\ UNCHANGED <<upstreamVars, since, fetch, emitted, born, torn, restarts>>

\* Every change of an item, a comment too, moves its updated_at.
Change(n, after) ==
    /\ changes < MaxChanges
    /\ changes' = changes + 1
    /\ item' = [item EXCEPT ![n] = [after EXCEPT !.updated = clock]]
    /\ UNCHANGED <<clock, since, emitted, born, torn, restarts>>

Prompts(n) == prompted' = prompted \cup {<<n, clock>>}

Push(n) ==
    /\ n \in PullRequest /\ item[n].open
    /\ Change(n, [item[n] EXCEPT !.head = @ + 1])
    /\ Prompts(n)
    /\ UNCHANGED fetch

\* The build label is set or taken off.
Label(n, set) ==
    /\ n \notin PullRequest /\ item[n].label # set
    /\ Change(n, [item[n] EXCEPT !.label = set])
    /\ Prompts(n)
    /\ UNCHANGED fetch

Post(n, c) ==
    /\ Change(n, [item[n] EXCEPT !.comments = Append(@, [owner |-> c.owner, mark |-> c.mark, time |-> clock])])
    /\ IF c.mark = "bot" THEN UNCHANGED prompted ELSE Prompts(n)
    /\ UNCHANGED fetch

\* An item that is closed leaves the list of the open ones: what is on the pages
\* after it moves up, and the first of the next page to a page already read.
Close(n) ==
    /\ item[n].open
    /\ Change(n, [item[n] EXCEPT !.open = FALSE])
    /\ Prompts(n)
    /\ fetch' = [fetch EXCEPT !.torn = @ \/ (fetch.pc = "list" /\ fetch.page > 1)]

Reopen(n) ==
    /\ ~item[n].open
    /\ Change(n, [item[n] EXCEPT !.open = TRUE])
    /\ Prompts(n)
    /\ UNCHANGED fetch

-----------------------------------------------------------------------------
(* The list: open items (the default of State) updated at or after the      *)
(* watermark, newest first.                                                 *)

\* Mutant: an item updated in the very second of the watermark is left out.
MatchingAfter == {n \in Number : item[n].open /\ item[n].updated > since}

Matching == {n \in Number : item[n].open /\ item[n].updated >= since}

Before(m, n) == item[m].updated > item[n].updated \/ (item[m].updated = item[n].updated /\ m < n)

\* The items of a page, as the list shows them.
Page(k) ==
    LET from == (k - 1) * IssuesPerPage
        at(i) == CHOOSE n \in Matching : Cardinality({m \in Matching : Before(m, n)}) = i - 1
    IN  [i \in 1..Min({IssuesPerPage, Cardinality(Matching) - from}) |->
            [number |-> at(from + i), updated |-> item[at(from + i)].updated,
             label |-> item[at(from + i)].label, count |-> Len(item[at(from + i)].comments)]]

HasNext(k) == Cardinality(Matching) > k * IssuesPerPage

FetchStep == UNCHANGED <<clock, upstreamVars, born, restarts>>

StartFetch ==
    /\ fetch.pc = "idle"
    /\ fetch' = [NoFetch EXCEPT !.pc = "list", !.start = clock]
    /\ UNCHANGED <<since, emitted, torn>> /\ FetchStep

ListPage ==
    /\ fetch.pc = "list" /\ HasNext(fetch.page) /\ fetch.page < MaxPages
    /\ fetch' = [fetch EXCEPT !.listed = @ \o Page(fetch.page), !.page = @ + 1]
    /\ UNCHANGED <<since, emitted, torn>> /\ FetchStep

ListLastPage ==
    /\ fetch.pc = "list" /\ ~HasNext(fetch.page)
    /\ fetch' = [fetch EXCEPT !.listed = @ \o Page(fetch.page), !.pc = "item"]
    /\ UNCHANGED <<since, emitted, torn>> /\ FetchStep

\* A page beyond the limit fails the fetch.
ListTooLong ==
    /\ fetch.pc = "list" /\ HasNext(fetch.page) /\ fetch.page = MaxPages
    /\ fetch' = NoFetch
    /\ UNCHANGED <<since, emitted, torn>> /\ FetchStep

-----------------------------------------------------------------------------
(* The items.                                                               *)

\* commentsLastPage: which of the comments the page that was the last one, when
\* the list counted them, holds now.
LastPage(n, count) ==
    LET page == (count + CommentsPerPage - 1) \div CommentsPerPage
    IN  {i \in DOMAIN item[n].comments :
            count > 0 /\ i > (page - 1) * CommentsPerPage /\ i <= page * CommentsPerPage}

\* Mutant: the oldest verdict of the page.
FirstOwnerVerdict(n, page) ==
    LET verdicts == {i \in page : item[n].comments[i].owner /\ item[n].comments[i].mark = "verdict"}
    IN  IF verdicts = {} THEN {} ELSE {Min(verdicts)}

\* Empty when there is none.
LatestOwnerVerdict(n, page) ==
    LET verdicts == {i \in page : item[n].comments[i].owner /\ item[n].comments[i].mark = "verdict"}
    IN  IF verdicts = {} THEN {} ELSE {Max(verdicts)}

\* Mutant: the marker is not looked for.
AgentSpokeLastNever(n, page) == FALSE

\* The newest comment is the agent's own reply.
AgentSpokeLast(n, page) == page # {} /\ item[n].comments[Max(page)].mark = "bot"

\* Mutant: an approval of the owner's is not looked for.
AuthorizedByAuthor(n, label, page) == label /\ n \in OwnersIssues

\* The label as listed, and the owner's issue or the owner's approval of it.
Authorized(n, label, page) ==
    label /\ (n \in OwnersIssues
              \/ \E i \in page : item[n].comments[i].owner /\ item[n].comments[i].mark = "approve")

\* updated_at as listed, or the newest owner's comment if that is later.
Activity(n, updated, page) ==
    Max({updated} \cup {item[n].comments[i].time : i \in {j \in page : item[n].comments[j].owner}})

Listed == Head(fetch.listed)

AtItem(pc, n) == fetch.pc = pc /\ fetch.listed # <<>> /\ Listed.number = n

NextItem(events) == fetch' = [fetch EXCEPT !.pc = "item", !.listed = Tail(@), !.out = @ \cup events]

Skip(n) ==
    /\ AtItem("item", n) /\ n \notin Wanted
    /\ NextItem({})
    /\ UNCHANGED <<since, emitted, torn>> /\ FetchStep

ReadIssue(n) ==
    /\ AtItem("item", n) /\ n \in Wanted \ PullRequest
    /\ LET page == LastPage(n, Listed.count)
       IN  NextItem(IF AgentSpokeLast(n, page) THEN {}
                    ELSE {Event("issue", n, Activity(n, Listed.updated, page),
                                Authorized(n, Listed.label, page))})
    /\ UNCHANGED <<since, emitted, torn>> /\ FetchStep

ReadPull(n) ==
    /\ AtItem("item", n) /\ n \in Wanted \cap PullRequest
    /\ fetch' = [fetch EXCEPT !.pc = "comments", !.out = @ \cup {Event("push", n, item[n].head, FALSE)}]
    /\ UNCHANGED <<since, emitted, torn>> /\ FetchStep

ReadVerdict(n) ==
    /\ AtItem("comments", n)
    /\ NextItem({Event("review", n, i, FALSE) : i \in LatestOwnerVerdict(n, LastPage(n, Listed.count))})
    /\ UNCHANGED <<since, emitted, torn>> /\ FetchStep

\* Mutant: the window begins where the fetch ended.
FinishLate ==
    /\ fetch.pc = "item" /\ fetch.listed = <<>>
    /\ since' = clock
    /\ emitted' = emitted \cup fetch.out
    /\ torn' = (torn \/ fetch.torn)
    /\ fetch' = NoFetch
    /\ FetchStep

\* Mutant: the window begins one second after the fetch did.
FinishAhead ==
    /\ fetch.pc = "item" /\ fetch.listed = <<>>
    /\ since' = fetch.start + 1
    /\ emitted' = emitted \cup fetch.out
    /\ torn' = (torn \/ fetch.torn)
    /\ fetch' = NoFetch
    /\ FetchStep

Finish ==
    /\ fetch.pc = "item" /\ fetch.listed = <<>>
    /\ since' = fetch.start
    /\ emitted' = emitted \cup fetch.out
    /\ torn' = (torn \/ fetch.torn)
    /\ fetch' = NoFetch
    /\ FetchStep

\* Mutant: the window advances although the fetch failed.
FailAdvancing ==
    /\ fetch.pc # "idle"
    /\ since' = fetch.start
    /\ fetch' = NoFetch
    /\ UNCHANGED <<emitted, torn>> /\ FetchStep

\* Any request may fail, and with it the fetch: no event of it is returned.
Fail ==
    /\ fetch.pc # "idle"
    /\ fetch' = NoFetch
    /\ UNCHANGED <<since, emitted, torn>> /\ FetchStep

\* A source that is built starts from now.
Restart ==
    /\ restarts < MaxRestarts
    /\ restarts' = restarts + 1
    /\ since' = clock /\ born' = clock
    /\ fetch' = NoFetch
    /\ torn' = FALSE
    /\ UNCHANGED <<clock, upstreamVars, emitted>>

-----------------------------------------------------------------------------
Upstream(n) ==
    \/ Push(n) \/ Close(n) \/ Reopen(n)
    \/ \E set \in BOOLEAN : Label(n, set)
    \/ \E c \in Comment[n] : Post(n, c)

ReadItem(n) == Skip(n) \/ ReadIssue(n) \/ ReadPull(n) \/ ReadVerdict(n)

Next ==
    \/ Tick \/ Restart
    \/ \E n \in Changing : Upstream(n)
    \/ StartFetch \/ ListPage \/ ListLastPage \/ ListTooLong \/ Finish \/ Fail
    \/ \E n \in Number : ReadItem(n)

Spec == Init /\ [][Next]_vars

\* The poller fetches for ever, and failures of the upstream are transient: again
\* and again a fetch meets none, and finishes unless its list is too long.
FairSpec == Spec /\ []<><<Finish \/ ListTooLong>>_vars

-----------------------------------------------------------------------------
Events == [kind : {"issue", "push", "review"}, number : Number, version : Nat, authorized : BOOLEAN]

TypeOK ==
    /\ clock \in Nat
    /\ item \in [Number -> [open : BOOLEAN, label : BOOLEAN, updated : 0..clock, head : Nat,
                            comments : Seq([owner : BOOLEAN, mark : Mark, time : Nat])]]
    /\ since \in born..clock /\ born \in 1..clock
    /\ fetch \in [pc : {"idle", "list", "item", "comments"}, start : 0..clock, page : 1..MaxPages,
                  listed : Seq([number : Number, updated : Nat, label : BOOLEAN, count : Nat]),
                  out : SUBSET Events, torn : BOOLEAN]
    /\ emitted \in SUBSET Events
    /\ torn \in BOOLEAN
    /\ prompted \subseteq Number \X Nat
    /\ changes \in Nat /\ restarts \in Nat

\* The watermark has passed all that happened to n since the process started.
Passed(n) ==
    /\ n \in Wanted /\ item[n].open
    /\ born <= item[n].updated /\ item[n].updated < since

\* The watermark never passes a head commit that was not returned, although items
\* move between the pages while they are read and fetches fail (unless an item
\* left the list in the middle of a fetch that succeeded).
PushesFire ==
    ~torn => \A n \in PullRequest : Passed(n) => Event("push", n, item[n].head, FALSE) \in emitted

\* Comment i of n is on the last page of its comments.
Newest(n, i) == (i - 1) \div CommentsPerPage = (Len(item[n].comments) - 1) \div CommentsPerPage

OwnerVerdicts(n) ==
    {i \in DOMAIN item[n].comments : item[n].comments[i].owner /\ item[n].comments[i].mark = "verdict"}

\* Nor the owner's latest verdict on a pull request, while it is on the last page of
\* the comments: the code reads no other, so a verdict that a page of later comments
\* hides from the next fetch is not returned, against the table of events in
\* docs/EVENTBUS-SOURCES.md.
VerdictsFire ==
    ~torn => \A n \in PullRequest : \A i \in OwnerVerdicts(n) :
        Passed(n) /\ Newest(n, i) /\ (\A j \in OwnerVerdicts(n) : j <= i)
            => Event("review", n, i, FALSE) \in emitted

\* The latest comment on issue n, if there is one, calls for no silence: it is not the
\* agent's, and it is the owner's unless the issue has changed since.
CallsForEvent(n) ==
    LET comments == item[n].comments
        last     == comments[Len(comments)]
    IN  comments = <<>> \/ (last.mark # "bot" /\ (last.owner \/ last.time < item[n].updated))

\* Nor the latest change of an issue, unless it is a comment of the agent's or of a
\* stranger, or the agent has spoken last.
IssuesFire ==
    ~torn => \A n \in Number \ PullRequest :
        Passed(n) /\ CallsForEvent(n) => \E a \in BOOLEAN : Event("issue", n, item[n].updated, a) \in emitted

Approved(n) ==
    \/ n \in OwnersIssues
    \/ \E i \in DOMAIN item[n].comments :
            Newest(n, i) /\ item[n].comments[i].owner /\ item[n].comments[i].mark = "approve"

\* Nor a build that the owner wants, with the approval on the last page of the comments
\* (one on an earlier page is forgotten, against the trust boundary that
\* docs/EVENTBUS-SOURCES.md states): it is returned as authorized, although the label
\* is read with the list and the approval after it, and an event with the same id
\* and without the authorization may have been returned before.
BuildsFire ==
    ~torn => \A n \in Number \ PullRequest :
        Passed(n) /\ CallsForEvent(n) /\ item[n].label /\ Approved(n)
            => Event("issue", n, item[n].updated, TRUE) \in emitted

\* The owner, and the agent under the owner's name, are alone to comment on n.
OwnersAlone(n) == \A i \in DOMAIN item[n].comments : item[n].comments[i].owner

\* The agent's replies never cause an event, whenever they arrive in a fetch: each
\* event of an issue on which no stranger comments carries the time of somebody else's
\* change.
AgentRepliesDriveNothing ==
    \A e \in emitted :
        e.kind = "issue" /\ OwnersAlone(e.number) => <<e.number, e.version>> \in prompted

\* A push is returned sooner or later, although fetches fail now and then, as long
\* as the pull request stays open, its list does not outgrow the pages that are
\* read, and the process goes on.
PushReaches ==
    \A n \in PullRequest \cap Wanted, k \in 1..MaxChanges :
        item[n].head = k /\ born <= item[n].updated ~>
            \/ Event("push", n, k, FALSE) \in emitted
            \/ item[n].head # k \/ ~item[n].open \/ item[n].updated < born
            \/ torn \/ Cardinality(Matching) > MaxPages * IssuesPerPage
=============================================================================
