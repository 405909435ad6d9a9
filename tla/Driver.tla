-------------------------------- MODULE Driver --------------------------------
(***************************************************************************)
(* The session driver (internal/sdkdriver/driver.go): RunForReply, which   *)
(* puts one question to a session of its own and polls the session's log   *)
(* for the answer, and SessionSummary, which condenses the log of a        *)
(* session at work.  Calls run side by side, one request at a time each.   *)
(*                                                                         *)
(* The runtime is not in the repository.  It keeps a log for each session, *)
(* only ever appends to it, and serves it in pages, oldest first; a page   *)
(* says whether there was more when it was served.  A turn begins with a   *)
(* user's message and ends with an idle event or an error.                 *)
(*                                                                         *)
(* A request succeeds, fails, or is carried out and its answer lost; its   *)
(* own timeout (30 s, 10 s for the delete) is one of the ways to fail.     *)
(***************************************************************************)
EXTENDS Integers, Sequences, FiniteSets, FiniteSetsExt

CONSTANTS Session, Work,        \* the sessions there may be; those of the handlers
          Caller,               \* calls that may run at once
          None,
          PageSize,             \* events in a page
          MaxLog                \* bound: events in a log

ASSUME SessionAssumption == Work \subseteq Session /\ None \notin Session
ASSUME SizeAssumption == PageSize \in Nat \ {0} /\ MaxLog \in Nat

VARIABLES log, status,          \* of each session
          call,                 \* of each caller: the call under way
          result,               \* and what its last call returned
          excused               \* throwaways whose create or delete did not answer

vars == <<log, status, call, result, excused>>

EventType == {"user.message", "agent.message", "idle", "error"}

\* op: none, reply, summary.  The deadline has passed (expired).  Of the log: events
\* read, the agent's messages among them (text), and an idle event seen (done).
\* since: how long the log was when the call began.
NoCall == [op |-> "none", pc |-> "return", session |-> None, expired |-> FALSE,
           read |-> 0, text |-> {}, done |-> FALSE, since |-> 0]

NoResult == [op |-> "none", ok |-> FALSE, session |-> None, text |-> {}, since |-> 0]

Init ==
    /\ log = [s \in Session |-> <<>>]
    /\ status = [s \in Session |-> IF s \in Work THEN "live" ELSE "none"]
    /\ call = [c \in Caller |-> NoCall]
    /\ result = [c \in Caller |-> NoResult]
    /\ excused = {}

-----------------------------------------------------------------------------
(* The runtime.                                                             *)

Has(s, type) == \E i \in DOMAIN log[s] : log[s][i] = type

\* A user's message has not been answered by the end of a turn.
Running(s) == log[s] # <<>> /\ log[s][Len(log[s])] \in {"user.message", "agent.message"}

Logged(s, type) == log' = [log EXCEPT ![s] = Append(@, type)]

\* The agent says something, ends the turn, or fails; or never does.
Respond(s, type) ==
    /\ Running(s) /\ status[s] = "live"
    /\ type # "user.message" /\ (type = "agent.message" => Len(log[s]) + 1 < MaxLog)
    /\ Logged(s, type)
    /\ UNCHANGED <<status, call, result, excused>>

\* The bus sends a handler's session its next message.
WorkArrives(s) ==
    /\ s \in Work /\ status[s] = "live" /\ ~Running(s) /\ ~Has(s, "error")
    /\ Len(log[s]) + 1 < MaxLog
    /\ Logged(s, "user.message")
    /\ UNCHANGED <<status, call, result, excused>>

\* Somebody deletes a handler's session.
WorkDeleted(s) ==
    /\ s \in Work /\ status[s] = "live"
    /\ status' = [status EXCEPT ![s] = "deleted"]
    /\ UNCHANGED <<log, call, result, excused>>

-----------------------------------------------------------------------------
SetCall(c, k) == call' = [call EXCEPT ![c] = k]

At(c, op, pc) == call[c].op = op /\ call[c].pc = pc

\* The call returns: an error, or what it has read.
Return(c, ok) ==
    /\ result' = [result EXCEPT ![c] =
                    [op |-> call[c].op, ok |-> ok, session |-> call[c].session,
                     text |-> IF ok THEN call[c].text ELSE {}, since |-> call[c].since]]
    /\ SetCall(c, NoCall)

-----------------------------------------------------------------------------
(* A page of the log.                                                       *)

PageEnd(k) == Min({k.read + PageSize, Len(log[k.session])})

Page(k) == (k.read + 1)..PageEnd(k)

MoreThan(k) == Len(log[k.session]) > k.read + PageSize

\* The call after it has looked through the events of its next page.
Scanned(k) ==
    LET events(type) == {i \in Page(k) : log[k.session][i] = type}
    IN  [k EXCEPT !.read = PageEnd(k),
                  !.text = @ \cup events("agent.message"),
                  !.done = @ \/ events("idle") # {}]

EndsInError(k) == \E i \in Page(k) : log[k.session][i] = "error"

-----------------------------------------------------------------------------
(* RunForReply.                                                             *)

BeginReply(c) ==
    /\ call[c].op = "none"
    /\ SetCall(c, [NoCall EXCEPT !.op = "reply", !.pc = "create"])
    /\ UNCHANGED <<log, status, result, excused>>

\* CreateSession
CreateSession(c, s) ==
    /\ At(c, "reply", "create") /\ status[s] = "none"
    /\ status' = [status EXCEPT ![s] = "live"]
    /\ SetCall(c, [call[c] EXCEPT !.pc = "send", !.session = s])
    /\ UNCHANGED <<log, result, excused>>

\* The session may exist: nobody knows its id.
CreateFails(c) ==
    /\ At(c, "reply", "create")
    /\ Return(c, FALSE)
    /\ \/ UNCHANGED <<status, excused>>
       \/ \E s \in Session :
            /\ status[s] = "none"
            /\ status' = [status EXCEPT ![s] = "live"]
            /\ excused' = excused \cup {s}
    /\ UNCHANGED log

\* SendUserMessage
Send(c) ==
    /\ At(c, "reply", "send")
    /\ Logged(call[c].session, "user.message")
    /\ SetCall(c, [call[c] EXCEPT !.pc = "poll"])
    /\ UNCHANGED <<status, result, excused>>

\* Mutant: the delete is deferred when the message is sent.
SendFailsUndeferred(c) ==
    /\ At(c, "reply", "send")
    /\ Logged(call[c].session, "user.message") \/ UNCHANGED log
    /\ Return(c, FALSE)
    /\ UNCHANGED <<status, excused>>

\* The message may have arrived.
SendFails(c) ==
    /\ At(c, "reply", "send")
    /\ Logged(call[c].session, "user.message") \/ UNCHANGED log
    /\ SetCall(c, [call[c] EXCEPT !.pc = "fail"])
    /\ UNCHANGED <<status, result, excused>>

\* Ten minutes after the message was sent.
Expire(c) ==
    /\ call[c].op = "reply" /\ call[c].pc \in {"poll", "read"} /\ ~call[c].expired
    /\ SetCall(c, [call[c] EXCEPT !.expired = TRUE])
    /\ UNCHANGED <<log, status, result, excused>>

\* Mutant: the deadline is not looked at.
PollForEver(c) ==
    /\ At(c, "reply", "poll")
    /\ SetCall(c, [call[c] EXCEPT !.pc = "read", !.read = 0, !.text = {}, !.done = FALSE])
    /\ UNCHANGED <<log, status, result, excused>>

\* Mutant: the next reading goes on where the last one ended.
PollOnward(c) ==
    /\ At(c, "reply", "poll")
    /\ SetCall(c, IF call[c].expired THEN [call[c] EXCEPT !.pc = "fail"]
                  ELSE [call[c] EXCEPT !.pc = "read", !.text = {}, !.done = FALSE])
    /\ UNCHANGED <<log, status, result, excused>>

\* The head of the loop: the deadline, or readTurn from the first event on.
Poll(c) ==
    /\ At(c, "reply", "poll")
    /\ SetCall(c, IF call[c].expired THEN [call[c] EXCEPT !.pc = "fail"]
                  ELSE [call[c] EXCEPT !.pc = "read", !.read = 0, !.text = {}, !.done = FALSE])
    /\ UNCHANGED <<log, status, result, excused>>

\* readTurn: a page of it, or its end at an error, which discards what was read; after
\* the last page the loop is left when the turn is done.
ReadTurn(c) ==
    LET k == Scanned(call[c])
        next == IF MoreThan(call[c]) THEN "read" ELSE IF k.done THEN "succeed" ELSE "poll"
    IN  /\ At(c, "reply", "read")
        /\ SetCall(c, IF EndsInError(call[c]) THEN [call[c] EXCEPT !.pc = "fail"]
                      ELSE [k EXCEPT !.pc = next])
        /\ UNCHANGED <<log, status, result, excused>>

\* A page does not arrive: the call gives up, the turn running or not.
ReadFails(c) ==
    /\ At(c, "reply", "read")
    /\ SetCall(c, [call[c] EXCEPT !.pc = "fail"])
    /\ UNCHANGED <<log, status, result, excused>>

Leaving(c) == call[c].op = "reply" /\ call[c].pc \in {"succeed", "fail"}

\* The deferred delete.
Delete(c) ==
    /\ Leaving(c)
    /\ status' = [status EXCEPT ![call[c].session] = "deleted"]
    /\ Return(c, call[c].pc = "succeed")
    /\ UNCHANGED <<log, excused>>

\* Its error is not looked at.
DeleteFails(c) ==
    /\ Leaving(c)
    /\ excused' = excused \cup {call[c].session}
    /\ Return(c, call[c].pc = "succeed")
    /\ UNCHANGED <<log, status>>

-----------------------------------------------------------------------------
(* SessionSummary.                                                          *)

BeginSummary(c, s) ==
    /\ call[c].op = "none" /\ s \in Work
    /\ SetCall(c, [NoCall EXCEPT !.op = "summary", !.pc = "get", !.session = s, !.since = Len(log[s])])
    /\ UNCHANGED <<log, status, result, excused>>

GetSession(c) ==
    /\ At(c, "summary", "get") /\ status[call[c].session] = "live"
    /\ SetCall(c, [call[c] EXCEPT !.pc = "list"])
    /\ UNCHANGED <<log, status, result, excused>>

ListPage(c) ==
    /\ At(c, "summary", "list") /\ MoreThan(call[c])
    /\ SetCall(c, Scanned(call[c]))
    /\ UNCHANGED <<log, status, result, excused>>

\* Mutant: the first page alone.
ListFirstPage(c) ==
    /\ At(c, "summary", "list") /\ call[c].read = 0
    /\ result' = [result EXCEPT ![c] =
                    [op |-> "summary", ok |-> TRUE, session |-> call[c].session,
                     text |-> Scanned(call[c]).text, since |-> call[c].since]]
    /\ SetCall(c, NoCall)
    /\ UNCHANGED <<log, status, excused>>

ListLastPage(c) ==
    /\ At(c, "summary", "list") /\ ~MoreThan(call[c])
    /\ result' = [result EXCEPT ![c] =
                    [op |-> "summary", ok |-> TRUE, session |-> call[c].session,
                     text |-> Scanned(call[c]).text, since |-> call[c].since]]
    /\ SetCall(c, NoCall)
    /\ UNCHANGED <<log, status, excused>>

\* A session that is deleted, or a request that fails.
SummaryFails(c) ==
    /\ call[c].op = "summary"
    /\ Return(c, FALSE)
    /\ UNCHANGED <<log, status, excused>>

-----------------------------------------------------------------------------
\* The process ends, with it the calls: nobody deletes their sessions.
Crash ==
    /\ excused' = excused \cup {s \in Session : \E c \in Caller : call[c].op = "reply" /\ call[c].session = s}
    /\ call' = [c \in Caller |-> NoCall]
    /\ UNCHANGED <<log, status, result>>

Reply(c) ==
    \/ (\E s \in Session : CreateSession(c, s)) \/ CreateFails(c) \/ Send(c) \/ SendFails(c)
    \/ Poll(c) \/ ReadTurn(c) \/ ReadFails(c) \/ Delete(c) \/ DeleteFails(c)

Summary(c) == GetSession(c) \/ ListPage(c) \/ ListLastPage(c) \/ SummaryFails(c)

Next ==
    \/ \E s \in Session : WorkArrives(s) \/ WorkDeleted(s) \/ (\E type \in EventType : Respond(s, type))
    \/ \E c \in Caller : BeginReply(c) \/ Reply(c) \/ Expire(c)
    \/ \E c \in Caller : Summary(c) \/ (\E s \in Session : BeginSummary(c, s))
    \/ Crash

Spec == Init /\ [][Next]_vars

\* A request answers or times out, and time passes.
FairSpec == Spec /\ \A c \in Caller : WF_vars(Reply(c)) /\ WF_vars(Summary(c)) /\ SF_vars(Expire(c))

-----------------------------------------------------------------------------
Op == {"none", "reply", "summary"}

Call == [op : Op, pc : {"return", "create", "send", "poll", "read", "succeed", "fail", "get", "list"},
         session : Session \cup {None}, expired : BOOLEAN,
         read : Nat, text : SUBSET Nat, done : BOOLEAN, since : Nat]

Result == [op : Op, ok : BOOLEAN, session : Session \cup {None}, text : SUBSET Nat, since : Nat]

TypeOK ==
    /\ log \in [Session -> Seq(EventType)]
    /\ status \in [Session -> {"none", "live", "deleted"}]
    /\ call \in [Caller -> Call]
    /\ \A c \in Caller : call[c].session = None <=> call[c].pc \in {"return", "create"}
    /\ result \in [Caller -> Result]
    /\ excused \subseteq Session

Messages(s) == {i \in DOMAIN log[s] : log[s][i] = "agent.message"}

\* A reply is everything the agent said in a turn that ended, and in no error, although
\* the log grew between the pages and between one reading and the next.
ReplyIsWholeTurn ==
    \A c \in Caller :
        LET r == result[c]
        IN  r.op = "reply" /\ r.ok =>
                r.text = Messages(r.session) /\ Has(r.session, "idle") /\ ~Has(r.session, "error")

\* A throwaway session outlives its call only if the request to create it or the one
\* to delete it did not answer, or the process ended.
ThrowawaysDeleted ==
    \A s \in Session \ Work :
        status[s] = "live" /\ (\A c \in Caller : call[c].session # s) => s \in excused

\* A summary knows all that was said when it was asked for, of a log of any length.
SummaryRecent ==
    \A c \in Caller :
        LET r == result[c]
        IN  r.op = "summary" /\ r.ok => \A i \in Messages(r.session) : i <= r.since => i \in r.text

\* A call returns, though the agent never does.
CallsReturn == \A c \in Caller : call[c].op # "none" ~> call[c].op = "none"
=============================================================================
