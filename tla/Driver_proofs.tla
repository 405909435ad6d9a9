--------------------------- MODULE Driver_proofs -----------------------------
(***************************************************************************)
(* What a reply, a summary and a throwaway session are, for any number of  *)
(* calls and sessions, logs and pages of any length.                       *)
(*                                                                         *)
(* A call owns its throwaway session from the create to the delete: no     *)
(* other call has it (Owned).  So its log is one turn, which nothing       *)
(* follows (OneTurn), and a reading that saw the end of the turn saw all   *)
(* of it.  A reading is right at every page for as far as it has got       *)
(* (ReadSound), although the log grows, because it only grows at its end.  *)
(***************************************************************************)
EXTENDS Driver, TLAPS

\* What the call knows of the log is what the log says so far as it was read.
ReadSound(k) ==
    /\ k.read <= Len(log[k.session])
    /\ k.text = {i \in 1..k.read : log[k.session][i] = "agent.message"}
    /\ k.done <=> \E i \in 1..k.read : log[k.session][i] = "idle"

ReplySound(k) ==
    /\ k.pc \in {"create", "send", "poll", "read", "succeed", "fail"}
    /\ k.pc = "create" => k.read = 0 /\ k.text = {} /\ ~k.done
    /\ k.pc # "create" => k.session \in Session \ Work /\ status[k.session] = "live"
    /\ k.pc = "send" => log[k.session] = <<>>
    /\ k.pc \in {"poll", "read", "succeed"} =>
        /\ log[k.session] # <<>>
        /\ \A i \in 1..k.read : log[k.session][i] # "error"
    /\ k.pc = "succeed" => k.done /\ k.read = Len(log[k.session])

SummarySound(k) ==
    /\ k.pc \in {"get", "list"}
    /\ k.session \in Work
    /\ k.since <= Len(log[k.session])

CallSound(k) ==
    /\ k.session = None <=> k.pc \in {"return", "create"}
    /\ k.session # None => ReadSound(k)
    /\ k.op = "none" => k.pc = "return"
    /\ k.op = "reply" => ReplySound(k)
    /\ k.op = "summary" => SummarySound(k)

\* No throwaway session is in two hands.
Owned ==
    \A c, d \in Caller :
        call[c].op = "reply" /\ call[d].op = "reply" /\ call[c].session = call[d].session =>
            c = d \/ call[c].session = None

\* A throwaway session is never used again: its log is empty, or a turn.
OneTurn ==
    \A s \in Session \ Work :
        /\ status[s] = "none" => log[s] = <<>>
        /\ \A i \in DOMAIN log[s] : log[s][i] \in {"idle", "error"} => i = Len(log[s])

WorkExists == \A s \in Work : status[s] # "none"

ReplyResult(r) ==
    /\ r.session \in Session \ Work
    /\ r.text = Messages(r.session) /\ Has(r.session, "idle") /\ ~Has(r.session, "error")

SummaryResult(r) ==
    /\ r.session \in Work
    /\ r.since <= Len(log[r.session])
    /\ \A i \in Messages(r.session) : i <= r.since => i \in r.text

ResultSound(r) ==
    r.ok => (r.op = "reply" => ReplyResult(r)) /\ (r.op = "summary" => SummaryResult(r))

Inv ==
    /\ TypeOK
    /\ \A c \in Caller : CallSound(call[c]) /\ ResultSound(result[c])
    /\ Owned
    /\ OneTurn
    /\ WorkExists
    /\ ThrowawaysDeleted

-----------------------------------------------------------------------------
(* Pages.                                                                   *)

LEMMA MinOfTwo ==
    ASSUME NEW a \in Nat, NEW b \in Nat
    PROVE  Min({a, b}) = IF a <= b THEN a ELSE b
<1>1. \E x \in {a, b} : \A y \in {a, b} : x <= y
    OBVIOUS
<1> QED
    BY <1>1 DEF Min

\* A page begins where the last one ended and ends in the log.
LEMMA PageFacts ==
    ASSUME TypeOK, NEW k \in Call, k.session \in Session, k.read <= Len(log[k.session])
    PROVE  /\ Len(log[k.session]) \in Nat
           /\ PageEnd(k) \in Nat
           /\ k.read <= PageEnd(k) /\ PageEnd(k) <= Len(log[k.session])
           /\ ~MoreThan(k) => PageEnd(k) = Len(log[k.session])
<1>1. Len(log[k.session]) \in Nat /\ k.read \in Nat /\ k.read + PageSize \in Nat
    BY SizeAssumption DEF TypeOK, Call
<1>2. PageEnd(k) = IF k.read + PageSize <= Len(log[k.session])
                   THEN k.read + PageSize ELSE Len(log[k.session])
    BY <1>1, MinOfTwo DEF PageEnd
<1> QED
    BY <1>1, <1>2, SizeAssumption DEF MoreThan

\* A call that has read one more page still knows what the log says so far.
LEMMA ScannedSound ==
    ASSUME TypeOK, NEW k \in Call, k.session \in Session, ReadSound(k)
    PROVE  /\ Scanned(k) \in Call
           /\ ReadSound(Scanned(k))
           /\ Scanned(k).read = PageEnd(k)
           /\ Scanned(k).op = k.op /\ Scanned(k).pc = k.pc
           /\ Scanned(k).session = k.session /\ Scanned(k).since = k.since
<1> DEFINE said == {i \in Page(k) : log[k.session][i] = "agent.message"}
           over == {i \in Page(k) : log[k.session][i] = "idle"} # {}
<1>1. /\ Len(log[k.session]) \in Nat /\ PageEnd(k) \in Nat /\ k.read \in Nat
      /\ k.read <= PageEnd(k) /\ PageEnd(k) <= Len(log[k.session])
    BY PageFacts DEF ReadSound, Call
<1>2. Scanned(k) = [k EXCEPT !.read = PageEnd(k), !.text = k.text \cup said, !.done = k.done \/ over]
    BY DEF Scanned, Call
<1>3. said \in SUBSET Nat /\ over \in BOOLEAN
    BY <1>1 DEF Page
<1>4. 1..PageEnd(k) = (1..k.read) \cup Page(k)
    BY <1>1 DEF Page
<1>5. k.text \cup said = {i \in 1..PageEnd(k) : log[k.session][i] = "agent.message"}
    BY <1>4 DEF ReadSound
<1>6. (k.done \/ over) <=> \E i \in 1..PageEnd(k) : log[k.session][i] = "idle"
    BY <1>4 DEF ReadSound
<1>7. /\ Scanned(k).read = PageEnd(k) /\ Scanned(k).text = k.text \cup said
      /\ Scanned(k).done = (k.done \/ over)
      /\ Scanned(k).op = k.op /\ Scanned(k).pc = k.pc
      /\ Scanned(k).session = k.session /\ Scanned(k).since = k.since
    BY <1>2 DEF Call
<1>8. Scanned(k) \in Call
    BY <1>1, <1>2, <1>3 DEF Call
<1>9. ReadSound(Scanned(k))
    BY <1>1, <1>5, <1>6, <1>7 DEF ReadSound
<1> QED
    BY <1>7, <1>8, <1>9

-----------------------------------------------------------------------------
(* A log that grows at its end.                                             *)

LEMMA LogGrows ==
    ASSUME TypeOK, NEW s \in Session, NEW type \in EventType, Logged(s, type)
    PROVE  /\ log' \in [Session -> Seq(EventType)]
           /\ \A t \in Session : t # s => log'[t] = log[t]
           /\ \A t \in Session : Len(log[t]) \in Nat /\ Len(log'[t]) \in Nat
           /\ \A t \in Session : Len(log[t]) <= Len(log'[t])
           /\ \A t \in Session : \A i \in 1..Len(log[t]) : log'[t][i] = log[t][i]
           /\ Len(log'[s]) = Len(log[s]) + 1
           /\ log'[s][Len(log[s]) + 1] = type
           /\ log'[s] # <<>>
<1>1. /\ log \in [Session -> Seq(EventType)] /\ log' = [log EXCEPT ![s] = Append(log[s], type)]
    BY DEF TypeOK, Logged
<1>2. log[s] \in Seq(EventType) /\ log'[s] = Append(log[s], type)
    BY <1>1
<1>3. /\ Len(log'[s]) = Len(log[s]) + 1
      /\ \A i \in 1..Len(log[s]) : log'[s][i] = log[s][i]
      /\ log'[s][Len(log[s]) + 1] = type
      /\ log'[s] \in Seq(EventType) /\ log'[s] # <<>>
    BY <1>2
<1>4. \A t \in Session : t # s => log'[t] = log[t]
    BY <1>1
<1>5. log' \in [Session -> Seq(EventType)]
    BY <1>1, <1>3
<1>6. \A t \in Session : Len(log[t]) \in Nat /\ Len(log'[t]) \in Nat
    BY <1>1, <1>5
<1>7. \A t \in Session : Len(log[t]) <= Len(log'[t])
    BY <1>3, <1>4, <1>6
<1>8. \A t \in Session : \A i \in 1..Len(log[t]) : log'[t][i] = log[t][i]
    BY <1>3, <1>4
<1> QED
    BY <1>3, <1>4, <1>5, <1>6, <1>7, <1>8

\* What a call knows of a session stays right.
LEMMA CallGrows ==
    ASSUME TypeOK, NEW s \in Session, NEW type \in EventType, Logged(s, type), status' = status,
           NEW k \in Call, CallSound(k),
           k.op = "reply" /\ k.pc \in {"send", "succeed"} => k.session # s
    PROVE  CallSound(k)'
<1> USE LogGrows
<1>1. k.session = None \/ k.session \in Session
    BY DEF Call
<1>2. k.session \in Session => k.read \in Nat /\ Len(log[k.session]) \in Nat
    BY DEF Call
<1>3. ASSUME k.session \in Session, ReadSound(k) PROVE \A i \in 1..k.read : log'[k.session][i] = log[k.session][i]
  <2>1. k.read \in Nat /\ Len(log[k.session]) \in Nat /\ k.read <= Len(log[k.session])
      BY <1>2, <1>3 DEF ReadSound
  <2>2. 1..k.read \subseteq 1..Len(log[k.session])
      BY <2>1
  <2> QED
      BY <1>3, <2>2
<1>4. k.session # None => ReadSound(k)'
  <2>1. SUFFICES ASSUME k.session # None PROVE ReadSound(k)'
      OBVIOUS
  <2>2. ReadSound(k) /\ k.session \in Session
      BY <1>1, <2>1 DEF CallSound
  <2>3. \A i \in 1..k.read : log'[k.session][i] = log[k.session][i]
      BY <1>3, <2>2
  <2>4. k.read <= Len(log'[k.session])
      BY <1>2, <2>2 DEF ReadSound
  <2>5. {i \in 1..k.read : log'[k.session][i] = "agent.message"} = {i \in 1..k.read : log[k.session][i] = "agent.message"}
      BY <2>3
  <2>6. (\E i \in 1..k.read : log'[k.session][i] = "idle") <=> \E i \in 1..k.read : log[k.session][i] = "idle"
      BY <2>3
  <2> QED
      BY <2>2, <2>4, <2>5, <2>6 DEF ReadSound
<1>5. k.op = "reply" => ReplySound(k)'
  <2>1. SUFFICES ASSUME k.op = "reply" PROVE ReplySound(k)'
      OBVIOUS
  <2>2. ReplySound(k)
      BY <2>1 DEF CallSound
  <2>4. k.pc \in {"poll", "read", "succeed"} => log'[k.session] # <<>>
      BY <2>2 DEF ReplySound
  <2>5. k.pc \in {"poll", "read", "succeed"} => \A i \in 1..k.read : log'[k.session][i] # "error"
      BY <1>1, <1>3, <2>2 DEF ReplySound, CallSound
  <2> QED
      BY <2>1, <2>2, <2>4, <2>5 DEF ReplySound
<1>6. k.op = "summary" => SummarySound(k)'
  <2>1. SUFFICES ASSUME k.op = "summary" PROVE SummarySound(k)'
      OBVIOUS
  <2>2. SummarySound(k) /\ k.session \in Session /\ k.since \in Nat
      BY <2>1, SessionAssumption DEF CallSound, SummarySound, Call
  <2>3. Len(log[k.session]) \in Nat /\ Len(log'[k.session]) \in Nat /\ Len(log[k.session]) <= Len(log'[k.session])
      BY <2>2
  <2> QED
      BY <2>2, <2>3 DEF SummarySound
<1> QED
    BY <1>4, <1>5, <1>6 DEF CallSound

\* The turn in the session's log has not ended, or there may be more of them.
Open(s) == s \in Work \/ \A i \in DOMAIN log[s] : log[s][i] \notin {"idle", "error"}

\* What a call returned stays right: nothing follows a turn that ended.
LEMMA ResultGrows ==
    ASSUME TypeOK, NEW s \in Session, NEW type \in EventType, Logged(s, type), Open(s),
           NEW r \in Result, ResultSound(r)
    PROVE  ResultSound(r)'
<1> USE LogGrows
<1>1. SUFFICES ASSUME r.ok PROVE (r.op = "reply" => ReplyResult(r)') /\ (r.op = "summary" => SummaryResult(r)')
    BY DEF ResultSound
<1>2. r.op = "reply" => ReplyResult(r)'
  <2>1. SUFFICES ASSUME r.op = "reply" PROVE ReplyResult(r)'
      OBVIOUS
  <2>2. ReplyResult(r)
      BY <1>1, <2>1 DEF ResultSound
  <2>3. r.session # s
      BY <2>2 DEF ReplyResult, Has, Open
  <2>4. log'[r.session] = log[r.session]
      BY <2>2, <2>3 DEF ReplyResult
  <2> QED
      BY <2>2, <2>4 DEF ReplyResult, Messages, Has
<1>3. r.op = "summary" => SummaryResult(r)'
  <2>1. SUFFICES ASSUME r.op = "summary" PROVE SummaryResult(r)'
      OBVIOUS
  <2>2. SummaryResult(r)
      BY <1>1, <2>1 DEF ResultSound
  <2>3. r.session \in Session /\ r.since \in Nat
      BY <2>2, SessionAssumption DEF SummaryResult, Result
  <2>4. Len(log[r.session]) \in Nat /\ Len(log'[r.session]) \in Nat /\ Len(log[r.session]) <= Len(log'[r.session])
      BY <2>3
  <2>5. r.since <= Len(log'[r.session])
      BY <2>2, <2>3, <2>4 DEF SummaryResult
  <2>6. ASSUME NEW i \in Messages(r.session)', i <= r.since PROVE i \in r.text
    <3>1. log'[r.session] \in Seq(EventType) /\ log[r.session] \in Seq(EventType)
        BY <2>3 DEF TypeOK
    <3>2. i \in 1..Len(log[r.session])
        BY <2>2, <2>3, <2>4, <2>6, <3>1 DEF SummaryResult, Messages
    <3>3. i \in Messages(r.session)
        BY <2>3, <2>6, <3>1, <3>2 DEF Messages
    <3> QED
        BY <2>2, <2>6, <3>3 DEF SummaryResult
  <2> QED
      BY <2>2, <2>5, <2>6 DEF SummaryResult
<1> QED
    BY <1>2, <1>3

LEMMA TurnGrows ==
    ASSUME TypeOK, NEW s \in Session, NEW type \in EventType, Logged(s, type), Open(s),
           OneTurn, status[s] = "live", status' = status
    PROVE  OneTurn'
<1> USE LogGrows
<1>1. SUFFICES ASSUME NEW t \in Session \ Work
               PROVE  /\ status[t] = "none" => log'[t] = <<>>
                      /\ \A i \in DOMAIN log'[t] : log'[t][i] \in {"idle", "error"} => i = Len(log'[t])
    BY DEF OneTurn
<1>2. CASE t # s
    BY <1>2 DEF OneTurn
<1>3. CASE t = s
  <2>1. \A i \in 1..Len(log[s]) : log[s][i] \notin {"idle", "error"}
      BY <1>1, <1>3 DEF Open, TypeOK
  <2>2. DOMAIN log'[s] = 1..(Len(log[s]) + 1) /\ Len(log[s]) \in Nat
      BY DEF TypeOK
  <2>3. ASSUME NEW i \in DOMAIN log'[s], log'[s][i] \in {"idle", "error"} PROVE i = Len(log'[s])
      BY <2>1, <2>2, <2>3
  <2> QED
      BY <1>3, <2>3
<1> QED
    BY <1>2, <1>3

-----------------------------------------------------------------------------
(* The kinds of steps.                                                      *)

\* A call's record after a step is a value like any other.
LEMMA CallAfter ==
    ASSUME NEW c \in Caller, NEW k, call'[c] = k, CallSound(k)'
    PROVE  CallSound(call[c])'
BY DEF CallSound, ReadSound, ReplySound, SummarySound

\* What a call knows is right whatever happens to other sessions' status.
LEMMA CallKept ==
    ASSUME NEW c \in Caller, call'[c] = call[c], CallSound(call[c]), log' = log,
           call[c].op = "reply" /\ call[c].pc # "create" => status'[call[c].session] = "live"
    PROVE  CallSound(call[c])'
BY DEF CallSound, ReadSound, ReplySound, SummarySound

LEMMA ResultKept ==
    ASSUME NEW c \in Caller, result'[c] = result[c], ResultSound(result[c]), log' = log
    PROVE  ResultSound(result[c])'
BY DEF ResultSound, ReplyResult, SummaryResult, Messages, Has

\* A call goes on: nothing but its own record changes.
LEMMA CallStep ==
    ASSUME Inv, NEW c \in Caller, NEW k \in Call, SetCall(c, k),
           UNCHANGED <<log, status, result, excused>>,
           CallSound(k),
           k.op = "reply" /\ k.session # None => call[c].op = "reply" /\ k.session = call[c].session,
           call[c].session \in Session \ Work => k.session = call[c].session
    PROVE  Inv'
<1>1. call' = [call EXCEPT ![c] = k] /\ call \in [Caller -> Call]
    BY DEF SetCall, Inv, TypeOK
<1>2. call'[c] = k /\ \A d \in Caller : d # c => call'[d] = call[d]
    BY <1>1
<1>3. \A d \in Caller : CallSound(call'[d])
    BY <1>2 DEF Inv
<1>4. TypeOK'
    BY <1>1, <1>2, <1>3 DEF Inv, TypeOK, CallSound
<1>5. ASSUME NEW d \in Caller PROVE CallSound(call[d])' /\ ResultSound(result[d])'
  <2>1. CallSound(call'[d])
      BY <1>3
  <2>2. CallSound(call[d])'
      BY <2>1 DEF CallSound, ReadSound, ReplySound, SummarySound
  <2>3. ResultSound(result[d])'
      BY DEF Inv, ResultSound, ReplyResult, SummaryResult, Messages, Has
  <2> QED
      BY <2>2, <2>3
<1>6. Owned'
    BY <1>2 DEF Inv, Owned
<1>7. OneTurn' /\ WorkExists'
    BY DEF Inv, OneTurn, WorkExists
<1>8. ThrowawaysDeleted'
    BY <1>2 DEF Inv, ThrowawaysDeleted
<1> QED
    BY <1>4, <1>5, <1>6, <1>7, <1>8 DEF Inv

\* A call ends, and may leave its session deleted, or one that nobody will delete.
LEMMA EndStep ==
    ASSUME Inv, NEW c \in Caller, NEW r \in Result, ResultSound(r),
           result' = [result EXCEPT ![c] = r], SetCall(c, NoCall), log' = log,
           status' \in [Session -> {"none", "live", "deleted"}],
           excused' \in SUBSET Session, excused \subseteq excused',
           \A s \in Session : status'[s] # status[s] =>
                s \notin Work /\ status'[s] # "none"
                /\ \A d \in Caller : call[d].op = "reply" /\ call[d].session = s => d = c,
           \A s \in Session \ Work : status'[s] = "live" /\ (status[s] # "live" \/ s = call[c].session)
                => s \in excused'
    PROVE  Inv'
<1>1. call' = [call EXCEPT ![c] = NoCall] /\ call \in [Caller -> Call] /\ NoCall \in Call
    BY DEF SetCall, Inv, TypeOK, NoCall, Call, Op
<1>2. call'[c] = NoCall /\ \A d \in Caller : d # c => call'[d] = call[d]
    BY <1>1
<1>3. CallSound(NoCall)'
    BY DEF CallSound, NoCall
<1>4. ASSUME NEW d \in Caller PROVE CallSound(call[d])'
  <2>1. CASE d = c
      BY <1>2, <1>3, <2>1 DEF CallSound, ReadSound, ReplySound, SummarySound
  <2>2. CASE d # c
    <3>1. call'[d] = call[d] /\ CallSound(call[d]) /\ call[d] \in Call
        BY <1>1, <1>2, <2>2 DEF Inv
    <3>2. call[d].op = "reply" /\ call[d].pc # "create" => status'[call[d].session] = "live"
        BY <2>2, <3>1 DEF CallSound, ReplySound
    <3> QED
        BY <3>1, <3>2 DEF CallSound, ReadSound, ReplySound, SummarySound
  <2> QED
      BY <2>1, <2>2
<1>5. TypeOK'
  <2>1. \A d \in Caller : call'[d].session = None <=> call'[d].pc \in {"return", "create"}
      BY <1>4 DEF CallSound
  <2> QED
      BY <1>1, <2>1 DEF Inv, TypeOK
<1>6. \A d \in Caller : ResultSound(result[d])'
  <2>1. result'[c] = r /\ \A d \in Caller : d # c => result'[d] = result[d]
      BY DEF Inv, TypeOK
  <2> QED
      BY <2>1 DEF Inv, ResultSound, ReplyResult, SummaryResult, Messages, Has
<1>7. Owned'
    BY <1>2 DEF Inv, Owned, NoCall
<1>8. OneTurn' /\ WorkExists'
    BY SessionAssumption DEF Inv, OneTurn, WorkExists
<1>9. ThrowawaysDeleted'
  <2>1. SUFFICES ASSUME NEW s \in Session \ Work, status'[s] = "live", \A d \in Caller : call'[d].session # s
                 PROVE  s \in excused'
      BY DEF ThrowawaysDeleted
  <2>2. CASE status[s] # "live" \/ s = call[c].session
      BY <2>1, <2>2
  <2>3. CASE status[s] = "live" /\ s # call[c].session
      BY <1>2, <2>1, <2>3 DEF Inv, ThrowawaysDeleted
  <2> QED
      BY <2>2, <2>3
<1> QED
    BY <1>4, <1>5, <1>6, <1>7, <1>8, <1>9 DEF Inv

\* The runtime adds an event to a log in which more may come.
LEMMA LogStep ==
    ASSUME Inv, NEW s \in Session, NEW type \in EventType, Logged(s, type), Open(s), status[s] = "live",
           UNCHANGED <<status, result, excused>>, call' \in [Caller -> Call],
           \A c \in Caller : CallSound(call[c])',
           \A c \in Caller : call'[c].session = call[c].session /\ call'[c].op = call[c].op
    PROVE  Inv'
<1>1. ASSUME NEW c \in Caller PROVE ResultSound(result[c])'
  <2>1. PICK r \in Result : r = result[c] /\ r = result'[c]
      BY DEF Inv, TypeOK
  <2>2. ResultSound(r)
      BY <2>1 DEF Inv
  <2>3. ResultSound(r)'
      BY <2>2, ResultGrows DEF Inv
  <2> QED
      BY <2>1, <2>3 DEF ResultSound, ReplyResult, SummaryResult, Messages, Has
<1>2. TypeOK'
  <2>1. log' \in [Session -> Seq(EventType)]
      BY LogGrows DEF Inv
  <2> QED
      BY <2>1 DEF Inv, TypeOK, CallSound
<1>3. Owned'
    BY DEF Inv, Owned
<1>4. OneTurn'
    BY TurnGrows DEF Inv
<1>5. WorkExists'
    BY DEF Inv, WorkExists
<1>6. ThrowawaysDeleted'
    BY DEF Inv, ThrowawaysDeleted
<1> QED
    BY <1>1, <1>2, <1>3, <1>4, <1>5, <1>6 DEF Inv

-----------------------------------------------------------------------------
(* The actions.                                                             *)

\* A session whose turn is running, or which has no log yet, is open.
LEMMA RunningOpen ==
    ASSUME Inv, NEW s \in Session, Running(s)
    PROVE  Open(s)
<1>1. SUFFICES ASSUME s \notin Work PROVE \A i \in DOMAIN log[s] : log[s][i] \notin {"idle", "error"}
    BY DEF Open
<1> QED
    BY <1>1 DEF Inv, OneTurn, Running

\* No call holds a session whose turn is running as one yet to begin, or over.
LEMMA RunningHeld ==
    ASSUME Inv, NEW s \in Session, Running(s), NEW c \in Caller,
           call[c].op = "reply", call[c].pc \in {"send", "succeed"}
    PROVE  call[c].session # s
<1>1. CallSound(call[c]) /\ ReplySound(call[c]) /\ call[c].session \in Session \ Work /\ ReadSound(call[c])
    BY SessionAssumption DEF Inv, CallSound, ReplySound
<1>2. CASE call[c].pc = "send"
    BY <1>1, <1>2 DEF ReplySound, Running
<1>3. CASE call[c].pc = "succeed"
  <2>1. PICK i \in 1..call[c].read : log[call[c].session][i] = "idle"
      BY <1>1, <1>3 DEF ReplySound, ReadSound
  <2>2. i \in DOMAIN log[call[c].session] /\ log[call[c].session] \in Seq(EventType)
      BY <1>1, <1>3, <2>1 DEF ReplySound, Inv, TypeOK
  <2>3. i = Len(log[call[c].session])
      BY <1>1, <2>1, <2>2 DEF Inv, OneTurn
  <2> QED
      BY <2>1, <2>3 DEF Running
<1> QED
    BY <1>2, <1>3

\* A call that does nothing while a log grows.
LEMMA CallWaits ==
    ASSUME Inv, NEW s \in Session, NEW type \in EventType, Logged(s, type), status' = status,
           NEW c \in Caller, call'[c] = call[c],
           call[c].op = "reply" /\ call[c].pc \in {"send", "succeed"} => call[c].session # s
    PROVE  CallSound(call[c])'
<1>1. PICK k \in Call : k = call[c]
    BY DEF Inv, TypeOK
<1>2. CallSound(k)'
    BY <1>1, CallGrows DEF Inv
<1> QED
    BY <1>1, <1>2, CallAfter

LEMMA RespondInv == 
    ASSUME Inv, NEW s \in Session, NEW type \in EventType, Respond(s, type) PROVE Inv'
<1>1. Open(s) /\ Running(s)
    BY RunningOpen DEF Respond
<1>2. \A c \in Caller : call[c].op = "reply" /\ call[c].pc \in {"send", "succeed"} => call[c].session # s
    BY <1>1, RunningHeld
<1>3. call' = call /\ call \in [Caller -> Call]
    BY DEF Respond, Inv, TypeOK
<1>4. \A c \in Caller : CallSound(call[c])'
    BY <1>2, <1>3, CallWaits DEF Respond
<1> QED
    BY <1>1, <1>3, <1>4, LogStep DEF Respond

LEMMA WorkArrivesInv == ASSUME Inv, NEW s \in Session, WorkArrives(s) PROVE Inv'
<1>1. Open(s) /\ "user.message" \in EventType
    BY DEF WorkArrives, Open, EventType
<1>2. \A c \in Caller : call[c].op = "reply" /\ call[c].pc \in {"send", "succeed"} => call[c].session # s
    BY DEF WorkArrives, Inv, CallSound, ReplySound
<1>3. call' = call /\ call \in [Caller -> Call]
    BY DEF WorkArrives, Inv, TypeOK
<1>4. \A c \in Caller : CallSound(call[c])'
    BY <1>1, <1>2, <1>3, CallWaits DEF WorkArrives
<1> QED
    BY <1>1, <1>3, <1>4, LogStep DEF WorkArrives

LEMMA WorkDeletedInv == ASSUME Inv, NEW s \in Session, WorkDeleted(s) PROVE Inv'
<1>1. /\ status' \in [Session -> {"none", "live", "deleted"}]
      /\ \A t \in Session \ Work : status'[t] = status[t]
      /\ \A t \in Work : status'[t] # "none"
    BY SessionAssumption DEF WorkDeleted, Inv, TypeOK, WorkExists
<1>2. TypeOK'
    BY <1>1 DEF WorkDeleted, Inv, TypeOK
<1>3. ASSUME NEW c \in Caller PROVE CallSound(call[c])' /\ ResultSound(result[c])'
  <2>1. call'[c] = call[c] /\ log' = log /\ result' = result /\ CallSound(call[c]) /\ ResultSound(result[c])
      BY DEF WorkDeleted, Inv
  <2>2. CallSound(call[c])'
      BY <1>1, <2>1 DEF CallSound, ReadSound, ReplySound, SummarySound
  <2>3. ResultSound(result[c])'
      BY <2>1 DEF ResultSound, ReplyResult, SummaryResult, Messages, Has
  <2> QED
      BY <2>2, <2>3
<1>4. Owned' /\ OneTurn' /\ WorkExists' /\ ThrowawaysDeleted'
    BY <1>1 DEF WorkDeleted, Inv, Owned, OneTurn, WorkExists, ThrowawaysDeleted
<1> QED
    BY <1>2, <1>3, <1>4 DEF Inv

LEMMA BeginReplyInv == ASSUME Inv, NEW c \in Caller, BeginReply(c) PROVE Inv'
<1> DEFINE k == [NoCall EXCEPT !.op = "reply", !.pc = "create"]
<1>1. /\ k \in Call /\ k.op = "reply" /\ k.pc = "create" /\ k.session = None
      /\ k.read = 0 /\ k.text = {} /\ ~k.done
    BY DEF NoCall, Call, Op
<1>2. CallSound(k)
    BY <1>1 DEF CallSound, ReplySound
<1>3. call[c].session = None
    BY DEF BeginReply, Inv, CallSound
<1> QED
    BY <1>1, <1>2, <1>3, SessionAssumption, CallStep DEF BeginReply

LEMMA CreateSessionInv == ASSUME Inv, NEW c \in Caller, NEW s \in Session, CreateSession(c, s) PROVE Inv'
<1>1. PICK k \in Call : k = [call[c] EXCEPT !.pc = "send", !.session = s]
    BY DEF Inv, TypeOK, Call
<1>2. /\ status' = [status EXCEPT ![s] = "live"] /\ call' = [call EXCEPT ![c] = k]
      /\ log' = log /\ result' = result /\ excused' = excused /\ status[s] = "none"
      /\ call[c].op = "reply" /\ call[c].pc = "create"
    BY <1>1 DEF CreateSession, SetCall, At
<1>3. /\ s \notin Work /\ s # None /\ log[s] = <<>> /\ call[c].session = None
      /\ call[c].read = 0 /\ call[c].text = {} /\ ~call[c].done
    BY <1>2, SessionAssumption DEF Inv, OneTurn, WorkExists, CallSound, ReplySound
<1>4. /\ k.op = "reply" /\ k.pc = "send" /\ k.session = s /\ k.read = 0 /\ k.text = {} /\ ~k.done
    BY <1>1, <1>2, <1>3 DEF Inv, TypeOK, Call
<1>5. /\ call'[c] = k /\ \A d \in Caller : d # c => call'[d] = call[d]
      /\ status'[s] = "live" /\ \A t \in Session : t # s => status'[t] = status[t]
    BY <1>2 DEF Inv, TypeOK
<1>6. ASSUME NEW d \in Caller, call[d].op = "reply" PROVE call[d].session # s
    BY <1>2, <1>3, <1>6 DEF Inv, CallSound, ReplySound
<1>7. CallSound(k)'
  <2>1. log'[s] = <<>> /\ Len(log'[s]) = 0
      BY <1>2, <1>3
  <2> QED
      BY <1>3, <1>4, <1>5, <2>1 DEF CallSound, ReadSound, ReplySound
<1>8. ASSUME NEW d \in Caller PROVE CallSound(call[d])' /\ ResultSound(result[d])'
  <2>1. CASE d = c
    <3>1. CallSound(call[d])'
        BY <1>5, <1>7, <2>1, CallAfter
    <3>2. ResultSound(result[d])'
        BY <1>2, ResultKept DEF Inv
    <3> QED
        BY <3>1, <3>2
  <2>2. CASE d # c
    <3>1. call'[d] = call[d] /\ CallSound(call[d]) /\ log' = log
        BY <1>2, <1>5, <2>2 DEF Inv
    <3>2. call[d].op = "reply" /\ call[d].pc # "create" => status'[call[d].session] = "live"
        BY <1>5, <1>6, <3>1 DEF CallSound, ReplySound
    <3>3. CallSound(call[d])'
        BY <3>1, <3>2, CallKept
    <3>4. ResultSound(result[d])'
        BY <1>2, ResultKept DEF Inv
    <3> QED
        BY <3>3, <3>4
  <2> QED
      BY <2>1, <2>2
<1>9. TypeOK'
    BY <1>2, <1>8 DEF Inv, TypeOK, CallSound
<1>10. Owned'
    BY <1>3, <1>4, <1>5, <1>6 DEF Inv, Owned
<1>11. OneTurn' /\ WorkExists'
    BY <1>2, <1>5 DEF Inv, OneTurn, WorkExists
<1>12. ThrowawaysDeleted'
  <2>1. SUFFICES ASSUME NEW t \in Session \ Work, status'[t] = "live", \A d \in Caller : call'[d].session # t
                 PROVE  t \in excused'
      BY DEF ThrowawaysDeleted
  <2>2. t # s /\ t # None
      BY <1>4, <1>5, <2>1, SessionAssumption
  <2>3. status[t] = "live"
      BY <1>5, <2>1, <2>2
  <2>4. \A d \in Caller : call[d].session # t
      BY <1>3, <1>5, <2>1, <2>2
  <2> QED
      BY <1>2, <2>3, <2>4 DEF Inv, ThrowawaysDeleted
<1> QED
    BY <1>8, <1>9, <1>10, <1>11, <1>12 DEF Inv

LEMMA CreateFailsInv == ASSUME Inv, NEW c \in Caller, CreateFails(c) PROVE Inv'
<1>1. PICK r \in Result : r = [op |-> call[c].op, ok |-> FALSE, session |-> call[c].session,
                                text |-> {}, since |-> call[c].since]
    BY DEF Inv, TypeOK, Call, Result
<1>2. /\ result' = [result EXCEPT ![c] = r] /\ SetCall(c, NoCall) /\ log' = log /\ ResultSound(r)
      /\ call[c].session = None
    BY <1>1, Zenon DEF CreateFails, Return, ResultSound, At, Inv, CallSound
<1>3. CASE UNCHANGED <<status, excused>>
    BY <1>2, <1>3, SessionAssumption, EndStep DEF Inv, TypeOK
<1>4. ASSUME NEW s \in Session, status[s] = "none", status' = [status EXCEPT ![s] = "live"],
             excused' = excused \cup {s}
      PROVE  Inv'
  <2>1. s \notin Work /\ \A d \in Caller : call[d].op = "reply" => call[d].session # s
      BY <1>4, SessionAssumption DEF Inv, WorkExists, CallSound, ReplySound
  <2>2. status'[s] = "live" /\ \A t \in Session : t # s => status'[t] = status[t]
      BY <1>4 DEF Inv, TypeOK
  <2>3. status' \in [Session -> {"none", "live", "deleted"}] /\ excused' \in SUBSET Session
      BY <1>4 DEF Inv, TypeOK
  <2>4. \A t \in Session : status'[t] # status[t] =>
            t \notin Work /\ status'[t] # "none"
            /\ \A d \in Caller : call[d].op = "reply" /\ call[d].session = t => d = c
      BY <2>1, <2>2
  <2>5. \A t \in Session \ Work : status'[t] = "live" /\ (status[t] # "live" \/ t = call[c].session)
            => t \in excused'
      BY <1>2, <1>4, <2>2, SessionAssumption
  <2>6. excused \subseteq excused'
      BY <1>4
  <2> QED
      BY <1>2, <2>3, <2>4, <2>5, <2>6, EndStep
<1> QED
    BY <1>3, <1>4 DEF CreateFails

\* The message is logged, and the call goes on to poll or to give up.
LEMMA SentInv ==
    ASSUME Inv, NEW c \in Caller, At(c, "reply", "send"), NEW pc \in {"poll", "fail"},
           Logged(call[c].session, "user.message"), SetCall(c, [call[c] EXCEPT !.pc = pc]),
           UNCHANGED <<status, result, excused>>
    PROVE  Inv'
<1>1. PICK k \in Call : k = [call[c] EXCEPT !.pc = pc]
    BY DEF Inv, TypeOK, Call
<1>2. PICK s \in Session \ Work : s = call[c].session /\ status[s] = "live" /\ log[s] = <<>>
    BY DEF At, Inv, CallSound, ReplySound
<1>3. call[c].op = "reply" /\ call[c].pc = "send" /\ call[c] \in Call /\ ReadSound(call[c]) /\ s # None
    BY <1>2, SessionAssumption DEF At, Inv, TypeOK, CallSound
<1>4. /\ k.op = "reply" /\ k.pc = pc /\ k.session = s /\ k.read = call[c].read /\ k.text = call[c].text
      /\ k.done = call[c].done
    BY <1>1, <1>2, <1>3 DEF Call
<1>5. call' = [call EXCEPT ![c] = k] /\ call' \in [Caller -> Call]
      /\ call'[c] = k /\ \A d \in Caller : d # c => call'[d] = call[d]
    BY <1>1 DEF SetCall, Inv, TypeOK
<1>6. Open(s) /\ "user.message" \in EventType
    BY <1>2 DEF Open, EventType
<1>7. ASSUME NEW d \in Caller, d # c, call[d].op = "reply" PROVE call[d].session # s
    BY <1>2, <1>3, <1>7 DEF Inv, Owned
<1>8. k.read = 0 /\ k.read \in Nat
    BY <1>2, <1>3, <1>4 DEF ReadSound, Call
<1>9. log'[s] # <<>> /\ Len(log'[s]) \in Nat
    BY <1>2, <1>6, LogGrows DEF Inv
<1>10. CallSound(k)'
    BY <1>2, <1>3, <1>4, <1>8, <1>9 DEF CallSound, ReadSound, ReplySound
<1>11. ASSUME NEW d \in Caller PROVE CallSound(call[d])'
  <2>1. CASE d = c
      BY <1>5, <1>10, <2>1, CallAfter
  <2>2. CASE d # c
      BY <1>2, <1>5, <1>6, <1>7, <2>2, CallWaits
  <2> QED
      BY <2>1, <2>2
<1>12. \A d \in Caller : call'[d].session = call[d].session /\ call'[d].op = call[d].op
    BY <1>2, <1>3, <1>4, <1>5
<1> QED
    BY <1>2, <1>5, <1>6, <1>11, <1>12, LogStep

LEMMA SendInv == ASSUME Inv, NEW c \in Caller, Send(c) PROVE Inv'
BY SentInv DEF Send

LEMMA SendFailsInv == ASSUME Inv, NEW c \in Caller, SendFails(c) PROVE Inv'
<1>1. CASE Logged(call[c].session, "user.message")
    BY <1>1, SentInv DEF SendFails
<1>2. CASE UNCHANGED log
  <2>1. PICK k \in Call : k = [call[c] EXCEPT !.pc = "fail"]
      BY DEF Inv, TypeOK, Call
  <2>2. At(c, "reply", "send") /\ CallSound(call[c]) /\ call[c] \in Call
      BY DEF SendFails, Inv, TypeOK
  <2>3. /\ k.op = "reply" /\ k.pc = "fail" /\ k.session = call[c].session
        /\ k.read = call[c].read /\ k.text = call[c].text /\ k.done = call[c].done
      BY <2>1, <2>2 DEF At, Call
  <2>4. CallSound(k)
      BY <2>2, <2>3 DEF At, CallSound, ReadSound, ReplySound
  <2> QED
      BY <1>2, <2>1, <2>2, <2>3, <2>4, CallStep DEF SendFails, At
<1> QED
    BY <1>1, <1>2 DEF SendFails

LEMMA ExpireInv == ASSUME Inv, NEW c \in Caller, Expire(c) PROVE Inv'
<1>1. PICK k \in Call : k = [call[c] EXCEPT !.expired = TRUE]
    BY DEF Inv, TypeOK, Call
<1>2. call[c].op = "reply" /\ CallSound(call[c]) /\ call[c] \in Call
    BY DEF Expire, Inv, TypeOK
<1>3. /\ k.op = "reply" /\ k.pc = call[c].pc /\ k.session = call[c].session
      /\ k.read = call[c].read /\ k.text = call[c].text /\ k.done = call[c].done
    BY <1>1, <1>2 DEF Call
<1>4. CallSound(k)
    BY <1>2, <1>3 DEF CallSound, ReadSound, ReplySound
<1> QED
    BY <1>1, <1>2, <1>3, <1>4, CallStep DEF Expire

\* A call that gives up goes on to delete its session.
LEMMA GivesUpInv ==
    ASSUME Inv, NEW c \in Caller, call[c].op = "reply", call[c].pc \in {"poll", "read"},
           SetCall(c, [call[c] EXCEPT !.pc = "fail"]), UNCHANGED <<log, status, result, excused>>
    PROVE  Inv'
<1>1. PICK k \in Call : k = [call[c] EXCEPT !.pc = "fail"]
    BY DEF Inv, TypeOK, Call
<1>2. CallSound(call[c]) /\ call[c] \in Call
    BY DEF Inv, TypeOK
<1>3. /\ k.op = "reply" /\ k.pc = "fail" /\ k.session = call[c].session
      /\ k.read = call[c].read /\ k.text = call[c].text /\ k.done = call[c].done
    BY <1>1, <1>2 DEF Call
<1>4. CallSound(k)
    BY <1>2, <1>3 DEF CallSound, ReadSound, ReplySound
<1> QED
    BY <1>1, <1>3, <1>4, CallStep

LEMMA PollInv == ASSUME Inv, NEW c \in Caller, Poll(c) PROVE Inv'
<1>1. At(c, "reply", "poll") /\ CallSound(call[c]) /\ call[c] \in Call
    BY DEF Poll, Inv, TypeOK
<1>2. CASE call[c].expired
    BY <1>1, <1>2, GivesUpInv DEF Poll, At
<1>3. CASE ~call[c].expired
  <2>1. PICK k \in Call : k = [call[c] EXCEPT !.pc = "read", !.read = 0, !.text = {}, !.done = FALSE]
      BY DEF Inv, TypeOK, Call
  <2>2. /\ k.op = "reply" /\ k.pc = "read" /\ k.session = call[c].session
        /\ k.read = 0 /\ k.text = {} /\ ~k.done
      BY <1>1, <2>1 DEF At, Call
  <2>3. k.session \in Session \ Work /\ ReplySound(call[c]) /\ k.session # None
      BY <1>1, <2>2, SessionAssumption DEF At, CallSound, ReplySound
  <2>4. Len(log[k.session]) \in Nat
      BY <2>3 DEF Inv, TypeOK
  <2>5. ReadSound(k)
      BY <2>2, <2>4 DEF ReadSound
  <2>6. CallSound(k)
      BY <1>1, <2>2, <2>3, <2>5 DEF At, CallSound, ReplySound
  <2> QED
      BY <1>1, <1>3, <2>1, <2>2, <2>6, CallStep DEF Poll, At
<1> QED
    BY <1>2, <1>3

LEMMA ReadTurnInv == ASSUME Inv, NEW c \in Caller, ReadTurn(c) PROVE Inv'
<1>1. At(c, "reply", "read") /\ CallSound(call[c]) /\ call[c] \in Call /\ TypeOK
    BY DEF ReadTurn, Inv, TypeOK
<1>2. CASE EndsInError(call[c])
    BY <1>1, <1>2, GivesUpInv DEF ReadTurn, At
<1>3. CASE ~EndsInError(call[c])
  <2> DEFINE next == IF MoreThan(call[c]) THEN "read" ELSE IF Scanned(call[c]).done THEN "succeed" ELSE "poll"
  <2>1. /\ call[c].session \in Session \ Work /\ call[c].session # None
        /\ ReplySound(call[c]) /\ ReadSound(call[c])
      BY <1>1, SessionAssumption DEF At, CallSound, ReplySound
  <2>2. PICK m \in Call : m = Scanned(call[c])
      BY <1>1, <2>1, ScannedSound
  <2>3. /\ ReadSound(m) /\ m.read = PageEnd(call[c])
        /\ m.op = "reply" /\ m.session = call[c].session
      BY <1>1, <2>1, <2>2, ScannedSound DEF At
  <2>4. PICK k \in Call : k = [m EXCEPT !.pc = next]
      BY <2>2 DEF Call
  <2>5. /\ k.op = "reply" /\ k.pc = next /\ k.session = call[c].session
        /\ k.read = m.read /\ k.text = m.text /\ k.done = m.done
      BY <2>2, <2>3, <2>4 DEF Call
  <2>6. ReadSound(k)
      BY <2>3, <2>5 DEF ReadSound
  <2>7. \A i \in 1..k.read : log[k.session][i] # "error"
    <3>1. 1..PageEnd(call[c]) = (1..call[c].read) \cup Page(call[c])
        BY <1>1, <2>1, PageFacts DEF Page, ReadSound, Call
    <3> QED
        BY <1>1, <1>3, <2>1, <2>3, <2>5, <3>1 DEF At, EndsInError, ReplySound
  <2>8. k.pc = "succeed" => k.done /\ k.read = Len(log[k.session])
      BY <1>1, <2>1, <2>2, <2>3, <2>5, PageFacts DEF ReadSound
  <2>9. k.pc \in {"read", "succeed", "poll"}
      BY <2>5
  <2>10. CallSound(k)
      BY <1>1, <2>1, <2>5, <2>6, <2>7, <2>8, <2>9 DEF At, CallSound, ReplySound
  <2>11. SetCall(c, k) /\ UNCHANGED <<log, status, result, excused>>
      BY <1>3, <2>2, <2>4 DEF ReadTurn
  <2> QED
      BY <1>1, <2>5, <2>10, <2>11, CallStep DEF At
<1> QED
    BY <1>2, <1>3

LEMMA ReadFailsInv == ASSUME Inv, NEW c \in Caller, ReadFails(c) PROVE Inv'
BY GivesUpInv DEF ReadFails, At

\* A call that leaves its loop well has the whole of a turn that ended well.
LEMMA LeavesWell ==
    ASSUME Inv, NEW c \in Caller, Leaving(c),
           NEW r \in Result,
           r = [op |-> call[c].op, ok |-> (call[c].pc = "succeed"), session |-> call[c].session,
                text |-> IF call[c].pc = "succeed" THEN call[c].text ELSE {}, since |-> call[c].since]
    PROVE  ResultSound(r)
<1>1. SUFFICES ASSUME call[c].pc = "succeed" PROVE ReplyResult(r)
    BY DEF ResultSound, Leaving
<1>2. /\ CallSound(call[c]) /\ ReplySound(call[c]) /\ call[c].session \in Session \ Work
      /\ ReadSound(call[c]) /\ call[c].done /\ call[c].read = Len(log[call[c].session])
      /\ r.session = call[c].session /\ r.text = call[c].text
    BY <1>1, SessionAssumption DEF Leaving, Inv, CallSound, ReplySound
<1>3. DOMAIN log[r.session] = 1..call[c].read
    BY <1>2 DEF Inv, TypeOK
<1>4. r.text = Messages(r.session)
    BY <1>2, <1>3 DEF ReadSound, Messages
<1>5. Has(r.session, "idle")
    BY <1>2, <1>3 DEF ReadSound, Has
<1>6. ~Has(r.session, "error")
    BY <1>1, <1>2, <1>3 DEF ReplySound, Has
<1> QED
    BY <1>2, <1>4, <1>5, <1>6 DEF ReplyResult

\* Whether or not the delete is carried out.
LEMMA LeaveInv == ASSUME Inv, NEW c \in Caller, Delete(c) \/ DeleteFails(c) PROVE Inv'
<1>1. PICK r \in Result :
        r = [op |-> call[c].op, ok |-> (call[c].pc = "succeed"), session |-> call[c].session,
             text |-> IF call[c].pc = "succeed" THEN call[c].text ELSE {}, since |-> call[c].since]
    BY DEF Inv, TypeOK, Call, Result
<1>2. Leaving(c)
    BY DEF Delete, DeleteFails
<1>3. ResultSound(r)
    BY <1>1, <1>2, LeavesWell
<1>4. result' = [result EXCEPT ![c] = r] /\ SetCall(c, NoCall) /\ log' = log
    BY <1>1 DEF Delete, DeleteFails, Return
<1>5. PICK s \in Session \ Work : s = call[c].session /\ call[c].op = "reply" /\ status[s] = "live"
    BY <1>2 DEF Leaving, Inv, CallSound, ReplySound
<1>6. \A d \in Caller : call[d].op = "reply" /\ call[d].session = s => d = c
    BY <1>5, SessionAssumption DEF Inv, Owned
<1>7. CASE Delete(c)
  <2>1. status' = [status EXCEPT ![s] = "deleted"] /\ excused' = excused
      BY <1>5, <1>7 DEF Delete
  <2>2. status' \in [Session -> {"none", "live", "deleted"}] /\ excused' \in SUBSET Session
      BY <2>1 DEF Inv, TypeOK
  <2>3. status'[s] = "deleted" /\ \A t \in Session : t # s => status'[t] = status[t]
      BY <2>1 DEF Inv, TypeOK
  <2>4. \A t \in Session : status'[t] # status[t] =>
            t \notin Work /\ status'[t] # "none"
            /\ \A d \in Caller : call[d].op = "reply" /\ call[d].session = t => d = c
      BY <1>6, <2>3
  <2>5. \A t \in Session \ Work : status'[t] = "live" /\ (status[t] # "live" \/ t = call[c].session)
            => t \in excused'
      BY <1>5, <2>3
  <2> QED
      BY <1>3, <1>4, <2>1, <2>2, <2>4, <2>5, EndStep
<1>8. CASE DeleteFails(c)
  <2>1. status' = status /\ excused' = excused \cup {s}
      BY <1>5, <1>8 DEF DeleteFails
  <2>2. status' \in [Session -> {"none", "live", "deleted"}] /\ excused' \in SUBSET Session
      BY <2>1 DEF Inv, TypeOK
  <2>3. \A t \in Session \ Work : status'[t] = "live" /\ (status[t] # "live" \/ t = call[c].session)
            => t \in excused'
      BY <1>5, <2>1
  <2> QED
      BY <1>3, <1>4, <2>1, <2>2, <2>3, EndStep
<1> QED
    BY <1>7, <1>8

LEMMA BeginSummaryInv == ASSUME Inv, NEW c \in Caller, NEW s \in Session, BeginSummary(c, s) PROVE Inv'
<1>1. Len(log[s]) \in Nat /\ s \in Work /\ s # None
    BY SessionAssumption DEF BeginSummary, Inv, TypeOK
<1>2. PICK k \in Call : k = [NoCall EXCEPT !.op = "summary", !.pc = "get", !.session = s, !.since = Len(log[s])]
    BY <1>1 DEF NoCall, Call, Op
<1>3. /\ k.op = "summary" /\ k.pc = "get" /\ k.session = s /\ k.since = Len(log[s])
      /\ k.read = 0 /\ k.text = {} /\ ~k.done
    BY <1>2 DEF NoCall
<1>4. ReadSound(k)
    BY <1>1, <1>3 DEF ReadSound
<1>5. CallSound(k)
    BY <1>1, <1>3, <1>4 DEF CallSound, SummarySound
<1>6. call[c].session = None
    BY DEF BeginSummary, Inv, CallSound
<1> QED
    BY <1>2, <1>3, <1>5, <1>6, SessionAssumption, CallStep DEF BeginSummary

LEMMA GetSessionInv == ASSUME Inv, NEW c \in Caller, GetSession(c) PROVE Inv'
<1>1. PICK k \in Call : k = [call[c] EXCEPT !.pc = "list"]
    BY DEF Inv, TypeOK, Call
<1>2. call[c].op = "summary" /\ CallSound(call[c]) /\ call[c] \in Call
    BY DEF GetSession, At, Inv, TypeOK
<1>3. /\ k.op = "summary" /\ k.pc = "list" /\ k.session = call[c].session /\ k.since = call[c].since
      /\ k.read = call[c].read /\ k.text = call[c].text /\ k.done = call[c].done
    BY <1>1, <1>2 DEF Call
<1>4. CallSound(k)
    BY <1>2, <1>3, SessionAssumption DEF CallSound, ReadSound, SummarySound
<1> QED
    BY <1>1, <1>3, <1>4, CallStep DEF GetSession

\* The call of a summary that lists.
LEMMA Listing ==
    ASSUME Inv, NEW c \in Caller, At(c, "summary", "list")
    PROVE  /\ call[c] \in Call /\ call[c].op = "summary" /\ call[c].pc = "list"
           /\ call[c].session \in Work /\ call[c].session \in Session /\ call[c].session # None
           /\ CallSound(call[c]) /\ SummarySound(call[c]) /\ ReadSound(call[c])
BY SessionAssumption DEF At, Inv, TypeOK, CallSound, SummarySound

LEMMA ListPageInv == ASSUME Inv, NEW c \in Caller, ListPage(c) PROVE Inv'
<1> USE Listing DEF ListPage
<1>1. PICK k \in Call : k = Scanned(call[c])
    BY ScannedSound DEF Inv
<1>2. /\ ReadSound(k) /\ k.op = "summary" /\ k.pc = "list"
      /\ k.session = call[c].session /\ k.since = call[c].since
    BY <1>1, ScannedSound DEF Inv
<1>3. CallSound(k)
    BY <1>2 DEF CallSound, SummarySound
<1> QED
    BY <1>1, <1>2, <1>3, CallStep

LEMMA ListLastPageInv == ASSUME Inv, NEW c \in Caller, ListLastPage(c) PROVE Inv'
<1> USE Listing DEF ListLastPage
<1>1. PICK k \in Call : k = Scanned(call[c])
    BY ScannedSound DEF Inv
<1>2. /\ ReadSound(k) /\ k.read = PageEnd(call[c]) /\ k.session = call[c].session
    BY <1>1, ScannedSound DEF Inv
<1>3. k.read = Len(log[k.session])
    BY <1>2, PageFacts DEF Inv, ReadSound
<1>4. PICK r \in Result : r = [op |-> "summary", ok |-> TRUE, session |-> call[c].session,
                               text |-> k.text, since |-> call[c].since]
    BY <1>1 DEF Call, Result, Op
<1>5. Messages(k.session) = k.text
    BY <1>2, <1>3 DEF Messages, ReadSound, Inv, TypeOK
<1>6. ResultSound(r)
    BY <1>2, <1>4, <1>5 DEF ResultSound, SummaryResult, SummarySound
<1>7. result' = [result EXCEPT ![c] = r] /\ SetCall(c, NoCall) /\ UNCHANGED <<log, status, excused>>
    BY <1>1, <1>4
<1> QED
    BY <1>6, <1>7, SessionAssumption, EndStep DEF Inv, TypeOK

LEMMA SummaryFailsInv == ASSUME Inv, NEW c \in Caller, SummaryFails(c) PROVE Inv'
<1>1. PICK r \in Result : r = [op |-> call[c].op, ok |-> FALSE, session |-> call[c].session,
                               text |-> {}, since |-> call[c].since]
    BY DEF Inv, TypeOK, Call, Result
<1>2. result' = [result EXCEPT ![c] = r] /\ SetCall(c, NoCall) /\ UNCHANGED <<log, status, excused>>
    BY <1>1 DEF SummaryFails, Return
<1>3. ResultSound(r)
    BY <1>1 DEF ResultSound
<1>4. call[c].session \in Work
    BY DEF SummaryFails, Inv, CallSound, SummarySound
<1> QED
    BY <1>2, <1>3, <1>4, EndStep DEF Inv, TypeOK

LEMMA CrashInv == ASSUME Inv, Crash PROVE Inv'
<1>1. /\ \A c \in Caller : call'[c] = NoCall
      /\ call' \in [Caller -> Call]
      /\ log' = log /\ status' = status /\ result' = result
    BY DEF Crash, NoCall, Call, Op
<1>2. excused \subseteq excused' /\ excused' \subseteq Session
    BY DEF Crash, Inv, TypeOK
<1>3. CallSound(NoCall)'
    BY DEF CallSound, NoCall
<1>4. ASSUME NEW c \in Caller PROVE CallSound(call[c])' /\ ResultSound(result[c])'
  <2>1. CallSound(call[c])'
      BY <1>1, <1>3 DEF CallSound, ReadSound, ReplySound, SummarySound
  <2>2. ResultSound(result[c])'
      BY <1>1, ResultKept DEF Inv
  <2> QED
      BY <2>1, <2>2
<1>5. TypeOK'
    BY <1>1, <1>2 DEF Inv, TypeOK, NoCall
<1>6. Owned'
    BY <1>1 DEF Owned, NoCall
<1>7. OneTurn' /\ WorkExists'
    BY <1>1 DEF Inv, OneTurn, WorkExists
<1>8. ThrowawaysDeleted'
  <2>1. SUFFICES ASSUME NEW s \in Session \ Work, status[s] = "live" PROVE s \in excused'
      BY <1>1 DEF ThrowawaysDeleted
  <2>2. CASE \E c \in Caller : call[c].op = "reply" /\ call[c].session = s
      BY <2>1, <2>2 DEF Crash
  <2>3. CASE \A c \in Caller : call[c].op = "reply" => call[c].session # s
    <3>1. \A c \in Caller : call[c].session # s
        BY <2>1, <2>3, SessionAssumption DEF Inv, TypeOK, Call, Op, CallSound, SummarySound
    <3> QED
        BY <1>2, <2>1, <3>1 DEF Inv, ThrowawaysDeleted
  <2> QED
      BY <2>2, <2>3
<1> QED
    BY <1>4, <1>5, <1>6, <1>7, <1>8 DEF Inv

-----------------------------------------------------------------------------
LEMMA InitInv == Init => Inv
<1>1. SUFFICES ASSUME Init PROVE Inv
    OBVIOUS
<1>2. /\ call = [c \in Caller |-> NoCall] /\ result = [c \in Caller |-> NoResult]
      /\ NoCall \in Call /\ NoResult \in Result
    BY <1>1 DEF Init, NoCall, NoResult, Call, Result, Op
<1>3. \A s \in Session : log[s] = <<>>
    BY <1>1 DEF Init
<1>4. TypeOK
    BY <1>1, <1>2 DEF Init, TypeOK, NoCall
<1>5. \A c \in Caller : CallSound(call[c]) /\ ResultSound(result[c])
    BY <1>2 DEF CallSound, ResultSound, NoCall, NoResult
<1>6. Owned
    BY <1>2 DEF Owned, NoCall
<1>7. OneTurn /\ WorkExists /\ ThrowawaysDeleted
    BY <1>1, <1>3, SessionAssumption DEF Init, OneTurn, WorkExists, ThrowawaysDeleted
<1> QED
    BY <1>4, <1>5, <1>6, <1>7 DEF Inv

LEMMA NextInv == Inv /\ [Next]_vars => Inv'
<1>1. SUFFICES ASSUME Inv, [Next]_vars PROVE Inv'
    OBVIOUS
<1>2. CASE UNCHANGED vars
  <2>1. \A c \in Caller : CallSound(call[c])' /\ ResultSound(result[c])'
      BY <1>1, <1>2, CallKept, ResultKept DEF vars, Inv, CallSound, ReplySound
  <2> QED
      BY <1>1, <1>2, <2>1 DEF vars, Inv, TypeOK, Owned, OneTurn, WorkExists, ThrowawaysDeleted
<1>3. CASE \E s \in Session : WorkArrives(s) \/ WorkDeleted(s) \/ (\E type \in EventType : Respond(s, type))
    BY <1>1, <1>3, WorkArrivesInv, WorkDeletedInv, RespondInv
<1>4. ASSUME NEW c \in Caller, BeginReply(c) \/ Reply(c) \/ Expire(c) PROVE Inv'
    BY <1>1, <1>4, BeginReplyInv, CreateSessionInv, CreateFailsInv, SendInv, SendFailsInv, PollInv,
       ReadTurnInv, ReadFailsInv, LeaveInv, ExpireInv DEF Reply
<1>5. ASSUME NEW c \in Caller, Summary(c) \/ (\E s \in Session : BeginSummary(c, s)) PROVE Inv'
    BY <1>1, <1>5, BeginSummaryInv, GetSessionInv, ListPageInv, ListLastPageInv, SummaryFailsInv DEF Summary
<1>6. CASE Crash
    BY <1>1, <1>6, CrashInv
<1> QED
    BY <1>1, <1>2, <1>3, <1>4, <1>5, <1>6 DEF Next

\* The parts of Inv hold together in every state of every behaviour: who has a throwaway
\* session, that its log is one turn, and what each call knows of the log it reads.
THEOREM Inductive == Spec => []Inv
<1>1. Init => Inv
    BY InitInv
<1>2. Inv /\ [Next]_vars => Inv'
    BY NextInv
<1> QED
    BY <1>1, <1>2, PTL DEF Spec

\* Every variable keeps its type, and a call has a session from the create on: the
\* session driver.RunForReply polls and deletes is one it created.
THEOREM TypeCorrect == Spec => []TypeOK
<1>1. Inv => TypeOK
    BY DEF Inv
<1> QED
    BY <1>1, Inductive, PTL

\* A reply that RunForReply returns is the whole of what the agent said in a turn that
\* ended in no error, for logs and pages of any length and any number of calls.
THEOREM RepliesWhole == Spec => []ReplyIsWholeTurn
<1>1. Inv => ReplyIsWholeTurn
    BY DEF Inv, ReplyIsWholeTurn, ResultSound, ReplyResult
<1> QED
    BY <1>1, Inductive, PTL

\* A session RunForReply created is deleted when its call is over, unless the create or
\* the delete did not answer or the process ended during the call.
THEOREM ThrowawaysGone == Spec => []ThrowawaysDeleted
<1>1. Inv => ThrowawaysDeleted
    BY DEF Inv
<1> QED
    BY <1>1, Inductive, PTL

\* A summary SessionSummary returns knows every message logged before it was asked for,
\* of a log of any length that grows meanwhile.
THEOREM SummariesRecent == Spec => []SummaryRecent
<1>1. Inv => SummaryRecent
    BY DEF Inv, SummaryRecent, ResultSound, SummaryResult
<1> QED
    BY <1>1, Inductive, PTL
=============================================================================
