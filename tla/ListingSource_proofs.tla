------------------------- MODULE ListingSource_proofs ------------------------
(***************************************************************************)
(* Why no item is missed by the sources that list, and none drives more    *)
(* than it moves, for any upstream, any number of handlers, changes,       *)
(* failures and restarts, and every configuration.                         *)
(*                                                                         *)
(* While a tick runs, each item it has read and nobody has touched since   *)
(* is on its way to every handler that wants it, or has driven it (Whole); *)
(* a head read before the merge status is the current one of an item that  *)
(* nobody touched in between (HeadCurrent).  A tick that fails drops what  *)
(* it has, and nothing was settled on account of it.                       *)
(*                                                                         *)
(* An id that is not the item's any more may still drive a turn: that of   *)
(* an event that waits, or of one whose head was read before its merge     *)
(* status.  It has a change to its account that drove nothing (Tallied).   *)
(***************************************************************************)
EXTENDS ListingSource, WellFoundedInduction, TLAPS

\* The tick has the fields of a tick, whatever the events it has.
IsTick(f) ==
    f \in [pc : {"wait", "list", "read", "status"}, listed : SUBSET Item, todo : SUBSET Item,
           at : Item \cup {None}, head : Nat, out : {f.out}, touched : SUBSET Item]

\* Nothing is listed before the list is asked for, and only CodeHub reads item by item.
Phases ==
    /\ IsTick(fetch)
    /\ fetch.pc \in {"wait", "list"} => fetch.listed = {}
    /\ fetch.pc # "status" => fetch.at = None
    /\ fetch.pc = "status" => fetch.at \in fetch.todo
    /\ fetch.todo # {} => IsCodeHub

HeadCurrent ==
    fetch.pc = "status" /\ fetch.at \notin fetch.touched => fetch.head = HeadSHA(fetch.at)

Whole ==
    \A n \in (fetch.listed \ fetch.todo) \ fetch.touched, h \in Handler :
        Wants(h, n) => CurrentEvent(n) \in fetch.out \/ CurrentEvent(n).id \in driven[h]

Inv ==
    /\ TypeOK
    /\ Phases
    /\ HeadCurrent
    /\ Whole
    /\ \A h \in Handler : seen[h] \subseteq driven[h]
    /\ SettledFires

-----------------------------------------------------------------------------
(* Heads.                                                                   *)

\* A non-empty set of natural numbers has a least element, which Min names.
LEMMA MinOfNat ==
    ASSUME NEW S \in SUBSET Nat, S # {}
    PROVE  Min(S) \in S
<1>1. \E x \in S : \A y \in S : ~(<<y, x>> \in OpToRel(<, Nat))
    BY NatLessThanWellFounded, WFMin, Zenon
<1>2. PICK x \in S : \A y \in S : ~(y < x)
    BY <1>1 DEF OpToRel
<1>3. \A y \in S : x <= y
    BY <1>2
<1> QED
    BY <1>3 DEF Min

\* Among the first n of the dates there is a latest.
HasLatest(d, n) == \E i \in 1..n : \A j \in 1..n : d[j] <= d[i]

\* And one more makes no difference.
LEMMA LatestStep ==
    ASSUME NEW n \in Nat, NEW d, \A j \in 1..(n + 1) : d[j] \in Nat, HasLatest(d, n)
    PROVE  HasLatest(d, n + 1)
<1>1. PICK i \in 1..n : \A j \in 1..n : d[j] <= d[i]
    BY DEF HasLatest
<1>2. 1..(n + 1) = (1..n) \cup {n + 1}
    OBVIOUS
<1>3. i \in 1..(n + 1) /\ n + 1 \in 1..(n + 1) /\ d[i] \in Nat /\ d[n + 1] \in Nat
    OBVIOUS
<1>4. CASE d[n + 1] <= d[i]
    BY <1>1, <1>2, <1>3, <1>4 DEF HasLatest
<1>5. CASE d[i] <= d[n + 1]
  <2>1. \A j \in 1..n : d[j] \in Nat
      BY <1>2
  <2>2. \A j \in 1..n : d[j] <= d[n + 1]
      BY <1>1, <1>3, <1>5, <2>1
  <2>3. \A j \in 1..(n + 1) : d[j] <= d[n + 1]
      BY <1>2, <1>3, <2>2
  <2> QED
      BY <1>3, <2>3 DEF HasLatest
<1> QED
    BY <1>3, <1>4, <1>5

\* One of the dates of a sequence that has any is the latest.
LEMMA LatestExists ==
    ASSUME NEW len \in Nat \ {0}, NEW d, \A j \in 1..len : d[j] \in Nat
    PROVE  HasLatest(d, len)
<1> DEFINE without == {n \in 1..len : ~HasLatest(d, n)}
<1>1. SUFFICES ASSUME without # {} PROVE FALSE
    OBVIOUS
<1>2. without \in SUBSET Nat
    OBVIOUS
<1>3. PICK n \in without : \A m \in without : ~(m < n)
  <2> HIDE DEF without
  <2>1. \E x \in without : \A y \in without : ~(<<y, x>> \in OpToRel(<, Nat))
      BY <1>1, <1>2, NatLessThanWellFounded, WFMin, Zenon
  <2> QED
      BY <1>2, <2>1 DEF OpToRel
<1>4. n \in 1..len /\ ~HasLatest(d, n)
    OBVIOUS
<1>5. CASE n = 1
  <2>1. d[1] \in Nat /\ 1..1 = {1}
      BY <1>4, <1>5
  <2> QED
      BY <1>4, <1>5, <2>1 DEF HasLatest
<1>6. CASE n # 1
  <2>1. PICK m \in Nat : n = m + 1 /\ m \in 1..len
      BY <1>4, <1>6
  <2>2. m \notin without
      BY <1>3, <2>1
  <2>3. HasLatest(d, m) /\ \A j \in 1..(m + 1) : d[j] \in Nat
      BY <1>4, <2>1, <2>2
  <2> QED
      BY <1>4, <2>1, <2>3, LatestStep
<1> QED
    BY <1>5, <1>6

\* A set of natural numbers up to n that has one has a greatest, which Max names.
LEMMA MaxOfBounded ==
    ASSUME NEW n \in Nat, NEW S \in SUBSET (1..n), S # {}
    PROVE  Max(S) \in S /\ \A y \in S : Max(S) >= y
<1> DEFINE bounds == {k \in Nat : \A y \in S : y <= k}
<1>1. n \in bounds /\ bounds \in SUBSET Nat
    OBVIOUS
<1>2. PICK k \in bounds : \A m \in bounds : ~(m < k)
  <2> HIDE DEF bounds
  <2>1. \E x \in bounds : \A y \in bounds : ~(<<y, x>> \in OpToRel(<, Nat))
      BY <1>1, NatLessThanWellFounded, WFMin, Zenon
  <2> QED
      BY <1>1, <2>1 DEF OpToRel
<1>3. k \in S
  <2>1. SUFFICES ASSUME k \notin S PROVE FALSE
      OBVIOUS
  <2>2. \A y \in S : y \in Nat /\ y >= 1 /\ y <= k /\ y # k
      BY <2>1
  <2>3. PICK y \in S : TRUE
      OBVIOUS
  <2>4. k \in Nat /\ k - 1 \in Nat
      BY <2>2, <2>3
  <2>5. \A z \in S : z <= k - 1
      BY <2>2, <2>4
  <2>6. k - 1 \in bounds /\ k - 1 < k
      BY <2>4, <2>5
  <2> QED
      BY <1>2, <2>6
<1>4. \A y \in S : k >= y
    OBVIOUS
<1> QED
    BY <1>3, <1>4 DEF Max

\* The head of a pull request is one of its commits, or 0.
LEMMA HeadType ==
    ASSUME TypeOK, NEW n \in Item
    PROVE  HeadSHA(n) \in Nat
<1>1. PICK d \in Seq(Date) : d = item[n].commits
    BY DEF TypeOK
<1>2. Len(d) \in Nat /\ DOMAIN d = 1..Len(d) /\ \A j \in 1..Len(d) : d[j] \in Nat
  <2>1. Len(d) \in Nat /\ DOMAIN d = 1..Len(d) /\ \A j \in 1..Len(d) : d[j] \in Date
      OBVIOUS
  <2> QED
      BY <2>1, DateAssumption
<1>3. CASE d = <<>>
    BY <1>1, <1>3 DEF HeadSHA
<1>4. CASE d # <<>>
  <2> DEFINE latest == {i \in DOMAIN d : \A j \in DOMAIN d : d[j] <= d[i]}
  <2>1. latest # {} /\ latest \in SUBSET (1..Len(d))
    <3>1. Len(d) \in Nat \ {0}
        BY <1>4
    <3>2. HasLatest(d, Len(d))
        BY <1>2, <3>1, LatestExists
    <3> QED
        BY <1>2, <3>2 DEF HasLatest
  <2>2. Max(latest) \in latest
    <3> HIDE DEF latest
    <3> QED
        BY <1>2, <2>1, MaxOfBounded
  <2>3. HeadSHA(n) = Max(latest)
      BY <1>1, <1>4 DEF HeadSHA
  <2> QED
      BY <1>2, <2>1, <2>2, <2>3
<1> QED
    BY <1>3, <1>4

-----------------------------------------------------------------------------
(* What stays as it is.                                                     *)

\* An item that does not change has the head and the event it had.
LEMMA SameEvent ==
    ASSUME NEW n \in Item, item'[n] = item[n], source' = source
    PROVE  HeadSHA(n)' = HeadSHA(n) /\ CurrentEvent(n)' = CurrentEvent(n)
<1> DEFINE HeadOf(x) == IF x.commits = <<>> THEN 0
                      ELSE Max({i \in DOMAIN x.commits : \A j \in DOMAIN x.commits : x.commits[j] <= x.commits[i]})
<1>1. HeadSHA(n) = HeadOf(item[n]) /\ HeadSHA(n)' = HeadOf(item'[n])
    BY DEF HeadSHA
<1>2. HeadSHA(n)' = HeadSHA(n)
  <2> HIDE DEF HeadOf
  <2> QED
      BY <1>1
<1>3. View(n)' = View(n)
    BY <1>2 DEF View
<1>4. Parts' = Parts /\ PayloadFields' = PayloadFields
    BY DEF Parts, PayloadFields, PickField, IsCodeHub
<1>5. PICK v : v = View(n)
    OBVIOUS
<1>6. Event(n, v)' = Event(n, v)
    BY <1>4 DEF Event
<1>7. CurrentEvent(n) = Event(n, v)
    BY <1>5 DEF CurrentEvent
<1>8. CurrentEvent(n)' = Event(n, v)'
    BY <1>3, <1>5, <1>4 DEF CurrentEvent, Event
<1> QED
    BY <1>2, <1>6, <1>7, <1>8

\* And it is wanted by whom it was.
LEMMA SameWants ==
    ASSUME NEW n \in Item, NEW h \in Handler, item'[n] = item[n], source' = source, match'[h] = match[h]
    PROVE  Wants(h, n)' = Wants(h, n)
<1>1. HeadSHA(n)' = HeadSHA(n) /\ CurrentEvent(n)' = CurrentEvent(n)
    BY SameEvent
<1>2. Matches(match[h], CurrentEvent(n))' = Matches(match[h], CurrentEvent(n))
    BY <1>1 DEF Matches, PayloadHas
<1>3. (n \in Shown)' = (n \in Shown)
    BY DEF Shown
<1>4. Allowed(n)' = Allowed(n) /\ IsCodeHub' = IsCodeHub
    BY DEF Allowed, IsCodeHub
<1> QED
    BY <1>1, <1>2, <1>3, <1>4, Zenon DEF Wants

-----------------------------------------------------------------------------
(* The kinds of steps.                                                      *)

\* What an untouched item, and who wants it, stays.
LEMMA SettledStep ==
    ASSUME Inv, source' = source, settled' \subseteq settled,
           \A n \in settled' : item'[n] = item[n],
           settled' # {} => match' = match,
           \A h \in Handler : driven[h] \subseteq driven'[h]
    PROVE  SettledFires'
<1>1. SUFFICES ASSUME NEW n \in settled', NEW h \in Handler, Wants(h, n)' PROVE CurrentEvent(n).id' \in driven'[h]
    BY DEF SettledFires
<1>2. n \in Item /\ n \in settled /\ item'[n] = item[n] /\ match'[h] = match[h]
    BY <1>1 DEF Inv, TypeOK
<1>3. Wants(h, n) /\ CurrentEvent(n)' = CurrentEvent(n)
    BY <1>1, <1>2, SameWants, SameEvent
<1> QED
    BY <1>2, <1>3 DEF Inv, SettledFires

\* A step of a fetch, which is right if the tick it leaves is.
LEMMA TickStep ==
    ASSUME Inv, FetchStep, IsTick(fetch'), Phases', HeadCurrent', Whole',
           fetch'.todo \subseteq fetch'.listed, fetch'.at \in fetch'.todo \cup {None}
    PROVE  Inv'
<1>1. TypeOK'
    BY DEF IsTick, FetchStep, Inv, TypeOK, upstreamVars, busVars
<1>2. SettledFires'
    BY SettledStep DEF FetchStep, upstreamVars, busVars
<1> QED
    BY <1>1, <1>2 DEF Inv, FetchStep, busVars

\* The tick ends without an event, or begins.
LEMMA DropStep ==
    ASSUME Inv, NEW pc \in {"wait", "list"}, fetch' = [NoTick EXCEPT !.pc = pc], FetchStep
    PROVE  Inv'
<1>1. /\ fetch'.pc = pc /\ fetch'.listed = {} /\ fetch'.todo = {} /\ fetch'.at = None
      /\ IsTick(fetch')
    BY DEF NoTick, IsTick
<1>2. Phases' /\ HeadCurrent' /\ Whole'
    BY <1>1 DEF Phases, HeadCurrent, Whole, IsTick
<1> QED
    BY <1>1, <1>2, TickStep

\* Every item that the tick was done with, it is still done with, and so for what it adds.
LEMMA WholeStep ==
    ASSUME Inv, FetchStep, fetch'.touched = fetch.touched,
           fetch.out \subseteq fetch'.out \/ fetch.listed = {},
           \A n \in (fetch'.listed \ fetch'.todo) \ fetch.touched :
                n \in fetch.listed \ fetch.todo
                \/ \A h \in Handler : Wants(h, n) => CurrentEvent(n) \in fetch'.out,
           IsTick(fetch')
    PROVE  Whole'
<1>1. SUFFICES ASSUME NEW n \in (fetch'.listed \ fetch'.todo) \ fetch.touched, NEW h \in Handler, Wants(h, n)'
               PROVE  CurrentEvent(n)' \in fetch'.out \/ CurrentEvent(n).id' \in driven'[h]
    BY DEF Whole
<1>2. n \in Item /\ item'[n] = item[n] /\ source' = source /\ match'[h] = match[h] /\ driven' = driven
    BY DEF IsTick, FetchStep, upstreamVars, busVars
<1>3. Wants(h, n) /\ CurrentEvent(n)' = CurrentEvent(n)
    BY <1>1, <1>2, SameWants, SameEvent
<1> QED
    BY <1>2, <1>3 DEF Inv, Whole

-----------------------------------------------------------------------------
(* A tick.                                                                  *)

LEMMA ListPRsInv == ASSUME Inv, ListPRs PROVE Inv'
<1>1. /\ fetch'.pc = "read" /\ fetch'.listed = Shown /\ fetch'.todo = Shown /\ fetch'.at = None
      /\ fetch'.touched = fetch.touched /\ fetch'.out = fetch.out /\ IsTick(fetch')
    BY DEF ListPRs, Inv, Phases, IsTick, Shown
<1>2. Phases' /\ HeadCurrent'
    BY <1>1 DEF ListPRs, Phases, HeadCurrent, FetchStep, IsCodeHub, IsTick
<1>3. Whole'
    BY <1>1, WholeStep DEF ListPRs
<1> QED
    BY <1>1, <1>2, <1>3, TickStep DEF ListPRs

LEMMA ListedAtOnceInv ==
    ASSUME Inv, NEW page \in SUBSET Shown, ListedAtOnce(page), ~IsCodeHub, FetchStep
    PROVE  Inv'
<1>1. /\ fetch.pc = "list" /\ fetch.listed = {} /\ fetch.todo = {} /\ fetch.at = None /\ page \subseteq Item
    BY DEF ListedAtOnce, Inv, Phases, TypeOK, Shown
<1>2. /\ fetch'.pc = "read" /\ fetch'.listed = page /\ fetch'.todo = {} /\ fetch'.at = None
      /\ fetch'.out = {CurrentEvent(n) : n \in page \ Nameless}
      /\ fetch'.touched = fetch.touched /\ IsTick(fetch')
    BY <1>1 DEF ListedAtOnce, Inv, Phases, IsTick
<1>3. Phases' /\ HeadCurrent'
    BY <1>2 DEF Phases, HeadCurrent, IsTick
<1>4. ASSUME NEW n \in page, NEW h \in Handler, Wants(h, n) PROVE CurrentEvent(n) \in fetch'.out
    BY <1>2, <1>4 DEF Wants
<1>5. Whole'
    BY <1>1, <1>2, <1>4, WholeStep
<1> QED
    BY <1>2, <1>3, <1>5, TickStep

LEMMA SkipInv == ASSUME Inv, NEW n \in Item, Skip(n) PROVE Inv'
<1>1. /\ fetch.pc = "read" /\ n \in fetch.todo /\ IsCodeHub /\ ~Allowed(n) /\ fetch.at = None
    BY DEF Skip, Reading, Inv, Phases
<1>2. /\ fetch'.pc = "read" /\ fetch'.listed = fetch.listed /\ fetch'.todo = fetch.todo \ {n} /\ fetch'.at = None
      /\ fetch'.out = fetch.out /\ fetch'.touched = fetch.touched /\ IsTick(fetch')
    BY <1>1 DEF Skip, Inv, Phases, IsTick
<1>3. Phases' /\ HeadCurrent'
    BY <1>1, <1>2 DEF Skip, FetchStep, Phases, HeadCurrent, IsTick, IsCodeHub
<1>4. \A h \in Handler : ~Wants(h, n)
    BY <1>1 DEF Wants
<1>5. Whole'
    BY <1>2, <1>4, WholeStep DEF Skip
<1> QED
    BY <1>2, <1>3, <1>5, TickStep DEF Skip, Inv, TypeOK

\* An item's event is added, which is its current one unless it was touched.
LEMMA EmitInv ==
    ASSUME Inv, NEW n \in Item, n \in fetch.todo, NEW view, Emit(n, view), FetchStep,
           n \notin fetch.touched => view = View(n)
    PROVE  Inv'
<1>1. /\ fetch'.pc = "read" /\ fetch'.listed = fetch.listed /\ fetch'.todo = fetch.todo \ {n} /\ fetch'.at = None
      /\ fetch'.out = fetch.out \cup {Event(n, view)} /\ fetch'.touched = fetch.touched /\ IsTick(fetch')
    BY DEF Emit, Inv, Phases, IsTick
<1>2. Phases' /\ HeadCurrent'
    BY <1>1 DEF Inv, FetchStep, Phases, HeadCurrent, IsTick, IsCodeHub
<1>3. n \notin fetch.touched => CurrentEvent(n) \in fetch'.out
    BY <1>1 DEF CurrentEvent
<1>4. Whole'
    BY <1>1, <1>3, WholeStep
<1> QED
    BY <1>1, <1>2, <1>4, TickStep DEF Inv, TypeOK

LEMMA ReadHeadInv == ASSUME Inv, NEW n \in Item, ReadHead(n) PROVE Inv'
<1>1. fetch.pc = "read" /\ n \in fetch.todo /\ FetchStep
    BY DEF ReadHead, Reading
<1>2. CASE ~source.mergeStatus
    BY <1>1, <1>2, EmitInv DEF ReadHead
<1>3. CASE source.mergeStatus
  <2>1. fetch' = [fetch EXCEPT !.pc = "status", !.at = n, !.head = HeadSHA(n)] /\ HeadSHA(n) \in Nat
      BY <1>3, HeadType DEF ReadHead, Inv
  <2>2. /\ fetch'.pc = "status" /\ fetch'.listed = fetch.listed /\ fetch'.todo = fetch.todo /\ fetch'.at = n
        /\ fetch'.head = HeadSHA(n)
        /\ fetch'.out = fetch.out /\ fetch'.touched = fetch.touched /\ IsTick(fetch')
      BY <2>1 DEF Inv, Phases, IsTick
  <2>3. item'[n] = item[n] /\ source' = source
      BY <1>1 DEF FetchStep, upstreamVars
  <2>4. Phases' /\ HeadCurrent'
      BY <1>1, <2>2, <2>3, SameEvent DEF Inv, Phases, HeadCurrent, IsTick, IsCodeHub
  <2>5. Whole'
      BY <1>1, <2>2, WholeStep
  <2> QED
      BY <1>1, <2>2, <2>4, <2>5, TickStep DEF Inv, TypeOK
<1> QED
    BY <1>2, <1>3

LEMMA ReadStatusInv == ASSUME Inv, NEW n \in Item, ReadStatus(n) PROVE Inv'
<1>1. /\ fetch.pc = "status" /\ fetch.at = n /\ n \in fetch.todo
      /\ n \notin fetch.touched => fetch.head = HeadSHA(n)
    BY DEF ReadStatus, Inv, Phases, HeadCurrent
<1>2. n \notin fetch.touched => [View(n) EXCEPT !.head = fetch.head] = View(n)
    BY <1>1 DEF View
<1> QED
    BY <1>1, <1>2, EmitInv DEF ReadStatus

\* A handler that wants the event has been driven by it, now or before.
LEMMA DispatchInv == ASSUME Inv, DispatchNext PROVE Inv'
<1>1. PICK e \in fetch.out :
        LET takers == {h \in Handler : Matches(match[h], e) /\ e.id \notin seen[h]}
        IN  /\ seen' = [h \in Handler |-> IF h \in takers THEN seen[h] \cup {e.id} ELSE seen[h]]
            /\ Drive(takers, e)
    BY DEF DispatchNext
<1> DEFINE takers == {h \in Handler : Matches(match[h], e) /\ e.id \notin seen[h]}
<1>2. /\ seen' = [h \in Handler |-> IF h \in takers THEN seen[h] \cup {e.id} ELSE seen[h]]
      /\ driven' = [h \in Handler |-> IF h \in takers THEN driven[h] \cup {e.id} ELSE driven[h]]
      /\ turns' = [h \in Handler |-> IF h \in takers THEN [turns[h] EXCEPT ![e.subject] = @ + 1] ELSE turns[h]]
      /\ due' = due \ (takers \X {e.subject})
      /\ fetch' = [fetch EXCEPT !.out = fetch.out \ {e}]
    BY <1>1 DEF Drive
<1>3. UNCHANGED <<source, upstreamVars, match, settled>> /\ Fetched
    BY DEF DispatchNext
<1>4. /\ fetch'.pc = fetch.pc /\ fetch'.listed = fetch.listed /\ fetch'.todo = fetch.todo /\ fetch'.at = fetch.at
      /\ fetch'.head = fetch.head /\ fetch'.out = fetch.out \ {e} /\ fetch'.touched = fetch.touched /\ IsTick(fetch')
    BY <1>2 DEF Inv, Phases, IsTick
<1>5. \A h \in Handler : driven[h] \subseteq driven'[h]
    BY <1>2
<1>6. \A h \in Handler : seen'[h] \subseteq driven'[h] /\ driven'[h] \subseteq seen'[h]
    BY <1>2 DEF Inv, TypeOK
<1>7. turns' \in [Handler -> [Item -> Nat]]
  <2>1. ASSUME NEW f \in [Item -> Nat], NEW n PROVE [f EXCEPT ![n] = @ + 1] \in [Item -> Nat]
    <3>1. \A m \in Item : (IF m = n THEN f[m] + 1 ELSE f[m]) \in Nat
        OBVIOUS
    <3> QED
        BY <3>1
  <2> QED
      BY <1>2, <2>1 DEF Inv, TypeOK
<1>8. TypeOK'
    BY <1>2, <1>3, <1>4, <1>6, <1>7 DEF Inv, TypeOK, upstreamVars
<1>9. Phases' /\ HeadCurrent'
    BY <1>3, <1>4 DEF Fetched, Inv, Phases, HeadCurrent, IsCodeHub
<1>10. SettledFires'
    BY <1>3, <1>5, SettledStep DEF upstreamVars
<1>11. Whole'
  <2>1. SUFFICES ASSUME NEW n \in (fetch.listed \ fetch.todo) \ fetch.touched, NEW h \in Handler, Wants(h, n)'
                 PROVE  CurrentEvent(n)' \in fetch'.out \/ CurrentEvent(n).id' \in driven'[h]
      BY <1>4 DEF Whole
  <2>2. n \in Item /\ item'[n] = item[n] /\ source' = source /\ match'[h] = match[h]
      BY <1>3 DEF upstreamVars, Inv, TypeOK
  <2>3. Wants(h, n) /\ CurrentEvent(n)' = CurrentEvent(n) /\ Matches(match[h], CurrentEvent(n))
      BY <2>1, <2>2, SameWants, SameEvent DEF Wants
  <2>4. CASE CurrentEvent(n) # e
      BY <1>4, <1>5, <2>1, <2>3, <2>4 DEF Inv, Whole
  <2>5. CASE CurrentEvent(n) = e
    <3>1. e.id \in driven'[h]
        BY <1>2, <2>3, <2>5 DEF Inv
    <3> QED
        BY <2>3, <2>5, <3>1
  <2> QED
      BY <2>4, <2>5
<1> QED
    BY <1>6, <1>8, <1>9, <1>10, <1>11 DEF Inv

\* What was listed and not touched is settled: all of its events have been dispatched.
LEMMA TickDoneInv == ASSUME Inv, TickDone PROVE Inv'
<1>1. /\ fetch.todo = {} /\ fetch.out = {} /\ settled' = fetch.listed \ fetch.touched /\ fetch' = NoTick
      /\ UNCHANGED <<source, upstreamVars, busVars, due>>
    BY DEF TickDone, Fetched
<1>2. /\ fetch'.pc = "wait" /\ fetch'.listed = {} /\ fetch'.todo = {} /\ fetch'.at = None /\ IsTick(fetch')
    BY <1>1 DEF NoTick, IsTick
<1>3. TypeOK'
    BY <1>1, <1>2 DEF Inv, TypeOK, IsTick, upstreamVars, busVars
<1>4. Phases' /\ HeadCurrent' /\ Whole'
    BY <1>2 DEF Phases, HeadCurrent, Whole
<1>5. SettledFires'
  <2>1. SUFFICES ASSUME NEW n \in fetch.listed \ fetch.touched, NEW h \in Handler, Wants(h, n)'
                 PROVE  CurrentEvent(n).id' \in driven'[h]
      BY <1>1 DEF SettledFires
  <2>2. n \in Item /\ item'[n] = item[n] /\ source' = source /\ match'[h] = match[h] /\ driven' = driven
      BY <1>1 DEF upstreamVars, busVars, Inv, TypeOK
  <2>3. Wants(h, n) /\ CurrentEvent(n)' = CurrentEvent(n)
      BY <2>1, <2>2, SameWants, SameEvent
  <2> QED
      BY <1>1, <2>1, <2>2, <2>3 DEF Inv, Whole
<1> QED
    BY <1>1, <1>3, <1>4, <1>5 DEF Inv, busVars

-----------------------------------------------------------------------------
(* The upstream and the handlers.                                           *)

ItemState == [shown : BOOLEAN, commits : Seq(Date), status : Status, modified : Nat]

\* The item that changes is settled no longer, and the tick is not done with it.
LEMMA ChangeInv ==
    ASSUME Inv, NEW n \in Item, NEW after \in ItemState, Change(n, after),
           moves' \in [Item -> Nat], due' \subseteq Handler \X Item
    PROVE  Inv'
<1>1. /\ item' = [item EXCEPT ![n] = [after EXCEPT !.modified = @ + 1]]
      /\ fetch' = [fetch EXCEPT !.touched = fetch.touched \cup {n}]
      /\ settled' = settled \ {n} /\ changes' = changes + 1
      /\ UNCHANGED <<source, busVars>>
    BY DEF Change
<1>2. /\ fetch'.pc = fetch.pc /\ fetch'.listed = fetch.listed /\ fetch'.todo = fetch.todo /\ fetch'.at = fetch.at
      /\ fetch'.head = fetch.head /\ fetch'.out = fetch.out /\ fetch'.touched = fetch.touched \cup {n}
      /\ IsTick(fetch')
    BY <1>1 DEF Inv, Phases, IsTick
<1>3. [after EXCEPT !.modified = @ + 1] \in ItemState
    BY DEF ItemState
<1>4. item' \in [Item -> ItemState] /\ \A m \in Item : m # n => item'[m] = item[m]
    BY <1>1, <1>3 DEF Inv, TypeOK, ItemState
<1>5. TypeOK'
    BY <1>1, <1>2, <1>4 DEF Inv, TypeOK, ItemState, busVars
<1>6. Phases'
    BY <1>1, <1>2 DEF Inv, Phases, IsCodeHub
<1>7. HeadCurrent'
  <2>1. SUFFICES ASSUME fetch.pc = "status", fetch.at \notin fetch.touched \cup {n}
                 PROVE  fetch.head = HeadSHA(fetch.at)'
      BY <1>2 DEF HeadCurrent
  <2>2. PICK m \in Item : m = fetch.at /\ m # n
      BY <2>1 DEF Inv, Phases, TypeOK
  <2>3. HeadSHA(m)' = HeadSHA(m)
      BY <1>1, <1>4, <2>2, SameEvent
  <2>4. HeadSHA(fetch.at)' = HeadSHA(m)'
      BY <1>2, <2>2 DEF HeadSHA
  <2> QED
      BY <1>2, <2>1, <2>2, <2>3, <2>4 DEF Inv, HeadCurrent
<1>8. Whole'
  <2>1. SUFFICES ASSUME NEW m \in (fetch.listed \ fetch.todo) \ (fetch.touched \cup {n}), NEW h \in Handler, Wants(h, m)'
                 PROVE  CurrentEvent(m)' \in fetch.out \/ CurrentEvent(m).id' \in driven[h]
      BY <1>1, <1>2 DEF Whole, busVars
  <2>2. m \in Item /\ item'[m] = item[m] /\ source' = source /\ match'[h] = match[h]
      BY <1>1, <1>4 DEF busVars, Inv, TypeOK
  <2>3. Wants(h, m) /\ CurrentEvent(m)' = CurrentEvent(m)
      BY <2>1, <2>2, SameWants, SameEvent
  <2> QED
      BY <2>1, <2>3 DEF Inv, Whole
<1>9. SettledFires'
    BY <1>1, <1>4, SettledStep DEF busVars, Inv, TypeOK
<1> QED
    BY <1>1, <1>5, <1>6, <1>7, <1>8, <1>9 DEF Inv, busVars

LEMMA UpstreamInv == ASSUME Inv, NEW n \in Item, Upstream(n) PROVE Inv'
<1>1. item[n] \in ItemState
    BY DEF Inv, TypeOK, ItemState
<1>2. \A counts \in BOOLEAN : Moves(n, counts) => moves' \in [Item -> Nat]
    BY DEF Moves, Inv, TypeOK
<1>3. due \subseteq Handler \X Item
    BY DEF Inv, TypeOK
<1>4. ASSUME NEW d \in Date, Push(n, d) PROVE Inv'
  <2>1. [item[n] EXCEPT !.commits = Append(@, d)] \in ItemState
    <3>1. PICK commits \in Seq(Date) : commits = item[n].commits
        BY <1>1 DEF ItemState
    <3>2. Append(commits, d) \in Seq(Date)
        OBVIOUS
    <3> QED
        BY <1>1, <3>1, <3>2 DEF ItemState
  <2>2. moves' \in [Item -> Nat] /\ due' = due
      BY <1>2, <1>4 DEF Push
  <2> QED
      BY <1>3, <1>4, <2>1, <2>2, ChangeInv DEF Push
<1>5. ASSUME NEW s \in Status, SetStatus(n, s) PROVE Inv'
  <2>1. [item[n] EXCEPT !.status = s] \in ItemState
      BY <1>1 DEF ItemState
  <2>2. moves' \in [Item -> Nat]
      BY <1>2, <1>5 DEF SetStatus
  <2>3. due' \subseteq Handler \X Item
      BY <1>3, <1>5 DEF SetStatus
  <2> QED
      BY <1>5, <2>1, <2>2, <2>3, ChangeInv DEF SetStatus
<1>6. ASSUME Remark(n) PROVE Inv'
    BY <1>1, <1>2, <1>3, <1>6, ChangeInv DEF Remark
<1>7. ASSUME NEW b \in BOOLEAN, Show(n, b) PROVE Inv'
  <2>1. [item[n] EXCEPT !.shown = b] \in ItemState
      BY <1>1 DEF ItemState
  <2> QED
      BY <1>2, <1>3, <1>7, <2>1, ChangeInv DEF Show
<1> QED
    BY <1>4, <1>5, <1>6, <1>7 DEF Upstream

\* No item is settled for handlers that came or went.
LEMMA SetMatchInv ==
    ASSUME Inv, NEW h \in Handler, NEW m \in MatchSpecs \cup {None}, SetMatch(h, m)
    PROVE  Inv'
<1>1. /\ match' = [match EXCEPT ![h] = m] /\ changes' = changes + 1
      /\ fetch' = [fetch EXCEPT !.touched = Item] /\ settled' = {}
      /\ UNCHANGED <<source, item, moves, seen, driven, turns, due>>
    BY DEF SetMatch
<1>2. /\ fetch'.pc = fetch.pc /\ fetch'.listed = fetch.listed /\ fetch'.todo = fetch.todo /\ fetch'.at = fetch.at
      /\ fetch'.head = fetch.head /\ fetch'.out = fetch.out /\ fetch'.touched = Item
      /\ IsTick(fetch')
    BY <1>1 DEF Inv, Phases, IsTick
<1>3. TypeOK'
    BY <1>1, <1>2 DEF Inv, TypeOK
<1>4. Phases'
    BY <1>1, <1>2 DEF Inv, Phases, IsCodeHub
<1>5. HeadCurrent' /\ Whole'
    BY <1>2 DEF HeadCurrent, Whole, Inv, Phases, TypeOK
<1>6. SettledFires'
    BY <1>1 DEF SettledFires
<1> QED
    BY <1>1, <1>3, <1>4, <1>5, <1>6 DEF Inv

-----------------------------------------------------------------------------
\* Nothing is listed, seen or settled at first.
LEMMA InitInv == Init => Inv
<1>1. SUFFICES ASSUME Init PROVE Inv
    OBVIOUS
<1>2. /\ fetch.pc = "wait" /\ fetch.listed = {} /\ fetch.todo = {} /\ fetch.at = None /\ fetch.touched = {}
      /\ IsTick(fetch)
    BY <1>1 DEF Init, NoTick, IsTick
<1>3. Min(Date) \in Date
    BY DateAssumption, MinOfNat
<1>4. item \in [Item -> ItemState]
  <2>1. /\ <<Min(Date)>> \in Seq(Date) /\ <<>> \in Seq(Date)
      BY <1>3
  <2> QED
      BY <1>1, <2>1 DEF Init, ItemState, Status
<1>5. TypeOK
    BY <1>1, <1>2, <1>4 DEF Init, TypeOK, ItemState, IsTick
<1>6. Phases /\ HeadCurrent /\ Whole /\ SettledFires /\ \A h \in Handler : seen[h] \subseteq driven[h]
    BY <1>1, <1>2 DEF Init, Phases, HeadCurrent, Whole, SettledFires
<1> QED
    BY <1>5, <1>6 DEF Inv

\* Every step keeps what a tick has read.
LEMMA NextInv == Inv /\ [Next]_vars => Inv'
<1>1. SUFFICES ASSUME Inv, [Next]_vars PROVE Inv'
    OBVIOUS
<1>2. CASE UNCHANGED vars
  <2>1. FetchStep /\ fetch' = fetch
      BY <1>2 DEF vars, FetchStep
  <2>2. \A n \in Item : HeadSHA(n)' = HeadSHA(n)
      BY <2>1, SameEvent DEF FetchStep, upstreamVars
  <2>3. Phases' /\ HeadCurrent'
      BY <1>1, <2>1, <2>2 DEF Inv, TypeOK, Phases, HeadCurrent, FetchStep, IsCodeHub
  <2>4. Whole'
      BY <1>1, <2>1, WholeStep DEF Inv, Phases
  <2> QED
      BY <1>1, <2>1, <2>3, <2>4, TickStep DEF Inv, TypeOK, Phases
<1>3. ASSUME NEW n \in Changing, Upstream(n) PROVE Inv'
    BY <1>1, <1>3, UpstreamInv, ChangingAssumption
<1>4. ASSUME NEW n \in Item, Read(n) PROVE Inv'
  <2>1. CASE NoCommits(n)
      BY <1>1, <2>1, DropStep DEF NoCommits, NoTick
  <2> QED
      BY <1>1, <1>4, <2>1, SkipInv, ReadHeadInv, ReadStatusInv DEF Read
<1>5. ASSUME NEW h \in Handler, RemoveHandler(h) \/ (\E m \in MatchSpecs : AddHandler(h, m)) PROVE Inv'
    BY <1>1, <1>5, SetMatchInv DEF RemoveHandler, AddHandler
<1>6. CASE StartTick
    BY <1>1, <1>6, DropStep DEF StartTick
<1>7. CASE Fail \/ Restart
    BY <1>1, <1>7, DropStep DEF Fail, Restart, FetchStep, NoTick
<1>8. CASE ListWorkItems \/ RunPlugin
  <2>1. PICK page \in SUBSET Shown : ListedAtOnce(page)
      BY <1>8 DEF ListWorkItems, RunPlugin
  <2>2. ~IsCodeHub /\ FetchStep
      BY <1>8, <2>1 DEF ListWorkItems, RunPlugin, IsCodeHub, ListedAtOnce
  <2> QED
      BY <1>1, <2>1, <2>2, ListedAtOnceInv
<1> QED
    BY <1>1, <1>2, <1>3, <1>4, <1>5, <1>6, <1>7, <1>8, ListPRsInv, DispatchInv, TickDoneInv DEF Next

\* The parts of Inv hold together in every state of every behaviour.
THEOREM Inductive == Spec => []Inv
<1>1. Init => Inv
    BY InitInv
<1>2. Inv /\ [Next]_vars => Inv'
    BY NextInv
<1> QED
    BY <1>1, <1>2, PTL DEF Spec

\* Every variable keeps its type: the head of a pull request is one of its commits,
\* and the window of a handler holds whatever drove it.
THEOREM TypeCorrect == Spec => []TypeOK
<1>1. Inv => TypeOK
    BY DEF Inv
<1> QED
    BY <1>1, Inductive, PTL

\* After a whole tick of CodeHubSource, WorkitemSource or ExecSource every item that has
\* not changed since before it began has driven every handler that wants it as it is,
\* for any upstream and any failures, restarts and handlers before.
THEOREM ItemsReachHandlers == Spec => []SettledFires
<1>1. Inv => SettledFires
    BY DEF Inv
<1> QED
    BY <1>1, Inductive, PTL

-----------------------------------------------------------------------------
(* The turns of an item.                                                    *)

\* What TurnsBoundedByChanges is about: the time of the last change is no version.
Counted == IsCodeHub \/ source.version = "status"

\* The id of the item's event with the given head.
IdOf(n, head) == Event(n, [View(n) EXCEPT !.head = head]).id

\* And with its own.
CurrentId(n) == CurrentEvent(n).id

\* There is one event at most of each item, which was read before.
OutShape ==
    /\ fetch.pc \in {"wait", "list"} => fetch.out = {}
    /\ \A e \in fetch.out :
        e.subject \in Item \ fetch.todo /\ e.id.item = e.subject
    /\ \A e, f \in fetch.out : e.subject = f.subject => e = f

\* An item has had as many turns as changes, and one more; one less as long as its
\* current id is new; ...
Spare(h, n) == turns[h][n] <= moves[n]

Ample(h, n) == turns[h][n] + 1 <= moves[n]

\* ... two less when an event of it that waits, or that is half read, is new as well.
Tallied(h, n) ==
    /\ turns[h][n] <= moves[n] + 1
    /\ CurrentId(n) \notin seen[h] => Spare(h, n)
    /\ \A e \in fetch.out : e.subject = n /\ e.id \notin seen[h] =>
        /\ Spare(h, n)
        /\ CurrentId(n) \notin seen[h] /\ CurrentId(n) # e.id => Ample(h, n)
    /\ fetch.pc = "status" /\ fetch.at = n /\ fetch.head # HeadSHA(n) =>
        /\ Spare(h, n)
        /\ IdOf(n, fetch.head) \notin seen[h] => Ample(h, n)

Tally == OutShape /\ \A h \in Handler, n \in Item : Tallied(h, n)

TallyInv == Inv /\ (Counted => Tally)

\* What there is to know of an id.
LEMMA IdFacts ==
    ASSUME NEW n
    PROVE  /\ CurrentId(n) = IdOf(n, HeadSHA(n))
           /\ CurrentEvent(n).subject = n
           /\ \A a : IdOf(n, a).item = n /\ Event(n, [View(n) EXCEPT !.head = a]).subject = n
<1>1. [View(n) EXCEPT !.head = HeadSHA(n)] = View(n)
    BY DEF View
<1>2. CurrentId(n) = IdOf(n, HeadSHA(n))
    BY <1>1 DEF CurrentId, CurrentEvent, IdOf
<1>3. \A a : IdOf(n, a).item = n
    BY DEF IdOf, Event
<1> QED
    BY <1>2, <1>3 DEF CurrentEvent, Event

\* Which goes on while neither the source nor the item changes.
LEMMA SameIds ==
    ASSUME NEW n \in Item, item'[n] = item[n], source' = source
    PROVE  /\ HeadSHA(n)' = HeadSHA(n) /\ CurrentId(n)' = CurrentId(n)
           /\ \A a : IdOf(n, a)' = IdOf(n, a)
<1>1. HeadSHA(n)' = HeadSHA(n) /\ CurrentEvent(n)' = CurrentEvent(n)
    BY SameEvent
<1>2. View(n)' = View(n) /\ Parts' = Parts /\ PayloadFields' = PayloadFields
    BY <1>1 DEF View, Parts, PayloadFields, PickField, IsCodeHub
<1>3. ASSUME NEW a PROVE IdOf(n, a)' = IdOf(n, a)
    BY <1>2 DEF IdOf, Event
<1> QED
    BY <1>1, <1>3 DEF CurrentId

\* The event of a reading: of the item as it is, or of the head read before and the
\* merge status as it is.
Fresh(e) ==
    \/ e.id = CurrentId(e.subject)
    \/ fetch.pc = "status" /\ fetch.at = e.subject /\ e.id = IdOf(e.subject, fetch.head)

\* A reading uses up no turn.
LEMMA FetchTally ==
    ASSUME Inv, Tally, UNCHANGED <<source, item, moves, seen, turns>>, OutShape',
           \A e \in fetch'.out : e \in fetch.out \/ Fresh(e),
           fetch'.pc = "status" =>
               \/ fetch.pc = "status" /\ fetch'.at = fetch.at /\ fetch'.head = fetch.head
               \/ fetch'.head = HeadSHA(fetch'.at)
    PROVE  Tally'
<1>1. source' = source /\ item' = item /\ moves' = moves /\ seen' = seen /\ turns' = turns
    OBVIOUS
<1>2. \A n \in Item : /\ HeadSHA(n)' = HeadSHA(n) /\ CurrentId(n)' = CurrentId(n)
                      /\ \A a : IdOf(n, a)' = IdOf(n, a)
    BY <1>1, SameIds
<1>3. ASSUME NEW h \in Handler, NEW n \in Item PROVE Tallied(h, n)'
  <2>0. Tallied(h, n)
      BY DEF Tally
  <2>1. (Spare(h, n)' <=> Spare(h, n)) /\ (Ample(h, n)' <=> Ample(h, n))
      BY <1>1 DEF Spare, Ample
  <2>2. CurrentId(n)' = CurrentId(n) /\ HeadSHA(n)' = HeadSHA(n) /\ CurrentId(n) = IdOf(n, HeadSHA(n))
      BY <1>2, IdFacts
  <2>3. ASSUME NEW e \in fetch'.out, e.subject = n, e.id \notin seen[h]
        PROVE  /\ Spare(h, n)
               /\ CurrentId(n) \notin seen[h] /\ CurrentId(n) # e.id => Ample(h, n)
    <3>1. CASE e \in fetch.out
        BY <2>0, <2>3, <3>1 DEF Tallied
    <3>2. CASE e.id = CurrentId(n)
        BY <2>0, <2>3, <3>2 DEF Tallied
    <3>3. CASE fetch.pc = "status" /\ fetch.at = n /\ e.id = IdOf(n, fetch.head)
        BY <2>0, <2>2, <2>3, <3>2, <3>3 DEF Tallied
    <3> QED
        BY <2>3, <3>1, <3>2, <3>3 DEF Fresh
  <2>4. ASSUME fetch'.pc = "status", fetch'.at = n, fetch'.head # HeadSHA(n)
        PROVE  Spare(h, n) /\ (IdOf(n, fetch'.head) \notin seen[h] => Ample(h, n))
      BY <2>0, <2>4 DEF Tallied
  <2>5. PICK a : a = fetch'.head
      OBVIOUS
  <2>6. IdOf(n, a)' = IdOf(n, a) /\ IdOf(n, fetch.head)' = IdOf(n, a)'
      BY <1>2, <2>5
  <2> QED
      BY <1>1, <2>0, <2>1, <2>2, <2>3, <2>4, <2>5, <2>6 DEF Tallied
<1> QED
    BY <1>3 DEF Tally

\* Nor does a change of an item, which is counted if it changes the item's id.
LEMMA ChangeTally ==
    ASSUME Inv, Tally, NEW n \in Item, UNCHANGED <<source, seen, turns>>,
           \A m \in Item \ {n} : item'[m] = item[m],
           fetch'.pc = fetch.pc, fetch'.todo = fetch.todo, fetch'.at = fetch.at,
           fetch'.head = fetch.head, fetch'.out = fetch.out,
           \/ /\ moves' = moves /\ HeadSHA(n)' = HeadSHA(n) /\ CurrentId(n)' = CurrentId(n)
              /\ \A a : IdOf(n, a)' = IdOf(n, a)
           \/ /\ moves' = [moves EXCEPT ![n] = @ + 1]
              /\ HeadSHA(n)' = HeadSHA(n) \/ \A a : IdOf(n, a)' = IdOf(n, a)
    PROVE  Tally'
<1>1. source' = source /\ seen' = seen /\ turns' = turns
    OBVIOUS
<1>2. \A m \in Item \ {n} : /\ HeadSHA(m)' = HeadSHA(m) /\ CurrentId(m)' = CurrentId(m)
                             /\ \A a : IdOf(m, a)' = IdOf(m, a)
    BY <1>1, SameIds
<1>3. OutShape'
    BY DEF OutShape, Tally
<1>4. ASSUME NEW h \in Handler, NEW m \in Item PROVE Tallied(h, m)'
  <2>0. Tallied(h, m) /\ turns[h][m] \in Nat /\ moves[m] \in Nat
      BY DEF Tally, Inv, TypeOK
  <2>1. PICK a : a = fetch.head /\ a = fetch'.head /\ IdOf(m, fetch.head)' = IdOf(m, a)'
      OBVIOUS
  <2>2. CASE /\ moves'[m] = moves[m] /\ HeadSHA(m)' = HeadSHA(m) /\ CurrentId(m)' = CurrentId(m)
             /\ IdOf(m, a)' = IdOf(m, a)
    <3>1. (Spare(h, m)' <=> Spare(h, m)) /\ (Ample(h, m)' <=> Ample(h, m))
        BY <1>1, <2>2 DEF Spare, Ample
    <3> QED
        BY <1>1, <2>0, <2>1, <2>2, <3>1 DEF Tallied
  <2>3. CASE /\ moves'[m] = moves[m] + 1
             /\ HeadSHA(m)' = HeadSHA(m) \/ IdOf(m, a)' = IdOf(m, a)
    <3>1. (turns[h][m] <= moves[m] + 1 => Spare(h, m)') /\ (Spare(h, m) => Ample(h, m)')
        BY <1>1, <2>0, <2>3 DEF Spare, Ample
    <3>2. turns'[h][m] <= moves'[m] + 1 /\ Spare(h, m)'
        BY <1>1, <2>0, <2>3, <3>1 DEF Tallied
    <3>3. ASSUME NEW e \in fetch.out, e.subject = m, e.id \notin seen[h] PROVE Ample(h, m)'
        BY <2>0, <3>1, <3>3 DEF Tallied
    <3>4. ASSUME fetch.pc = "status", fetch.at = m, a # HeadSHA(m)', IdOf(m, a)' \notin seen[h]
          PROVE  Ample(h, m)'
      <4>1. CASE a # HeadSHA(m)
          BY <2>0, <2>1, <3>1, <3>4, <4>1 DEF Tallied
      <4>2. CASE a = HeadSHA(m)
        <5>1. IdOf(m, a) = CurrentId(m) /\ IdOf(m, a)' = IdOf(m, a)
            BY <2>3, <3>4, <4>2, IdFacts
        <5> QED
            BY <2>0, <3>1, <3>4, <5>1 DEF Tallied
      <4> QED
          BY <4>1, <4>2
    <3> QED
        BY <1>1, <2>1, <3>2, <3>3, <3>4 DEF Tallied
  <2>4. CASE m # n
    <3>1. moves'[m] = moves[m]
        BY <2>4 DEF Inv, TypeOK
    <3> QED
        BY <1>2, <2>2, <2>4, <3>1
  <2>5. CASE m = n
    <3>1. CASE moves' = [moves EXCEPT ![n] = @ + 1]
      <4>1. moves'[n] = moves[n] + 1
          BY <3>1 DEF Inv, TypeOK
      <4> QED
          BY <2>2, <2>3, <2>5, <4>1
    <3> QED
        BY <2>2, <2>5, <3>1
  <2> QED
      BY <2>4, <2>5
<1> QED
    BY <1>3, <1>4 DEF Tally

\* The tick ends, begins or is where it was.
LEMMA QuietTally ==
    ASSUME Inv, Tally, UNCHANGED <<source, item, moves, seen, turns>>,
           \/ fetch'.pc # "status" /\ fetch'.out = {}
           \/ /\ fetch'.pc = fetch.pc /\ fetch'.at = fetch.at /\ fetch'.head = fetch.head
              /\ fetch'.todo \subseteq fetch.todo /\ fetch'.out = fetch.out
    PROVE  Tally'
<1>1. OutShape'
    BY DEF OutShape, Tally
<1> QED
    BY <1>1, FetchTally

\* A list that is events: one of each item.
LEMMA ListedAtOnceTally ==
    ASSUME Inv, Tally, NEW page \in SUBSET Shown, ListedAtOnce(page), ~IsCodeHub, FetchStep
    PROVE  Tally'
<1>1. UNCHANGED <<source, item, moves, seen, turns>>
    BY DEF FetchStep, upstreamVars, busVars
<1>2. fetch.todo = {} /\ page \subseteq Item
    BY DEF ListedAtOnce, Inv, Phases, TypeOK, Shown
<1>3. fetch'.pc = "read" /\ fetch'.todo = {} /\ fetch'.out = {CurrentEvent(n) : n \in page \ Nameless}
    BY <1>2 DEF ListedAtOnce, Inv, Phases, IsTick
<1>4. \A e \in fetch'.out : e.subject \in Item /\ e = CurrentEvent(e.subject)
    BY <1>2, <1>3, IdFacts
<1>5. ASSUME NEW e \in fetch'.out PROVE e.id.item = e.subject
  <2>1. e.id = CurrentId(e.subject)
      BY <1>4 DEF CurrentId
  <2>2. CurrentId(e.subject) = IdOf(e.subject, HeadSHA(e.subject))
      BY IdFacts
  <2>3. IdOf(e.subject, HeadSHA(e.subject)).item = e.subject
      BY IdFacts
  <2> QED
      BY <2>1, <2>2, <2>3
<1>6. OutShape'
    BY <1>3, <1>4, <1>5 DEF OutShape
<1>7. \A e \in fetch'.out : Fresh(e)
    BY <1>4 DEF Fresh, CurrentId
<1> QED
    BY <1>1, <1>3, <1>6, <1>7, FetchTally

\* The event of an item, with its head or the one read before.
LEMMA EmitTally ==
    ASSUME Inv, Tally, NEW n \in Item, n \in fetch.todo, NEW a,
           Emit(n, [View(n) EXCEPT !.head = a]), FetchStep,
           a = HeadSHA(n) \/ (fetch.pc = "status" /\ fetch.at = n /\ a = fetch.head)
    PROVE  Tally'
<1>1. UNCHANGED <<source, item, moves, seen, turns>>
    BY DEF FetchStep, upstreamVars, busVars
<1>2. PICK e : e = Event(n, [View(n) EXCEPT !.head = a])
    OBVIOUS
<1>3. /\ fetch'.pc = "read" /\ fetch'.todo = fetch.todo \ {n} /\ fetch'.out = fetch.out \cup {e}
    BY <1>2 DEF Emit, Inv, Phases, IsTick
<1>4. e.id = IdOf(n, a) /\ e.id.item = n /\ e.subject = n
  <2>1. e.id = IdOf(n, a)
      BY <1>2 DEF IdOf
  <2> QED
      BY <1>2, <2>1, IdFacts
<1>5. OutShape'
    BY <1>3, <1>4 DEF OutShape, Tally
<1>6. Fresh(e)
    BY <1>4, IdFacts DEF Fresh
<1>7. \A f \in fetch'.out : f \in fetch.out \/ Fresh(f)
    BY <1>3, <1>6
<1> QED
    BY <1>1, <1>3, <1>5, <1>7, FetchTally

\* A request for an item: it is passed over, half read, read, or the tick fails.
LEMMA ReadTally == ASSUME Inv, Tally, NEW n \in Item, Read(n) PROVE Tally'
<1>1. UNCHANGED <<source, item, moves, seen, turns>> /\ FetchStep
    BY DEF Read, Skip, ReadHead, ReadStatus, NoCommits, FetchStep, upstreamVars, busVars
<1>2. CASE Skip(n)
  <2>1. /\ fetch'.pc = fetch.pc /\ fetch'.at = fetch.at /\ fetch'.head = fetch.head
        /\ fetch'.todo \subseteq fetch.todo /\ fetch'.out = fetch.out
      BY <1>2 DEF Skip, Inv, Phases, IsTick
  <2> QED
      BY <1>1, <2>1, QuietTally
<1>3. CASE NoCommits(n)
  <2>1. fetch'.pc # "status" /\ fetch'.out = {}
      BY <1>3 DEF NoCommits, NoTick
  <2> QED
      BY <1>1, <2>1, QuietTally
<1>4. CASE ReadStatus(n)
  <2>1. fetch.pc = "status" /\ fetch.at = n /\ n \in fetch.todo
      BY <1>4 DEF ReadStatus, Inv, Phases
  <2>2. Emit(n, [View(n) EXCEPT !.head = fetch.head])
      BY <1>4 DEF ReadStatus
  <2> QED
      BY <1>1, <2>1, <2>2, EmitTally
<1>5. CASE ReadHead(n) /\ ~source.mergeStatus
  <2>1. [View(n) EXCEPT !.head = HeadSHA(n)] = View(n)
      BY DEF View
  <2>2. PICK a : a = HeadSHA(n)
      OBVIOUS
  <2>3. Emit(n, View(n)) /\ n \in fetch.todo
      BY <1>5 DEF ReadHead, Reading
  <2>4. Emit(n, [View(n) EXCEPT !.head = a])
      BY <2>1, <2>2, <2>3
  <2>5. FetchStep
      BY <1>1
  <2> QED
      BY <2>2, <2>3, <2>4, <2>5, EmitTally, Zenon
<1>6. CASE ReadHead(n) /\ source.mergeStatus
  <2>1. fetch.pc = "read" /\ n \in fetch.todo
      BY <1>6 DEF ReadHead, Reading
  <2>2. /\ fetch'.pc = "status" /\ fetch'.at = n /\ fetch'.head = HeadSHA(n)
        /\ fetch'.todo = fetch.todo /\ fetch'.out = fetch.out
      BY <1>6 DEF ReadHead, Inv, Phases, IsTick
  <2>3. OutShape'
      BY <2>2 DEF OutShape, Tally
  <2>4. fetch'.head = HeadSHA(fetch'.at)
      BY <2>2
  <2> QED
      BY <1>1, <2>2, <2>3, <2>4, FetchTally
<1> QED
    BY <1>2, <1>3, <1>4, <1>5, <1>6 DEF Read

\* A turn is taken of an event whose id is new, which it is no longer.
LEMMA DispatchTally == ASSUME Inv, Tally, DispatchNext PROVE Tally'
<1>1. PICK e \in fetch.out :
        LET takers == {h \in Handler : Matches(match[h], e) /\ e.id \notin seen[h]}
        IN  /\ seen' = [h \in Handler |-> IF h \in takers THEN seen[h] \cup {e.id} ELSE seen[h]]
            /\ Drive(takers, e)
    BY DEF DispatchNext
<1>2. PICK takers : takers = {h \in Handler : Matches(match[h], e) /\ e.id \notin seen[h]}
    OBVIOUS
<1>3. /\ \A h \in takers : h \in Handler /\ e.id \notin seen[h]
      /\ seen' = [h \in Handler |-> IF h \in takers THEN seen[h] \cup {e.id} ELSE seen[h]]
      /\ turns' = [h \in Handler |-> IF h \in takers THEN [turns[h] EXCEPT ![e.subject] = @ + 1] ELSE turns[h]]
      /\ fetch' = [fetch EXCEPT !.out = fetch.out \ {e}]
    BY <1>1, <1>2 DEF Drive
<1>4. fetch.pc = "read" /\ source' = source /\ item' = item /\ moves' = moves
    BY DEF DispatchNext, Fetched, upstreamVars
<1>5. fetch'.pc = "read" /\ fetch'.todo = fetch.todo /\ fetch'.out = fetch.out \ {e}
    BY <1>3, <1>4 DEF Inv, Phases, IsTick
<1>6. /\ \A f \in fetch.out : f.subject \in Item \ fetch.todo /\ f.id.item = f.subject
      /\ \A f, g \in fetch.out : f.subject = g.subject => f = g
    BY DEF Tally, OutShape
<1>7. OutShape'
    BY <1>5 DEF OutShape, Tally
<1>8. \A n \in Item : HeadSHA(n)' = HeadSHA(n) /\ CurrentId(n)' = CurrentId(n) /\ CurrentId(n).item = n
  <2>1. \A n \in Item : HeadSHA(n)' = HeadSHA(n) /\ CurrentId(n)' = CurrentId(n)
      BY <1>4, SameIds
  <2>2. ASSUME NEW n \in Item PROVE CurrentId(n).item = n
    <3>1. CurrentId(n) = IdOf(n, HeadSHA(n)) /\ IdOf(n, HeadSHA(n)).item = n
        BY IdFacts
    <3> QED
        BY <3>1
  <2> QED
      BY <2>1, <2>2
<1>9. ASSUME NEW h \in Handler, NEW n \in Item PROVE Tallied(h, n)'
  <2>1. Tallied(h, n) /\ turns[h] \in [Item -> Nat] /\ turns[h][n] \in Nat /\ moves[n] \in Nat
      BY DEF Tally, Inv, TypeOK
  <2>2. CASE h \in takers /\ n = e.subject
    <3>1. turns'[h][n] = turns[h][n] + 1 /\ seen'[h] = seen[h] \cup {e.id} /\ e.id \notin seen[h]
        BY <1>3, <2>1, <2>2
    <3>2. /\ turns[h][n] <= moves[n]
          /\ CurrentId(n) \notin seen[h] /\ CurrentId(n) # e.id => turns[h][n] + 1 <= moves[n]
        BY <2>1, <2>2, <3>1 DEF Tallied, Spare, Ample
    <3>3. \A f \in fetch'.out : f.subject # n
        BY <1>5, <1>6, <2>2
    <3>4. turns'[h][n] <= moves'[n] + 1
        BY <1>4, <2>1, <3>1, <3>2
    <3>5. CurrentId(n)' \notin seen'[h] => Spare(h, n)'
        BY <1>4, <1>8, <3>1, <3>2 DEF Spare
    <3> QED
        BY <1>5, <3>3, <3>4, <3>5 DEF Tallied
  <2>3. CASE h \notin takers \/ n # e.subject
    <3>1. turns'[h][n] = turns[h][n]
        BY <1>3, <2>1, <2>3
    <3>2. \A id : id.item = n => (id \in seen'[h] <=> id \in seen[h])
        BY <1>3, <1>6, <2>3
    <3>3. (Spare(h, n)' <=> Spare(h, n)) /\ (Ample(h, n)' <=> Ample(h, n)) /\ turns'[h][n] <= moves'[n] + 1
        BY <1>4, <2>1, <3>1 DEF Spare, Ample, Tallied
    <3>4. CurrentId(n)' = CurrentId(n) /\ (CurrentId(n) \in seen'[h] <=> CurrentId(n) \in seen[h])
        BY <1>8, <3>2
    <3>5. \A f \in fetch'.out : f \in fetch.out /\ (f.subject = n => (f.id \in seen'[h] <=> f.id \in seen[h]))
        BY <1>5, <1>6, <3>2
    <3> QED
        BY <1>5, <2>1, <3>3, <3>4, <3>5 DEF Tallied
  <2> QED
      BY <2>2, <2>3
<1> QED
    BY <1>7, <1>9 DEF Tally

\* What is left of an id when the item changes.
LEMMA ChangedIds ==
    ASSUME Inv, Counted, NEW n \in Item, source' = source,
           HeadSHA(n)' = HeadSHA(n),
           item'[n].status = item[n].status \/ (IsCodeHub /\ ~source.mergeStatus)
    PROVE  CurrentId(n)' = CurrentId(n) /\ \A a : IdOf(n, a)' = IdOf(n, a)
<1>1. Parts' = Parts /\ "modified" \notin Parts
    BY DEF Parts, PickField, IsCodeHub, Counted
<1>2. \A p \in Parts : p = "head" \/ (p = "status" /\ item'[n].status = item[n].status)
  <2>1. \A p \in Parts : p \in {"head", "status"}
      BY DEF Parts, PickField, Counted
  <2>2. IsCodeHub /\ ~source.mergeStatus => Parts = {"head"}
      BY DEF Parts
  <2> QED
      BY <2>1, <2>2
<1>3. ASSUME NEW a PROVE IdOf(n, a)' = IdOf(n, a)
  <2>1. IdOf(n, a) = [item |-> n, version |-> [p \in Parts |-> [View(n) EXCEPT !.head = a][p]]]
      BY DEF IdOf, Event
  <2>2. IdOf(n, a)' = [item |-> n, version |-> [p \in Parts |-> [View(n)' EXCEPT !.head = a][p]]]
      BY <1>1 DEF IdOf, Event
  <2>3. \A p \in Parts : [View(n)' EXCEPT !.head = a][p] = [View(n) EXCEPT !.head = a][p]
      BY <1>2 DEF View
  <2> QED
      BY <2>1, <2>2, <2>3
<1>4. CurrentId(n) = IdOf(n, HeadSHA(n))
    BY IdFacts
<1>5. CurrentId(n)' = IdOf(n, HeadSHA(n))'
  <2>1. [View(n)' EXCEPT !.head = HeadSHA(n)'] = View(n)'
      BY DEF View
  <2> QED
      BY <2>1 DEF CurrentId, CurrentEvent, IdOf
<1>6. PICK a : a = HeadSHA(n) /\ IdOf(n, HeadSHA(n))' = IdOf(n, a)'
    OBVIOUS
<1> QED
    BY <1>3, <1>4, <1>5, <1>6

\* Pushes and changes of status are counted where the id holds them; nothing else is in it.
LEMMA UpstreamTally == ASSUME Inv, Counted, Tally, NEW n \in Item, Upstream(n) PROVE Tally'
<1>1. item[n] \in ItemState /\ item \in [Item -> ItemState] /\ moves \in [Item -> Nat]
    BY DEF Inv, TypeOK, ItemState
<1>3. ASSUME NEW after \in ItemState, Change(n, after)
      PROVE  /\ UNCHANGED <<source, seen, turns>>
             /\ \A m \in Item \ {n} : item'[m] = item[m]
             /\ fetch'.pc = fetch.pc /\ fetch'.todo = fetch.todo /\ fetch'.at = fetch.at
             /\ fetch'.head = fetch.head /\ fetch'.out = fetch.out
             /\ item'[n].commits = after.commits /\ item'[n].status = after.status
    BY <1>1, <1>3 DEF Change, busVars, Inv, Phases, IsTick, ItemState
<1>4. ASSUME NEW after \in ItemState, Change(n, after), after.commits = item[n].commits
      PROVE  HeadSHA(n)' = HeadSHA(n)
    BY <1>3, <1>4 DEF HeadSHA
<1>5. ASSUME NEW after \in ItemState, Change(n, after), after.commits = item[n].commits,
             after.status = item[n].status, moves' = moves
      PROVE  Tally'
  <2>1. HeadSHA(n)' = HeadSHA(n)
      BY <1>4, <1>5
  <2>2. CurrentId(n)' = CurrentId(n) /\ \A a : IdOf(n, a)' = IdOf(n, a)
      BY <1>3, <1>5, <2>1, ChangedIds
  <2> QED
      BY <1>3, <1>5, <2>1, <2>2, ChangeTally
<1>6. ASSUME Remark(n) PROVE Tally'
  <2>1. Change(n, item[n]) /\ moves' = moves
      BY <1>6 DEF Remark, Moves
  <2> QED
      BY <1>1, <1>5, <2>1
<1>7. ASSUME NEW b \in BOOLEAN, Show(n, b) PROVE Tally'
  <2>1. PICK after : after = [item[n] EXCEPT !.shown = b]
      OBVIOUS
  <2>2. after \in ItemState /\ after.commits = item[n].commits /\ after.status = item[n].status
      BY <1>1, <2>1 DEF ItemState
  <2>3. Change(n, after) /\ moves' = moves
      BY <1>7, <2>1 DEF Show, Moves
  <2> QED
      BY <1>5, <2>2, <2>3
<1>8. ASSUME NEW s \in Status, SetStatus(n, s) PROVE Tally'
  <2>1. PICK after : after = [item[n] EXCEPT !.status = s]
      OBVIOUS
  <2>2. after \in ItemState /\ after.commits = item[n].commits
      BY <1>1, <2>1 DEF ItemState
  <2>3. Change(n, after) /\ Moves(n, IsCodeHub => source.mergeStatus)
      BY <1>8, <2>1 DEF SetStatus
  <2>4. HeadSHA(n)' = HeadSHA(n)
      BY <1>4, <2>2, <2>3
  <2>5. CASE IsCodeHub => source.mergeStatus
    <3>1. moves' = [moves EXCEPT ![n] = @ + 1]
        BY <2>3, <2>5 DEF Moves
    <3> QED
        BY <1>3, <2>2, <2>3, <2>4, <3>1, ChangeTally
  <2>6. CASE IsCodeHub /\ ~source.mergeStatus
    <3>1. moves' = moves
        BY <2>3, <2>6 DEF Moves
    <3>2. CurrentId(n)' = CurrentId(n) /\ \A a : IdOf(n, a)' = IdOf(n, a)
        BY <1>3, <2>2, <2>3, <2>4, <2>6, ChangedIds
    <3> QED
        BY <1>3, <2>2, <2>3, <2>4, <3>1, <3>2, ChangeTally
  <2> QED
      BY <2>5, <2>6
<1>9. ASSUME NEW d \in Date, Push(n, d) PROVE Tally'
  <2>1. PICK commits \in Seq(Date) : commits = item[n].commits
      BY <1>1 DEF ItemState
  <2>2. PICK longer \in Seq(Date) : longer = Append(commits, d)
    <3>1. Append(commits, d) \in Seq(Date)
        OBVIOUS
    <3> QED
        BY <3>1
  <2>3. PICK after : after = [item[n] EXCEPT !.commits = longer]
      OBVIOUS
  <2>4. after \in ItemState /\ after.commits = longer /\ after.status = item[n].status
      BY <1>1, <2>3 DEF ItemState
  <2>5. Change(n, after) /\ moves' = [moves EXCEPT ![n] = @ + 1] /\ IsCodeHub
      BY <1>9, <2>1, <2>2, <2>3 DEF Push, Moves
  <2>7. \A a : IdOf(n, a)' = IdOf(n, a)
    <3>1. Parts' = Parts /\ Parts \subseteq {"head", "status"} /\ item'[n].status = item[n].status
        BY <1>3, <2>4, <2>5 DEF Parts, IsCodeHub
    <3>2. ASSUME NEW a PROVE IdOf(n, a)' = IdOf(n, a)
      <4>1. IdOf(n, a) = [item |-> n, version |-> [p \in Parts |-> [View(n) EXCEPT !.head = a][p]]]
          BY DEF IdOf, Event
      <4>2. IdOf(n, a)' = [item |-> n, version |-> [p \in Parts |-> [View(n)' EXCEPT !.head = a][p]]]
          BY <3>1 DEF IdOf, Event
      <4>3. \A p \in Parts : p = "head" \/ p = "status"
          BY <3>1
      <4>4. \A p \in Parts : [View(n)' EXCEPT !.head = a][p] = [View(n) EXCEPT !.head = a][p]
          BY <3>1, <4>3 DEF View
      <4> QED
          BY <4>1, <4>2, <4>4
    <3> QED
        BY <3>2
  <2> QED
      BY <1>3, <2>4, <2>5, <2>7, ChangeTally
<1> QED
    BY <1>6, <1>7, <1>8, <1>9 DEF Upstream

\* In the first state no handler has had a turn.
LEMMA InitTallied == Init => TallyInv
<1>1. SUFFICES ASSUME Init PROVE Tally
    BY InitInv DEF TallyInv
<1>2. /\ fetch.pc = "wait" /\ fetch.out = {} /\ \A h \in Handler : seen[h] = {}
      /\ \A h \in Handler, n \in Item : turns[h][n] = 0 /\ moves[n] = 0
    BY <1>1 DEF Init, NoTick
<1>3. \A h \in Handler, n \in Item : Spare(h, n) /\ turns[h][n] <= moves[n] + 1
    BY <1>2 DEF Spare
<1> QED
    BY <1>2, <1>3 DEF Tally, OutShape, Tallied

\* Every step keeps the account of each handler and item.
LEMMA NextTallied == TallyInv /\ [Next]_vars => TallyInv'
<1>1. SUFFICES ASSUME TallyInv, [Next]_vars, Counted' PROVE Tally'
    BY NextInv DEF TallyInv
<1>2. source' = source
    BY <1>1 DEF Next, vars, Upstream, Push, SetStatus, Remark, Show, Change, Read, Skip, ReadHead, ReadStatus, NoCommits,
               RemoveHandler, AddHandler, SetMatch, StartTick, ListPRs, ListWorkItems, RunPlugin, ListedAtOnce,
               Fail, DispatchNext, TickDone, Restart, FetchStep
<1>3. Inv /\ Counted /\ Tally
    BY <1>1, <1>2 DEF TallyInv, Counted, IsCodeHub
<1>4. CASE UNCHANGED vars
    BY <1>3, <1>4, QuietTally DEF vars, upstreamVars, busVars
<1>5. ASSUME NEW n \in Changing, Upstream(n) PROVE Tally'
    BY <1>3, <1>5, UpstreamTally, ChangingAssumption
<1>6. ASSUME NEW n \in Item, Read(n) PROVE Tally'
    BY <1>3, <1>6, ReadTally
<1>7. ASSUME NEW h \in Handler, NEW m, SetMatch(h, m) PROVE Tally'
  <2>1. UNCHANGED <<source, item, moves, seen, turns>>
      BY <1>7 DEF SetMatch
  <2>2. /\ fetch'.pc = fetch.pc /\ fetch'.at = fetch.at /\ fetch'.head = fetch.head
        /\ fetch'.todo = fetch.todo /\ fetch'.out = fetch.out
      BY <1>3, <1>7 DEF SetMatch, Inv, Phases, IsTick
  <2> QED
      BY <1>3, <2>1, <2>2, QuietTally
<1>8. CASE StartTick \/ Fail \/ TickDone \/ Restart
  <2>1. UNCHANGED <<source, item, moves, seen, turns>>
      BY <1>8 DEF StartTick, Fail, TickDone, Restart, FetchStep, upstreamVars, busVars
  <2>2. fetch'.pc # "status" /\ fetch'.out = {}
      BY <1>8 DEF StartTick, Fail, TickDone, Restart, NoTick
  <2> QED
      BY <1>3, <2>1, <2>2, QuietTally
<1>9. CASE ListPRs
  <2>1. UNCHANGED <<source, item, moves, seen, turns>>
      BY <1>9 DEF ListPRs, FetchStep, upstreamVars, busVars
  <2>2. fetch'.pc # "status" /\ fetch'.out = {}
      BY <1>3, <1>9 DEF ListPRs, Inv, Phases, IsTick, Tally, OutShape
  <2> QED
      BY <1>3, <2>1, <2>2, QuietTally
<1>10. CASE ListWorkItems \/ RunPlugin
  <2>1. PICK page \in SUBSET Shown : ListedAtOnce(page)
      BY <1>10 DEF ListWorkItems, RunPlugin
  <2>2. ~IsCodeHub /\ FetchStep
      BY <1>10, <2>1 DEF ListWorkItems, RunPlugin, IsCodeHub, ListedAtOnce
  <2> QED
      BY <1>3, <2>1, <2>2, ListedAtOnceTally
<1>11. CASE DispatchNext
    BY <1>3, <1>11, DispatchTally
<1> QED
    BY <1>1, <1>4, <1>5, <1>6, <1>7, <1>8, <1>9, <1>10, <1>11 DEF Next, RemoveHandler, AddHandler

\* An item drives a handler of CodeHubSource, WorkitemSource or ExecSource (unless the
\* version is the time of the last change) at most once, and once more for each push or
\* change of status: whatever fails, restarts or changes while it is read, a batch that
\* waits and a head read before the merge status drive no turn beyond that.
THEOREM TurnsBounded == Spec => []TurnsBoundedByChanges
<1>1. Init => TallyInv
    BY InitTallied
<1>2. TallyInv /\ [Next]_vars => TallyInv'
    BY NextTallied
<1>3. TallyInv => TurnsBoundedByChanges
    BY DEF TallyInv, Tally, Tallied, Counted, TurnsBoundedByChanges
<1> QED
    BY <1>1, <1>2, <1>3, PTL DEF Spec
=============================================================================
