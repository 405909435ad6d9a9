---------------------------- MODULE MCEventBus ------------------------------
(* Small instances of the bus.  Handler names are the names of their        *)
(* policies where a run has one handler of each.                            *)
EXTENDS EventBus

CONSTANTS i1, i2, i3, k1, k2, pr

Ev(id, key, hop) == [id |-> id, key |-> key, subject |-> pr, hop |-> hop]

\* An event of each of two keys: a retry of the first meets its own dispatch.
TwoKeys == {Ev(i1, k1, 0), Ev(i2, k2, 0)}

\* Two events of one key.
SameKey == {Ev(i1, k1, 0), Ev(i2, k1, 0)}

\* An event at the hop limit (MaxHop = 1), one below and one beyond it.
HopEvents == {Ev(i1, k1, 1), Ev(i2, k1, 0), Ev(i3, k1, 2)}

NameIsPolicy == [h \in Handler |-> h]
AllMatch == [h \in Handler |-> Event]

\* The stateless handler matches the first event alone.
SecondMatchesFirst == [h \in Handler |-> {e \in Event : h = "stateless" => e.id = i1}]

NeverSilent == [h \in Handler |-> {}]
SecondSilent == [h \in Handler |-> {e \in Event : e.id = i2 /\ h # "keyed"}]

ById(id) == [id |-> id, key |-> None, subject |-> None]
RetryFirst == {ById(i1)}
RetrySubject == {[id |-> None, key |-> None, subject |-> pr]}

Symmetries == Permutations(Session) \cup Permutations(Worker) \cup Permutations(Object)
=============================================================================
