-------------------------- MODULE MCStoreLifecycle --------------------------
(* A subscription with three event ids and windows of one or two entries, so *)
(* that rotation, expiry and a change of size all happen.                    *)
EXTENDS StoreLifecycle

CONSTANTS a, b, c, k1, pr

MCEvent == {[id |-> i, subject |-> pr, key |-> k1] : i \in {a, b, c}}

Symmetries == Permutations({a, b, c}) \cup Permutations(Caller)
=============================================================================
